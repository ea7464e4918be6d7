--------------------------- MODULE AArch64Encoder ---------------------------
(***************************************************************************)
(* The AArch64 encoder (aarch64_encoder.cpp): every instruction becomes a  *)
(* word of 32 bits, and the branches to blocks and functions of the        *)
(* section get their distances at the end.                                 *)
(*                                                                         *)
(* A word, and the value of an immediate, is the set of its bits that are  *)
(* one, so that | is \cup.  An instruction is [op, operands] with operands *)
(* of a kind: "gp" and "fp" registers (31 is SP), "imm" with the bits of a *)
(* 64-bit value, "float" with the bits of a float or double, "cond",       *)
(* "lsl", "addr", "slot" and "stack" with the offset of a stack slot,      *)
(* "symbol" and "block".  A program also holds the labels of its blocks    *)
(* and functions, as [op |-> "LABEL"].                                     *)
(***************************************************************************)
EXTENDS Integers, Sequences, FiniteSets

CONSTANTS Arm64Programs, Darwin   \* the programs to encode, and whether they are for macOS

VARIABLES code,      \* the program
          at,        \* the next instruction
          words,     \* the section
          uses,      \* [at, symbol, kind]: the words that refer to a symbol
          defs,      \* where the symbols of the section are
          resolved   \* whether the symbols have been resolved
arm64Vars == <<code, at, words, uses, defs, resolved>>

BitsOf(n) == {k \in 0..30 : (n \div 2 ^ k) % 2 = 1}
Word(high, low) == {k + 16 : k \in BitsOf(high)} \cup BitsOf(low)
Field(bits, lsb) == {k + lsb : k \in bits}
Flag(condition, bit) == IF condition THEN {bit} ELSE {}

encode_imm(bits, numBits, shift) == {k - shift : k \in bits \cap (shift..shift + numBits - 1)}
\* A condition is in the order of AArch64Condition.
Conditions == <<"EQ", "NE", "HS", "LO", "HI", "LS", "GE", "LT", "GT", "LE">>
encode_cond(c) ==
    BitsOf([EQ |-> 0, NE |-> 1, HS |-> 2, LO |-> 3, HI |-> 8, LS |-> 9, GE |-> 10, LT |-> 11, GT |-> 12, LE |-> 13][c])
encode_f32_imm(bits) == Field(encode_imm(bits, 1, 31), 7) \cup encode_imm(bits, 7, 19)
encode_f64_imm(bits) == Field(encode_imm(bits, 1, 63), 7) \cup encode_imm(bits, 7, 48)

Reg(o, lsb) == Field(BitsOf(o.reg), lsb)
IsSp(o) == o.kind = "gp" /\ o.reg = 31
Wide(o) == o.size = 8
Sf(o, bit) == Flag(Wide(o), bit)

-----------------------------------------------------------------------------
(* Addresses.                                                              *)
Offset(base, bits) == [mode |-> "const", base |-> base, bits |-> bits]
\* post is the operand behind the address, <<>> if there is none.
lower_addr(o, post) ==
    CASE o.kind = "slot" -> Offset(31, o.bits)
      [] o.type = "base" /\ post # <<>> -> [mode |-> "post", base |-> o.base, bits |-> post[1].bits]
      [] o.type = "base" /\ post = <<>> -> Offset(o.base, {})
      [] o.type \in {"imm", "stack"} -> Offset(o.base, o.bits)
      [] o.type = "write" -> [mode |-> "pre", base |-> o.base, bits |-> o.bits]
      [] o.type = "reg" -> [mode |-> "reg", base |-> o.base, index |-> o.index, shift |-> o.shift]
      [] o.type = "symbol" -> [mode |-> "symbol", base |-> o.base, name |-> o.name, reloc |-> o.reloc]

Negative(bits) == 63 \in bits
encode_addr(a, shift) ==
    Field(BitsOf(a.base), 5) \cup
    CASE a.mode = "const" ->
           IF ~Negative(a.bits) /\ a.bits \cap 0..(shift - 1) = {}
             THEN {24} \cup Field(encode_imm(a.bits, 12, shift), 10)
             ELSE Field(encode_imm(a.bits, 9, 0), 12)
      [] a.mode = "reg" -> Word(\h20, \h6800) \cup Field(BitsOf(a.index), 16) \cup Flag(a.shift # 0, 12)
      [] a.mode = "symbol" -> {24}
      [] a.mode = "post" -> BitsOf(\h400) \cup Field(encode_imm(a.bits, 9, 0), 12)
      [] a.mode = "pre" -> BitsOf(\hC00) \cup Field(encode_imm(a.bits, 9, 0), 12)

Use(name, kind) == {[name |-> name, kind |-> kind]}
AddrUses(a) == IF a.mode = "symbol" THEN Use(a.name, a.reloc) ELSE {}
Instr(bits) == [bits |-> bits, uses |-> {}]

-----------------------------------------------------------------------------
(* The families of instructions and their templates.                       *)
encode_mov(dst, src) ==
    IF src.kind = "gp" THEN Instr(Word(\h2A00, \h03E0) \cup Sf(dst, 31) \cup Reg(src, 16) \cup Reg(dst, 0))
    ELSE LET shift == CASE src.bits \cap 48..63 # {} -> 48 [] src.bits \cap 32..63 # {} -> 32
                        [] src.bits \cap 16..63 # {} -> 16 [] OTHER -> 0
             useMovn == src.bits \cap 0..(shift - 1) # {}
             bits == IF useMovn THEN (0..63) \ src.bits ELSE src.bits
             by == IF useMovn THEN 0 ELSE shift
         IN Instr((IF useMovn THEN Word(\h1280, 0) ELSE Word(\h5280, 0)) \cup Sf(dst, 31)
                  \cup Field(encode_imm(BitsOf(by), 2, 4), 21) \cup Field(encode_imm(bits, 16, by), 5) \cup Reg(dst, 0))

MovzFamily == [MOVZ |-> Word(\h5280, 0), MOVK |-> Word(\h7280, 0)]
encode_movz_family(template, dst, src, by) ==
    Instr(template \cup Sf(dst, 31) \cup Field(encode_imm(BitsOf(by), 2, 4), 21)
          \cup Field(encode_imm(src.bits, 16, 0), 5) \cup Reg(dst, 0))

LdrFamily == [LDR |-> <<Word(\hB840, 0), Word(\hBC40, 0)>>, STR |-> <<Word(\hB800, 0), Word(\hBC00, 0)>>]
encode_ldr_family(templates, r, o, post) ==
    LET a == lower_addr(o, post)
    IN [bits |-> (IF r.kind = "gp" THEN templates[1] ELSE templates[2]) \cup Sf(r, 30)
                 \cup encode_addr(a, IF Wide(r) THEN 3 ELSE 2) \cup Reg(r, 0),
        uses |-> AddrUses(a)]

LdrbFamily == [LDRB |-> <<0, Word(\h3840, 0)>>, LDRH |-> <<1, Word(\h7840, 0)>>,
               STRB |-> <<0, Word(\h3800, 0)>>, STRH |-> <<1, Word(\h7800, 0)>>]
encode_ldrb_family(params, r, o, post) ==
    LET a == lower_addr(o, post)
    IN [bits |-> params[2] \cup encode_addr(a, params[1]) \cup Reg(r, 0), uses |-> AddrUses(a)]

LdpFamily == [LDP |-> <<Word(\h28C0, 0), Word(\h29C0, 0)>>, STP |-> <<Word(\h2880, 0), Word(\h2980, 0)>>]
encode_ldp_family(templates, r1, r2, o, post) ==
    LET a == lower_addr(o, post)
    IN Instr(templates[IF a.mode = "post" THEN 1 ELSE 2] \cup Sf(r1, 31)
             \cup Field(encode_imm(a.bits, 7, IF Wide(r1) THEN 3 ELSE 2), 15)
             \cup Reg(r2, 10) \cup Field(BitsOf(a.base), 5) \cup Reg(r1, 0))

AddFamily == [ADD |-> <<Word(\h0B20, 0), Word(\h0B00, 0), Word(\h1100, 0)>>,
              SUB |-> <<Word(\h4B20, 0), Word(\h4B00, 0), Word(\h5100, 0)>>]
encode_add_family(templates, dst, lhs, rhs, by) ==
    LET both == Sf(dst, 31) \cup Reg(lhs, 5) \cup Reg(dst, 0)
    IN CASE rhs.kind = "gp" /\ (IsSp(dst) \/ IsSp(lhs)) ->
              Instr(templates[1] \cup both \cup Reg(rhs, 16) \cup Field(BitsOf(3), 13))
         [] rhs.kind = "gp" /\ ~(IsSp(dst) \/ IsSp(lhs)) ->
              Instr(templates[2] \cup both \cup Reg(rhs, 16) \cup Field(encode_imm(BitsOf(by), 6, 0), 10))
         [] rhs.kind = "imm" ->
              Instr(templates[3] \cup both \cup Flag(by = 12, 22) \cup Field(encode_imm(rhs.bits, 12, 0), 10))
         [] rhs.kind = "symbol" ->
              [bits |-> templates[3] \cup {31} \cup Reg(lhs, 5) \cup Reg(dst, 0), uses |-> Use(rhs.name, rhs.reloc)]
         [] rhs.kind = "stack" -> Instr(templates[3] \cup both \cup Field(encode_imm(rhs.bits, 12, 0), 10))

MulFamily == [MUL |-> Word(\h1B00, \h7C00), SDIV |-> Word(\h1AC0, \h0C00), UDIV |-> Word(\h1AC0, \h0800),
              LSL |-> Word(\h1AC0, \h2000), LSR |-> Word(\h1AC0, \h2400), ASR |-> Word(\h1AC0, \h2800)]
encode_mul_family(template, dst, lhs, rhs) ==
    Instr(template \cup Sf(dst, 31) \cup Reg(rhs, 16) \cup Reg(lhs, 5) \cup Reg(dst, 0))

MaddFamily == [MADD |-> Word(\h1B00, 0), MSUB |-> Word(\h1B00, \h8000)]
encode_madd_family(template, dst, lhs, rhs, addend) ==
    Instr(template \cup Sf(dst, 31) \cup Reg(rhs, 16) \cup Reg(addend, 10) \cup Reg(lhs, 5) \cup Reg(dst, 0))

AndFamily == [AND |-> Word(\h0A00, 0), ORR |-> Word(\h2A00, 0), EOR |-> Word(\h4A00, 0)]
encode_and_family(template, dst, lhs, rhs, by) ==
    Instr(template \cup Sf(dst, 31) \cup Reg(rhs, 16) \cup Field(encode_imm(BitsOf(by), 6, 0), 10)
          \cup Reg(lhs, 5) \cup Reg(dst, 0))

encode_csel(dst, lhs, rhs, c) ==
    Instr(Word(\h1A80, 0) \cup Sf(dst, 31) \cup Reg(rhs, 16) \cup Field(encode_cond(c.cond), 12)
          \cup Reg(lhs, 5) \cup Reg(dst, 0))
encode_fcsel(dst, lhs, rhs, c) ==
    Instr(Word(\h1E20, \h0C00) \cup Sf(dst, 22) \cup Reg(rhs, 16) \cup Field(encode_cond(c.cond), 12)
          \cup Reg(lhs, 5) \cup Reg(dst, 0))

encode_fmov(dst, src) ==
    CASE src.kind = "fp" /\ dst.kind = "fp" -> Instr(Word(\h1E20, \h4000) \cup Sf(dst, 22) \cup Reg(src, 5) \cup Reg(dst, 0))
      [] src.kind = "fp" /\ dst.kind = "gp" ->
           Instr(Word(\h1E26, 0) \cup Sf(dst, 31) \cup Sf(src, 22) \cup Reg(src, 5) \cup Reg(dst, 0))
      [] src.kind = "gp" /\ dst.kind = "fp" ->
           Instr(Word(\h1E26, 0) \cup Sf(src, 31) \cup Sf(src, 22) \cup {16} \cup Reg(src, 5) \cup Reg(dst, 0))
      [] src.kind = "float" ->
           Instr(Word(\h1E20, \h1000) \cup Sf(dst, 22) \cup Reg(dst, 0)
                 \cup Field(IF Wide(dst) THEN encode_f64_imm(src.bits) ELSE encode_f32_imm(src.bits), 13))

FaddFamily == [FADD |-> Word(\h1E20, \h2800), FSUB |-> Word(\h1E20, \h3800),
               FMUL |-> Word(\h1E20, \h0800), FDIV |-> Word(\h1E20, \h1800)]
encode_fadd_family(template, dst, lhs, rhs) ==
    Instr(template \cup Sf(dst, 22) \cup Reg(rhs, 16) \cup Reg(lhs, 5) \cup Reg(dst, 0))
encode_fcvt(dst, src) ==
    Instr(Word(\h1E22, \h4000) \cup Sf(src, 22) \cup Sf(dst, 15) \cup Reg(src, 5) \cup Reg(dst, 0))
ScvtfFamily == [SCVTF |-> Word(\h1E22, 0), UCVTF |-> Word(\h1E23, 0)]
encode_scvtf_family(template, dst, src) ==
    Instr(template \cup Sf(src, 31) \cup Sf(dst, 22) \cup Reg(src, 5) \cup Reg(dst, 0))
FcvtzsFamily == [FCVTZS |-> Word(\h1E38, 0), FCVTZU |-> Word(\h1E39, 0)]
encode_fcvtzs_family(template, dst, src) ==
    Instr(template \cup Sf(dst, 31) \cup Sf(src, 22) \cup Reg(src, 5) \cup Reg(dst, 0))

encode_cmp(lhs, rhs) ==
    IF rhs.kind = "gp" THEN Instr(Word(\h6B00, \h001F) \cup Sf(lhs, 31) \cup Reg(rhs, 16) \cup Reg(lhs, 5))
    ELSE Instr(Word(\h7100, \h001F) \cup Sf(lhs, 31) \cup Field(encode_imm(rhs.bits, 12, 0), 10) \cup Reg(lhs, 5))
encode_fcmp(lhs, rhs) == Instr(Word(\h1E20, \h2000) \cup Sf(lhs, 22) \cup Reg(rhs, 16) \cup Reg(lhs, 5))

encode_b(o) == [bits |-> Word(\h1400, 0), uses |-> Use(o.name, "LABEL_BRANCH")]
CondBranches == [b \in {"B_" \o c : c \in {Conditions[k] : k \in DOMAIN Conditions}} |->
                    CHOOSE c \in {Conditions[k] : k \in DOMAIN Conditions} : "B_" \o c = b]
encode_b_cond_family(c, o) == [bits |-> Word(\h5400, 0) \cup encode_cond(c), uses |-> Use(o.name, "LABEL_BRANCH")]
encode_bl(o) == [bits |-> Word(\h9400, 0), uses |-> Use(o.name, IF Darwin THEN "BRANCH26" ELSE "CALL26")]
BranchRegister == [BR |-> Word(\hD61F, 0), BLR |-> Word(\hD63F, 0)]
encode_ret == Instr(Word(\hD65F, 0) \cup Field(BitsOf(30), 5))
encode_adrp(dst, o) == [bits |-> Word(\h9000, 0) \cup Reg(dst, 0), uses |-> Use(o.name, o.reloc)]
UbfmFamily == [UXTB |-> Word(\h5300, \h1C00), UXTH |-> Word(\h5300, \h3C00)]
SbfmFamily == [SXTB |-> Word(\h1300, \h1C00), SXTH |-> Word(\h1300, \h3C00), SXTW |-> Word(\h1300, \h7C00)]

-----------------------------------------------------------------------------
(* The operand behind the k-th, if there is one.                           *)
Behind(i, k) == SubSeq(i.operands, k + 1, Len(i.operands))
Shift(i, k) == IF Len(i.operands) < k THEN 0 ELSE i.operands[k].by
encode_arm64_instr(i) ==
    LET o(k) == i.operands[k]
    IN CASE i.op = "MOV" -> encode_mov(o(1), o(2))
         [] i.op \in DOMAIN MovzFamily -> encode_movz_family(MovzFamily[i.op], o(1), o(2), Shift(i, 3))
         [] i.op \in DOMAIN LdrFamily -> encode_ldr_family(LdrFamily[i.op], o(1), o(2), Behind(i, 2))
         [] i.op \in DOMAIN LdrbFamily -> encode_ldrb_family(LdrbFamily[i.op], o(1), o(2), Behind(i, 2))
         [] i.op \in DOMAIN LdpFamily -> encode_ldp_family(LdpFamily[i.op], o(1), o(2), o(3), Behind(i, 3))
         [] i.op \in DOMAIN AddFamily -> encode_add_family(AddFamily[i.op], o(1), o(2), o(3), Shift(i, 4))
         [] i.op \in DOMAIN MulFamily -> encode_mul_family(MulFamily[i.op], o(1), o(2), o(3))
         [] i.op \in DOMAIN MaddFamily -> encode_madd_family(MaddFamily[i.op], o(1), o(2), o(3), o(4))
         [] i.op \in DOMAIN AndFamily -> encode_and_family(AndFamily[i.op], o(1), o(2), o(3), Shift(i, 4))
         [] i.op = "CSEL" -> encode_csel(o(1), o(2), o(3), o(4))
         [] i.op = "FCSEL" -> encode_fcsel(o(1), o(2), o(3), o(4))
         [] i.op = "FMOV" -> encode_fmov(o(1), o(2))
         [] i.op \in DOMAIN FaddFamily -> encode_fadd_family(FaddFamily[i.op], o(1), o(2), o(3))
         [] i.op = "FCVT" -> encode_fcvt(o(1), o(2))
         [] i.op \in DOMAIN ScvtfFamily -> encode_scvtf_family(ScvtfFamily[i.op], o(1), o(2))
         [] i.op \in DOMAIN FcvtzsFamily -> encode_fcvtzs_family(FcvtzsFamily[i.op], o(1), o(2))
         [] i.op = "CMP" -> encode_cmp(o(1), o(2))
         [] i.op = "FCMP" -> encode_fcmp(o(1), o(2))
         [] i.op = "B" -> encode_b(o(1))
         [] i.op \in DOMAIN CondBranches -> encode_b_cond_family(CondBranches[i.op], o(1))
         [] i.op = "BL" -> encode_bl(o(1))
         [] i.op \in DOMAIN BranchRegister -> Instr(BranchRegister[i.op] \cup Reg(o(1), 5))
         [] i.op = "RET" -> encode_ret
         [] i.op = "ADRP" -> encode_adrp(o(1), o(2))
         [] i.op \in DOMAIN UbfmFamily -> Instr(UbfmFamily[i.op] \cup Reg(o(2), 5) \cup Reg(o(1), 0))
         [] i.op \in DOMAIN SbfmFamily ->
              Instr(SbfmFamily[i.op] \cup Sf(o(1), 31) \cup Sf(o(1), 22) \cup Reg(o(2), 5) \cup Reg(o(1), 0))

\* resolve_symbol: the distance as 32 bits, in words, in the place its branch has for it.
Distance(u) == LET d == 4 * (defs[u.name] - u.at) IN IF d >= 0 THEN BitsOf(d) ELSE (0..31) \ BitsOf(-d - 1)
Resolvable(u) == u.kind \in {"LABEL_BRANCH", "CALL26", "BRANCH26"} /\ u.name \in DOMAIN defs
resolve_symbol(u) ==
    IF u.kind = "LABEL_BRANCH" /\ encode_imm(words[u.at], 8, 24) = BitsOf(\h54)
      THEN Field(encode_imm(Distance(u), 19, 2), 5)
      ELSE encode_imm(Distance(u), 26, 2)

-----------------------------------------------------------------------------
Arm64Init ==
    /\ code \in Arm64Programs
    /\ at = 1
    /\ words = <<>>
    /\ uses = {}
    /\ defs = <<>>
    /\ resolved = FALSE

\* BinaryBuilder::encode: a label is where the next word goes.
DefineLabel ==
    /\ at <= Len(code) /\ code[at].op = "LABEL"
    /\ defs' = [n \in DOMAIN defs \cup {code[at].name} |-> IF n = code[at].name THEN Len(words) + 1 ELSE defs[n]]
    /\ at' = at + 1
    /\ UNCHANGED <<code, words, uses, resolved>>

EncodeWord ==
    /\ at <= Len(code) /\ code[at].op # "LABEL"
    /\ LET e == encode_arm64_instr(code[at])
       IN /\ words' = Append(words, e.bits)
          /\ uses' = uses \cup {[at |-> Len(words) + 1, name |-> u.name, kind |-> u.kind] : u \in e.uses}
    /\ at' = at + 1
    /\ UNCHANGED <<code, defs, resolved>>

\* What is resolved needs no relocation any more.
ResolveSymbols ==
    /\ at > Len(code) /\ ~resolved
    /\ words' = [k \in DOMAIN words |->
                    words[k] \cup UNION {resolve_symbol(u) : u \in {v \in uses : v.at = k /\ Resolvable(v)}}]
    /\ uses' = {u \in uses : ~Resolvable(u)}
    /\ resolved' = TRUE
    /\ UNCHANGED <<code, at, defs>>

=============================================================================
