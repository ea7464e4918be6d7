---------------------------- MODULE MCCodeLayout ----------------------------
(***************************************************************************)
(* Where code and data lie.  A behaviour is either a run of a program over *)
(* its stack frames or the building of a text section.                     *)
(*                                                                         *)
(* The programs: main calls g and h, g calls h twice, h calls nothing.     *)
(* The parameters of g and h, the slots they keep them in, their locals    *)
(* and the registers they write are varied.                                *)
(***************************************************************************)
EXTENDS BinaryBuilder, TLC

CONSTANTS Defects,   \* the known defects whose programs are left in
          Layouts,   \* the programs over stack frames
          StackTop, Main,   \* see StackFrames
          Opcodes    \* of the two branches of a text, pairs

VARIABLES conv, code, regs, sp, mem, made, acts
frames == <<conv, code, regs, sp, mem, made, acts>>
Frames == INSTANCE StackFrames WITH Programs <- Layouts

Ints(n) == [i \in 1..n |-> "int"]
Fps(n) == [i \in 1..n |-> "fp"]
Signatures == {<<>>, <<"int">>, <<"fp", "int", "fp">>, Ints(5), Ints(10), Fps(11),
               Ints(4) \o Fps(4), Ints(7) \o Fps(2) \o Ints(2)}

\* No parameter is kept, all are, the first and the last are, or the first is larger than a register.
Kept == {"none", "all", "outer", "large"}
Slot(c, kept, n, i) ==
    CASE kept = "none" -> 0
      [] kept = "all" -> 8
      [] kept = "outer" -> IF i \in {1, n} THEN 8 ELSE 0
      [] kept = "large" -> IF i # 1 THEN 0 ELSE IF c = "ms" THEN 8 ELSE 12
ParamList(c, types, kept) == [i \in DOMAIN types |-> [type |-> types[i], slot |-> Slot(c, kept, Len(types), i)]]

Locals == {<<>>, <<16, 8>>, <<5000, 8>>, <<33000, 12>>}
Modified(c) == CASE c = "sysv" -> {<<>>, <<"rbx">>, <<"r12", "rbx">>}
                 [] c = "ms" -> {<<>>, <<"rbx">>, <<"xmm6", "rsi">>, <<"rbx", "rdi", "xmm7", "xmm6">>}
                 [] c = "aapcs" -> {<<>>, <<"x19">>, <<"v8", "x20">>}

\* On AArch64, eight integers and eight floats are passed in registers.
OnStackParams(types) == \E t \in {"int", "fp"} : Cardinality({i \in DOMAIN types : types[i] = t}) > 8
\* AArch64: a float among more than eight arguments, and a parameter on the stack of a function that saves registers.
Known(c, types, modified) ==
    \/ "positions" \notin Defects /\ c = "aapcs" /\ Len(types) > 8 /\ \E i \in DOMAIN types : types[i] # types[1]
    \/ "saved" \notin Defects /\ c = "aapcs" /\ modified # <<>> /\ OnStackParams(types)

Shapes(c) ==
    {[params |-> ParamList(c, t, k), locals |-> l, modified |-> m] :
        t \in Signatures, k \in Kept, l \in Locals, m \in Modified(c)}
Allowed(c, s) == ~Known(c, [i \in DOMAIN s.params |-> s.params[i].type], s.modified)
Leaf == {[types |-> Fps(11), kept |-> "outer", locals |-> <<16, 8>>],
         [types |-> Ints(10), kept |-> "all", locals |-> <<5000, 8>>],
         [types |-> <<"fp", "int", "fp">>, kept |-> "large", locals |-> <<>>]}
Leaves(c) == {[params |-> ParamList(c, x.types, x.kept), locals |-> x.locals, modified |-> m] :
                 x \in Leaf, m \in {CHOOSE m \in Modified(c) : \A o \in Modified(c) : Len(o) <= Len(m)}}

With(s, calls) == s @@ [calls |-> calls]
MainShape(c) == [params |-> <<>>, locals |-> <<8, 8>>, modified |-> <<>>]
LayoutsOf(c, gs, hs) ==
    {[conv |-> c, functions |-> "main" :> With(MainShape(c), <<"g", "h">>) @@ "g" :> With(g, <<"h", "h">>)
                                @@ "h" :> With(h, <<>>)] :
        g \in {s \in gs : Allowed(c, s)}, h \in {s \in hs : Allowed(c, s)}}
MCLayouts == UNION {LayoutsOf(c, Shapes(c), Leaves(c)) : c \in {"sysv", "ms", "aapcs"}}

-----------------------------------------------------------------------------
(***************************************************************************)
(* The texts: functions with two blocks, two branches and two more         *)
(* instructions in every order, branches forwards and backwards, over      *)
(* distances on both sides of what one byte reaches, over calls and over   *)
(* each other.                                                             *)
(***************************************************************************)
MCSymbols == {"f", "a", "b", "end"}
MCExternals == {"x"}

SymbolItem(s) == [kind |-> "symbol", name |-> s]
PlainItem(n) == [kind |-> "plain", size |-> n]
CallItem(t) == [kind |-> "call", target |-> t]
BranchItem(o, t) == [kind |-> "branch", opcode |-> o, target |-> t]

(* With 123 bytes between a branch and its block, it fits until a branch   *)
(* in between grows.                                                       *)
Fillers ==
    {<<PlainItem(123), PlainItem(126)>>, <<PlainItem(126), PlainItem(123)>>,
     <<PlainItem(121), CallItem("x")>>, <<PlainItem(126), CallItem("f")>>, <<CallItem("x"), PlainItem(123)>>}

Body == 1..6
Pairs == {p \in Body \X Body : p[1] < p[2]}
Nth(p, k) == IF p[1] = k THEN 1 ELSE 2

MCTexts ==
    {<<SymbolItem("f")>>
     \o [k \in Body |->
            IF k \in {blocks[1], blocks[2]} THEN SymbolItem(<<"a", "b">>[Nth(blocks, k)])
            ELSE IF k \in {branches[1], branches[2]}
            THEN BranchItem(o[Nth(branches, k)], t[Nth(branches, k)])
            ELSE f[Cardinality({j \in 1..k : j \notin {blocks[1], blocks[2], branches[1], branches[2]}})]]
     \o <<SymbolItem("end")>> :
        <<blocks, branches>> \in {q \in Pairs \X Pairs :
                                     {q[1][1], q[1][2]} \cap {q[2][1], q[2][2]} = {}},
        o \in Opcodes, t \in {"a", "b"} \X {"a", "b"}, f \in Fillers}

MCOpcodes == {<<\hEB, \h74>>, <<\h7C, \hEB>>}
WithJg == {<<\hEB, \h7F>>}

-----------------------------------------------------------------------------
NoProgram == /\ conv = "" /\ code = <<>> /\ regs = <<>> /\ sp = StackTop
             /\ mem = <<>> /\ made = 1 /\ acts = <<>>
NoText == /\ items = <<>> /\ phase = "none" /\ next = 1 /\ slices = <<>> /\ offsets = <<>> /\ defs = <<>>
          /\ uses = {} /\ continue = FALSE /\ symbols = <<>> /\ relocations = {}
InitLayout == (Frames!Init /\ NoText) \/ (Init /\ NoProgram)
RunProgram == Frames!Next /\ UNCHANGED vars
BuildText == Next /\ UNCHANGED frames
NextLayout == RunProgram \/ BuildText
SpecLayout == InitLayout /\ [][NextLayout]_<<vars, frames>> /\ WF_<<vars, frames>>(BuildText)

\* What the frames promise, see StackFrames.
ArgsArrive == Frames!ArgsArrive
FramesKept == Frames!FramesKept
ScratchRestored == Frames!ScratchRestored

\* A text section is finished, see Terminates of BinaryBuilder.
SectionsEnd == phase = "none" \/ Terminates
=============================================================================
