----------------------------- MODULE BinaryBuilder ------------------------------
(***************************************************************************)
(* The text section of a module on x86-64, from the encoded instructions   *)
(* to the bytes of the object file: the slices of SectionBuilder, the      *)
(* relaxation of branches (X8664Encoder::apply_relaxation), the symbols    *)
(* resolved within the section and the rest handed on as relocations       *)
(* (src/src/banjo/emit/binary_builder.cpp, section_builder.cpp).           *)
(*                                                                         *)
(* A branch to a block has a slice of its own, of two bytes at first, and  *)
(* becomes longer where its target is too far; everything behind it is     *)
(* pushed out, which may put the target of another branch out of reach.    *)
(*                                                                         *)
(* The instructions are a sequence of items in the order of encode:        *)
(*   [kind |-> "symbol", name]      a function, a block, the end of a      *)
(*                                  function or a point of its prologue    *)
(*   [kind |-> "plain", size]       an instruction encoded in place        *)
(*   [kind |-> "call", target]      E8 and four bytes                      *)
(*   [kind |-> "branch", opcode, target]                                   *)
(* The bytes of the others are the subject of X8664Encoder.                *)
(***************************************************************************)
EXTENDS Integers, Sequences, FiniteSets

CONSTANTS Symbols,       \* defined in the text section
          Externals,     \* symbols of other modules
          Programs       \* the item sequences to build

VARIABLES
    items,
    phase,       \* "encode", "offsets", "relax", "resolve", "bake", "done"
    next,        \* the item or slice that the loop of the phase is at
    slices,      \* of SectionBuilder: [size, branch, opcode, target, at, value]
    offsets,     \* of the slices
    defs,        \* where a symbol is: [slice, local]
    uses,        \* of symbols by calls: [slice, at, target, value, resolved]
    continue,    \* continue_ of apply_relaxation
    symbols,     \* the offsets of the symbols in the object file
    relocations  \* [address, symbol]

vars == <<items, phase, next, slices, offsets, defs, uses, continue, symbols, relocations>>

-----------------------------------------------------------------------------
NearJmp == \hEB
FarJmp == \hE9
FarJcc == \h0F
RelaxableJcc == \h72..\h7E
Jg == \h7F

(* What encode is given: a symbol is attached once, and a branch goes to a *)
(* block of the section.                                                   *)
Item == [kind : {"symbol"}, name : Symbols]
   \cup [kind : {"plain"}, size : Nat]
   \cup [kind : {"call"}, target : Symbols \cup Externals]
   \cup [kind : {"branch"}, opcode : RelaxableJcc \cup {Jg, NearJmp}, target : Symbols]

DefinesSymbol(p, k, s) == p[k].kind = "symbol" /\ p[k].name = s

IsText(p) ==
    /\ p \in Seq(Item)
    /\ \A s \in Symbols : \E k \in DOMAIN p :
           /\ DefinesSymbol(p, k, s)
           /\ \A j \in DOMAIN p : DefinesSymbol(p, j, s) => j = k

WellFormed == Symbols \cap Externals = {} /\ \A p \in Programs : IsText(p)

ASSUME TextsAssumption == WellFormed

-----------------------------------------------------------------------------
Plain(size) ==
    [size |-> size, branch |-> FALSE, opcode |-> 0, target |-> 0, at |-> 0, value |-> 0]

(* create_relaxable_slice and the bytes that encode_jmp, encode_jcc write. *)
Branch(opcode, target) ==
    [size |-> 2, branch |-> TRUE, opcode |-> opcode, target |-> target, at |-> 1, value |-> 0]

fits_in_i8(value) == value \in -128..127

Last == Len(slices)

(* compute_displacement: from the field to the symbol.                     *)
Displacement(slice, at, symbol) ==
    (offsets[defs[symbol].slice] + defs[symbol].local) - (offsets[slice] + at)

FieldWidth(opcode) == IF opcode \in {FarJcc, FarJmp} THEN 4 ELSE 1

compute_branch_displacement(k) ==
    Displacement(k, slices[k].at, slices[k].target) - FieldWidth(slices[k].opcode)

-----------------------------------------------------------------------------
Init ==
    /\ items \in Programs
    /\ phase = "encode"
    /\ next = 1
    /\ slices = <<Plain(0)>>
    /\ offsets = <<>>
    /\ defs = [s \in Symbols |-> [slice |-> 1, local |-> 0]]
    /\ uses = {}
    /\ continue = FALSE
    /\ symbols = <<>>
    /\ relocations = {}

Encoding(kind) == phase = "encode" /\ next <= Len(items) /\ items[next].kind = kind

(* attach_symbol_def, add_empty_label: the end of the last slice.          *)
AttachSymbolDef ==
    /\ Encoding("symbol")
    /\ defs' = [defs EXCEPT ![items[next].name] = [slice |-> Last, local |-> slices[Last].size]]
    /\ next' = next + 1
    /\ UNCHANGED <<items, phase, slices, offsets, uses, continue, symbols, relocations>>

EncodePlain ==
    /\ Encoding("plain")
    /\ slices' = [slices EXCEPT ![Last].size = @ + items[next].size]
    /\ next' = next + 1
    /\ UNCHANGED <<items, phase, offsets, defs, uses, continue, symbols, relocations>>

EncodeCall ==
    /\ Encoding("call")
    /\ uses' = uses \cup {[slice |-> Last, at |-> slices[Last].size + 1,
                           target |-> items[next].target, value |-> 0, resolved |-> FALSE]}
    /\ slices' = [slices EXCEPT ![Last].size = @ + 5]
    /\ next' = next + 1
    /\ UNCHANGED <<items, phase, offsets, defs, continue, symbols, relocations>>

EncodeBranch ==
    /\ Encoding("branch")
    /\ slices' = Append(Append(slices, Branch(items[next].opcode, items[next].target)), Plain(0))
    /\ next' = next + 1
    /\ UNCHANGED <<items, phase, offsets, defs, uses, continue, symbols, relocations>>

EncodingEnds ==
    /\ phase = "encode"
    /\ next > Len(items)
    /\ phase' = "offsets"
    /\ next' = 1
    /\ UNCHANGED <<items, slices, offsets, defs, uses, continue, symbols, relocations>>

(* compute_slice_offsets, one slice at a time.                             *)
ComputeSliceOffset ==
    /\ phase = "offsets"
    /\ next <= Last
    /\ offsets' = Append(offsets, IF next = 1 THEN 0 ELSE offsets[next - 1] + slices[next - 1].size)
    /\ next' = next + 1
    /\ UNCHANGED <<items, phase, slices, defs, uses, continue, symbols, relocations>>

OffsetsEnd ==
    /\ phase = "offsets"
    /\ next > Last
    /\ phase' = "relax"
    /\ next' = 1
    /\ continue' = FALSE
    /\ UNCHANGED <<items, slices, offsets, defs, uses, symbols, relocations>>

-----------------------------------------------------------------------------
(* apply_relaxation: the loop over the slices.                             *)

PushOutFromItself(first, by) ==   \* mutant: the branch is moved with what follows it
    [k \in DOMAIN offsets |-> IF k >= first - 1 THEN offsets[k] + by ELSE offsets[k]]

PushOutBehindNext(first, by) ==   \* mutant: the slice after the branch stays
    [k \in DOMAIN offsets |-> IF k > first THEN offsets[k] + by ELSE offsets[k]]

PushOutSlices(first, by) ==
    [k \in DOMAIN offsets |-> IF k >= first THEN offsets[k] + by ELSE offsets[k]]

(* relax_jmp, relax_jcc.                                                   *)
RelaxedInPlace(slice) ==   \* mutant: the field is not moved behind the second opcode byte
    IF slice.opcode = NearJmp
    THEN [slice EXCEPT !.opcode = FarJmp, !.size = 5, !.value = 0]
    ELSE [slice EXCEPT !.opcode = FarJcc, !.size = 6, !.value = 0]

Relaxed(slice) ==
    IF slice.opcode = NearJmp
    THEN [slice EXCEPT !.opcode = FarJmp, !.size = 5, !.value = 0]
    ELSE [slice EXCEPT !.opcode = FarJcc, !.size = 6, !.at = @ + 1, !.value = 0]

(* What relax_jmp and relax_jcc push the slices behind by.                 *)
Growth(opcode) == IF opcode = NearJmp THEN 3 ELSE 4

Visiting == phase = "relax" /\ next <= Last

SkipSlice ==
    /\ Visiting
    /\ ~slices[next].branch
    /\ next' = next + 1
    /\ UNCHANGED <<items, phase, slices, offsets, defs, uses, continue, symbols, relocations>>

(* The displacement fits: it is written, and the branch stays as it is.    *)
WriteNear ==
    /\ Visiting
    /\ slices[next].branch
    /\ fits_in_i8(compute_branch_displacement(next))
    /\ slices' = [slices EXCEPT ![next].value = compute_branch_displacement(next)]
    /\ next' = next + 1
    /\ UNCHANGED <<items, phase, offsets, defs, uses, continue, symbols, relocations>>

RelaxBranch ==
    /\ Visiting
    /\ slices[next].branch
    /\ ~fits_in_i8(compute_branch_displacement(next))
    /\ slices[next].opcode \in RelaxableJcc \cup {NearJmp}
    /\ slices' = [slices EXCEPT ![next] = Relaxed(@)]
    /\ offsets' = PushOutSlices(next + 1, Growth(slices[next].opcode))
    /\ continue' = TRUE
    /\ next' = next + 1
    /\ UNCHANGED <<items, phase, defs, uses, symbols, relocations>>

(* It does not fit and the opcode is not one that is relaxed: relaxed      *)
(* already, or JG.                                                         *)
LeaveFar ==
    /\ Visiting
    /\ slices[next].branch
    /\ ~fits_in_i8(compute_branch_displacement(next))
    /\ slices[next].opcode \notin RelaxableJcc \cup {NearJmp}
    /\ next' = next + 1
    /\ UNCHANGED <<items, phase, slices, offsets, defs, uses, continue, symbols, relocations>>

PassEndsKeepingContinue ==   \* mutant: the flag is not reset before a pass
    /\ phase = "relax"
    /\ next > Last
    /\ phase' = IF continue THEN "relax" ELSE "resolve"
    /\ next' = 1
    /\ UNCHANGED <<items, slices, offsets, defs, uses, continue, symbols, relocations>>

PassEnds ==
    /\ phase = "relax"
    /\ next > Last
    /\ phase' = IF continue THEN "relax" ELSE "resolve"
    /\ next' = 1
    /\ continue' = FALSE
    /\ UNCHANGED <<items, slices, offsets, defs, uses, symbols, relocations>>

-----------------------------------------------------------------------------
(* resolve_relaxable_slice: one byte is written if the displacement fits,  *)
(* whatever the width of the field (the bytes after it are zero), or else  *)
(* four, which may reach beyond the slice and make it longer.  The value   *)
(* is the one that the processor reads in a field of that width.           *)
Resolved(k) ==
    LET displacement == compute_branch_displacement(k)
        near == FieldWidth(slices[k].opcode) = 1
        low == displacement % 256
    IN  IF fits_in_i8(displacement)
        THEN [slices[k] EXCEPT !.value = IF near THEN displacement ELSE low]
        ELSE [slices[k] EXCEPT !.value = IF near THEN (IF low < 128 THEN low ELSE low - 256)
                                         ELSE displacement,
                               !.size = IF @ < slices[k].at + 4 THEN slices[k].at + 4 ELSE @]

(* resolve_symbol: only functions of this section.                         *)
ResolvedUse(u) ==
    IF u.target \in Symbols
    THEN [u EXCEPT !.value = Displacement(u.slice, u.at, u.target) - 4, !.resolved = TRUE]
    ELSE u

ResolveInternalSymbols ==
    /\ phase = "resolve"
    /\ slices' = [k \in DOMAIN slices |-> IF slices[k].branch THEN Resolved(k) ELSE slices[k]]
    /\ uses' = {ResolvedUse(u) : u \in uses}
    /\ phase' = "bake"
    /\ UNCHANGED <<items, next, offsets, defs, continue, symbols, relocations>>

(* bake_symbol_locations, bake_symbol_defs, SectionBuilder::bake.          *)
CreateModule ==
    /\ phase = "bake"
    /\ symbols' = [s \in Symbols |-> offsets[defs[s].slice] + defs[s].local]
    /\ relocations' = {[address |-> offsets[u.slice] + u.at, symbol |-> u.target] :
                           u \in {v \in uses : ~v.resolved}}
    /\ phase' = "done"
    /\ UNCHANGED <<items, next, slices, offsets, defs, uses, continue>>

Next ==
    \/ AttachSymbolDef \/ EncodePlain \/ EncodeCall \/ EncodeBranch \/ EncodingEnds
    \/ ComputeSliceOffset \/ OffsetsEnd
    \/ SkipSlice \/ WriteNear \/ RelaxBranch \/ LeaveFar \/ PassEnds
    \/ ResolveInternalSymbols \/ CreateModule

(* encode is a sequential function that returns.                           *)
Spec == Init /\ [][Next]_vars /\ WF_vars(Next)

-----------------------------------------------------------------------------
(* Where an item lies in the baked section: the sum of the bytes of what   *)
(* precedes it, whatever the builder thinks the offset of its slice is.    *)

BranchSlice(k) == 2 * Cardinality({j \in 1..k : items[j].kind = "branch"})

ItemSize(k) ==
    CASE items[k].kind = "symbol" -> 0
      [] items[k].kind = "plain" -> items[k].size
      [] items[k].kind = "call" -> 5
      [] items[k].kind = "branch" -> slices[BranchSlice(k)].size

ItemAt ==
    LET at[k \in 1..Len(items)] == IF k = 1 THEN 0 ELSE at[k - 1] + ItemSize(k - 1)
    IN  at

Home(symbol) ==
    ItemAt[CHOOSE k \in DOMAIN items : items[k].kind = "symbol" /\ items[k].name = symbol]

(* Of the branch that the processor reads.                                 *)
BranchLength(opcode) == CASE opcode = FarJcc -> 6 [] opcode = FarJmp -> 5 [] OTHER -> 2

(* No JG is farther from its block than its one byte reaches.  A text that *)
(* has no JG satisfies this; one that has a JG may not, since that is      *)
(* never made longer.                                                      *)
JgsFit ==
    phase \in {"bake", "done"} =>
        \A k \in DOMAIN slices : slices[k].branch /\ slices[k].opcode = Jg
                                    => fits_in_i8(compute_branch_displacement(k))

(* Every branch of the finished section reaches the first byte of its      *)
(* block, as the processor reads the opcode, the width of the field and    *)
(* the value in it.  (apply_relaxation, push_out_slices,                   *)
(* resolve_relaxable_slice)                                                *)
BranchesLand ==
    phase = "done" =>
        \A k \in DOMAIN items : items[k].kind = "branch" =>
            LET s == slices[BranchSlice(k)]
            IN  ItemAt[k] + BranchLength(s.opcode) + s.value = Home(s.target)

(* The symbols of the object file are at the bytes of their functions and  *)
(* blocks, the calls within the section reach them, and the field of every *)
(* other call has its relocation, and nothing else has.                    *)
(* (resolve_symbol, bake_symbol_locations, bake)                           *)
Linked ==
    phase = "done" =>
        /\ \A s \in Symbols : symbols[s] = Home(s)
        /\ \A k \in DOMAIN items : items[k].kind = "call" /\ items[k].target \in Symbols =>
               \E u \in uses : /\ ItemAt[k] + 1 = offsets[u.slice] + u.at
                               /\ ItemAt[k] + 5 + u.value = Home(items[k].target)
        /\ relocations = {[address |-> ItemAt[k] + 1, symbol |-> items[k].target] :
                              k \in {j \in DOMAIN items : items[j].kind = "call"
                                                          /\ items[j].target \in Externals}}

(* A branch that was made longer never needs to be short again: while the  *)
(* others grow, its target only moves away.  Otherwise its displacement    *)
(* would be written as one byte into a field of four.                      *)
(* (apply_relaxation, resolve_relaxable_slice)                             *)
RelaxedStaysFar ==
    phase \in {"relax", "resolve"} =>
        \A k \in DOMAIN slices :
            slices[k].branch /\ FieldWidth(slices[k].opcode) = 4
                => ~fits_in_i8(compute_branch_displacement(k))

(* The loop over the branches comes to an end: a pass without a change     *)
(* follows.  (apply_relaxation)                                            *)
Terminates == <>(phase = "done")
=============================================================================
