------------------------------ MODULE ObjectFiles ------------------------------
(***************************************************************************)
(* From the encoded functions and globals of a module to an object file:   *)
(* the symbols and their uses collected by BinaryBuilder, and the files    *)
(* that ELFBuilder and ELFEmitter, PEBuilder and PEEmitter, MachOBuilder   *)
(* and MachOEmitter and WasmBuilder and WasmEmitter make of them           *)
(* (src/src/banjo/emit).                                                   *)
(*                                                                         *)
(* A file is a sequence of fields, of w bytes each.  A linker finds       *)
(* a field by the offsets and the indices that other fields hold, so the   *)
(* readers here know the formats and nothing of the builders: what they    *)
(* read, symbols by section and offset and the places to be relocated, has *)
(* to be what the program says.                                            *)
(*                                                                         *)
(* A program is a record of                                                *)
(*   externals  names of symbols of other modules                          *)
(*   funcs      [name, size, uses, pushes, alloca], uses of symbols in the *)
(*              code: [at, target, kind, addend], relative to the function *)
(*   globals    [name, size, align, ref, global], ref being the symbol     *)
(*              whose address the global holds, or ""                      *)
(*   table      whether AddrTablePass ran                                  *)
(***************************************************************************)
EXTENDS Integers, Sequences, FiniteSets, SequencesExt

CONSTANTS Programs,        \* for ELF, PE and Mach-O
          Formats,         \* "elf_x86", "elf_arm", "pe", "macho"
          WasmPrograms     \* for WebAssembly, see below

VARIABLES
    program,
    format,
    bin,         \* the BinModule, once encode has returned
    object       \* the fields of the object file, once it has been emitted

vars == <<program, format, bin, object>>

-----------------------------------------------------------------------------
(* A number, a name (n) or several parts packed into one field (x).        *)
None == [symbol |-> 0]
Field(w, v, n, x) == [w |-> w, v |-> v, n |-> n, x |-> x]
F(w, v) == Field(w, v, "", None)
Name(w, name) == Field(w, 0, name, None)
Packed(w, parts) == Field(w, 0, "", parts)
U8(v) == F(1, v)
U16(v) == F(2, v)
U32(v) == F(4, v)
U64(v) == F(8, v)
Zeros(n) == F(n, 0)

MapSeq(s, Op(_)) == [k \in 1..Len(s) |-> Op(s[k])]

(* Where each element starts if the elements have these sizes, and where   *)
(* the last one ends.  A file has hundreds of them, hence the halves.      *)
RECURSIVE Starts(_, _)
Starts(sizes, first) ==
    CASE Len(sizes) = 0 -> <<first>>
      [] Len(sizes) = 1 -> <<first, first + sizes[1]>>
      [] OTHER -> LET half == Len(sizes) \div 2
                      left == Starts(SubSeq(sizes, 1, half), first)
                  IN  Front(left) \o Starts(SubSeq(sizes, half + 1, Len(sizes)), Last(left))

Bytes(fields) == Last(Starts(MapSeq(fields, LAMBDA f : f.w), 0))
Concat(s) == FlattenSeq(s)
IndexOf(s, x) == CHOOSE k \in DOMAIN s : s[k] = x

(* What lies at the offsets of a file, and what a reader finds there: a    *)
(* field that was written with that width, or nothing.                     *)
Layout(fields) ==
    LET at == Starts(MapSeq(fields, LAMBDA f : f.w), 0)
    IN  [o \in {at[k] : k \in {j \in DOMAIN fields : fields[j].w > 0}} |->
            fields[CHOOSE k \in DOMAIN fields : at[k] = o /\ fields[k].w > 0]]

Nothing == -1
Has(layout, o, w) == o \in DOMAIN layout /\ layout[o].w = w
Read(layout, o, w) == IF Has(layout, o, w) THEN layout[o].v ELSE Nothing

ReadParts(layout, o, w) == IF Has(layout, o, w) THEN layout[o].x ELSE None

CStr(name) == Name(Len(name) + 1, name)
ReadName(layout, o) == IF o \in DOMAIN layout THEN layout[o].n ELSE "?"

-----------------------------------------------------------------------------
(* BinaryBuilder: the symbols in the order of encode, the bytes of the     *)
(* data section, and the uses that are left to the linker.                 *)

FuncStarts(p) == Starts(MapSeq(p.funcs, LAMBDA f : f.size), 0)

Align(n, alignment) == n + ((-n) % alignment)

(* generate_data_slices: the offset of each global, and of the end.        *)
DataStarts(globals) ==
    FoldLeft(LAMBDA s, g : [at |-> Append(s.at, Align(s.end, g.align)),
                            end |-> Align(s.end, g.align) + g.size],
             [at |-> <<>>, end |-> 0], globals)

(* AddrTablePass::run: functions, then external ones and globals.          *)
Entries(p) == MapSeq(p.funcs, LAMBDA f : f.name) \o p.externals

(* AddrTable::compute_offset, which the compiled code and the hot reloader *)
(* use for the slot of an entry, counted from zero.                        *)
TableHeader(entries) == 4 + FoldLeft(LAMBDA n, e : n + 4 + Len(e), 0, entries)

compute_offset(entries, index) == TableHeader(entries) + 8 * index

(* generate_addr_table_slices.                                             *)
TableFields(entries) ==
    <<U32(Len(entries))>>
    \o Concat(MapSeq(entries, LAMBDA e : <<U32(Len(e)), Name(Len(e), e)>>))
    \o MapSeq(entries, LAMBDA e : U64(0))

Slot(entries, k) == Bytes(TableFields(entries)) - 8 * (Len(entries) - k + 1)

Def(name, kind, offset, global) ==
    [name |-> name, kind |-> kind, offset |-> offset, global |-> global]

(* bake_symbol_defs: "_" before a name on macOS.                           *)
Decorated(name, darwin) == IF darwin THEN "_" \o name ELSE name

Defs(p, darwin) ==
    MapSeq(p.externals, LAMBDA x : Def(Decorated(x, darwin), "UNKNOWN", 0, TRUE))
    \o [k \in DOMAIN p.funcs |->
            Def(Decorated(p.funcs[k].name, darwin), "TEXT_FUNC", FuncStarts(p)[k], TRUE)]
    \o [k \in DOMAIN p.globals |->
            Def(Decorated(p.globals[k].name, darwin), "DATA_LABEL",
                DataStarts(p.globals).at[k], p.globals[k].global)]
    \o (IF p.table THEN <<Def(Decorated("addr_table", darwin), "ADDR_TABLE", 0, TRUE)>> ELSE <<>>)

Use(section, address, addend, symbol, kind) ==
    [section |-> section, address |-> address, addend |-> addend, symbol |-> symbol,
     kind |-> kind]

(* The names in the order of Defs; a BinSymbolUse has an index into them.  *)
Names(p) ==
    p.externals \o MapSeq(p.funcs, LAMBDA f : f.name) \o MapSeq(p.globals, LAMBDA g : g.name)

IsFunc(p, name) == \E k \in DOMAIN p.funcs : p.funcs[k].name = name

(* resolve_symbol of the two encoders: the uses that they resolve if the   *)
(* symbol is a function of this module.                                    *)
Resolvable == {"REL32", "GOTPCREL32", "PLT32", "CALL26", "BRANCH26"}

TextUses(p) ==
    Concat([k \in DOMAIN p.funcs |->
        MapSeq(SelectSeq(p.funcs[k].uses,
                         LAMBDA u : ~(u.kind \in Resolvable /\ IsFunc(p, u.target))),
               LAMBDA u : Use("TEXT", FuncStarts(p)[k] + u.at, u.addend,
                              IndexOf(Names(p), u.target), u.kind))])

DataUses(p) ==
    Concat([k \in DOMAIN p.globals |->
        IF p.globals[k].ref = "" THEN <<>>
        ELSE <<Use("DATA", DataStarts(p.globals).at[k], 0,
                   IndexOf(Names(p), p.globals[k].ref), "ABS64")>>])

TableUses(p) ==
    IF ~p.table THEN <<>>
    ELSE [k \in DOMAIN Entries(p) |->
             Use("BNJATBL", Slot(Entries(p), k), 0, IndexOf(Names(p), Entries(p)[k]), "ABS64")]

(* bake_unwind_info: the registers in the opposite order of their pushes.  *)
Unwind(p) ==
    [k \in DOMAIN p.funcs |->
        [start |-> FuncStarts(p)[k], end |-> FuncStarts(p)[k + 1],
         alloca |-> FuncStarts(p)[k] + p.funcs[k].alloca, size |-> p.funcs[k].frame,
         pushed |-> Reverse(MapSeq(p.funcs[k].pushes,
                        LAMBDA u : [reg |-> u.reg, end |-> FuncStarts(p)[k] + u.end]))]]

Content(name, size) == [name |-> name, size |-> size, written |-> {}]

BinModule(p, darwin) ==
    [text |-> Content("text", FuncStarts(p)[Len(p.funcs) + 1]),
     data |-> Content("data", DataStarts(p.globals).end),
     table |-> IF p.table THEN TableFields(Entries(p)) ELSE <<>>,
     defs |-> Defs(p, darwin),
     uses |-> TextUses(p) \o DataUses(p) \o TableUses(p),
     unwind |-> Unwind(p)]

ContentField(content) == Field(content.size, 0, content.name, content)

-----------------------------------------------------------------------------
(* ELFBuilder and ELFEmitter.                                              *)

ElfSectionNames(m) ==
    <<".text", ".data", ".shstrtab", ".strtab", ".symtab", ".rela.text", ".rela.data">>
    \o (IF m.table = <<>> THEN <<>> ELSE <<".bnjatbl", ".rela.bnjatbl">>)

(* add_string, from the null byte that the table starts with.              *)
StringOffsets(names) == Starts(MapSeq(names, LAMBDA n : Len(n) + 1), 1)
StringTable(names) == <<U8(0)>> \o MapSeq(names, CStr)

(* process_defs: the local symbols first; the indices into defs.           *)
DefsWhere(m, Test(_)) == SelectSeq([k \in DOMAIN m.defs |-> k], LAMBDA k : Test(m.defs[k]))
LocalsFirst(m) == DefsWhere(m, LAMBDA d : ~d.global) \o DefsWhere(m, LAMBDA d : d.global)

ElfSection(kind) ==
    CASE kind = "TEXT_FUNC" -> 1 [] kind = "DATA_LABEL" -> 2
      [] kind = "ADDR_TABLE" -> 8 [] kind = "UNKNOWN" -> 0

ElfSymbol(name, binding, section, value) ==
    <<U32(name), U8(binding * 16), U8(0), U16(section), U64(value), U64(0)>>

(* The null symbol and those of the sections come before the others.       *)
ElfReserved == 3

ElfSymbols(m) ==
    ElfSymbol(0, 0, 0, 0) \o ElfSymbol(0, 0, 1, 0) \o ElfSymbol(0, 0, 2, 0)
    \o Concat([i \in DOMAIN m.defs |->
           LET d == m.defs[LocalsFirst(m)[i]]
           IN  ElfSymbol(StringOffsets(MapSeq(LocalsFirst(m), LAMBDA k : m.defs[k].name))[i],
                         IF d.global THEN 1 ELSE 0, ElfSection(d.kind), d.offset)])

ElfIndexAsFound(m, k) == ElfReserved + k - 1   \* mutant: the symbols are thought to be in the order of the module

elf_symbol_indices(m, k) == ElfReserved + IndexOf(LocalsFirst(m), k) - 1

(* process_x86_64_relocation, process_aarch64_relocation.                  *)
PcRelative == {"REL32", "GOTPCREL32", "PLT32"}
AddressOffset(kind) == IF kind \in PcRelative THEN -4 ELSE 0

ElfRelocations(m, section) ==
    Concat(MapSeq(SelectSeq(m.uses, LAMBDA u : u.section = section),
        LAMBDA u : <<U64(u.address),
                     Packed(8, [type |-> u.kind, symbol |-> elf_symbol_indices(m, u.symbol)]),
                     U64(u.addend + AddressOffset(u.kind))>>))

(* The type, link, info and entry size of a section, and its fields.       *)
ElfPart(type, link, info, entry, fields) ==
    [type |-> type, link |-> link, info |-> info, entry |-> entry, fields |-> fields]

PROGBITS == 1
SYMTAB == 2
STRTAB == 3
RELA == 4

ElfParts(m) ==
    <<ElfPart(PROGBITS, 0, 0, 0, <<ContentField(m.text)>>),
      ElfPart(PROGBITS, 0, 0, 0, <<ContentField(m.data)>>),
      ElfPart(STRTAB, 0, 0, 0, StringTable(ElfSectionNames(m))),
      ElfPart(STRTAB, 0, 0, 0, StringTable(MapSeq(LocalsFirst(m), LAMBDA k : m.defs[k].name))),
      ElfPart(SYMTAB, 4, ElfReserved + Len(DefsWhere(m, LAMBDA d : ~d.global)), 24,
              ElfSymbols(m)),
      ElfPart(RELA, 5, 1, 24, ElfRelocations(m, "TEXT")),
      ElfPart(RELA, 5, 2, 24, ElfRelocations(m, "DATA"))>>
    \o (IF m.table = <<>> THEN <<>>
        ELSE <<ElfPart(PROGBITS, 0, 0, 0, m.table),
               ElfPart(RELA, 5, 8, 24, ElfRelocations(m, "BNJATBL"))>>)

(* emit_header, emit_section_header, emit_section_data: the pointer of a   *)
(* section is patched when its data is written.                            *)
ElfHeader(sections) ==
    <<Zeros(18), U16(62), U32(1), U64(0), U64(0), U64(64), U32(0), U16(64), U16(0),
      U16(0), U16(64), U16(sections + 1), U16(3)>>

ElfSectionHeader(name, part, pointer) ==
    <<U32(name), U32(part.type), U64(0), U64(0), U64(pointer), U64(Bytes(part.fields)),
      U32(part.link), U32(part.info), U64(0), U64(part.entry)>>

ElfFile(names, parts) ==
    LET data == Starts(MapSeq(parts, LAMBDA p : Bytes(p.fields)), 64 + 64 * (Len(parts) + 1))
    IN  ElfHeader(Len(parts)) \o <<Zeros(64)>>
        \o Concat([k \in DOMAIN parts |->
               ElfSectionHeader(StringOffsets(names)[k], parts[k], data[k])])
        \o Concat(MapSeq(parts, LAMBDA p : p.fields))

EmitElf(m) == ElfFile(ElfSectionNames(m), ElfParts(m))

-----------------------------------------------------------------------------
(* PEBuilder and PEEmitter.                                                *)

PeSectionNames(m) ==
    <<".text", ".data", ".pdata", ".xdata">> \o (IF m.table = <<>> THEN <<>> ELSE <<".bnjatbl">>)

TextSection == 1
DataSection == 2
XdataSection == 4
TableSection == 5

PeSection(kind) ==
    CASE kind = "TEXT_FUNC" -> TextSection [] kind = "DATA_LABEL" -> DataSection
      [] kind = "ADDR_TABLE" -> TableSection [] kind = "UNKNOWN" -> 0

(* Indices of symbols: the sections have the first ones.                   *)
SectionSymbol(section) == section - 1
DefSymbol(m, k) == Len(PeSectionNames(m)) + k - 1

PeRelocation(address, symbol, type) == <<U32(address), U32(symbol), Name(2, type)>>

(* process_x86_64_symbol_use: the relocations have no addend, so what is   *)
(* to be added to the address is written into the field.                   *)
IsDataUse(m, u) == u.section = "TEXT" /\ m.defs[u.symbol].kind = "DATA_LABEL"

PeUse(m, u) ==
    IF IsDataUse(m, u) THEN PeRelocation(u.address, SectionSymbol(DataSection), "REL32")
    ELSE PeRelocation(u.address, DefSymbol(m, u.symbol), IF u.section = "TEXT" THEN "REL32" ELSE "ADDR64")

Addition(m, u) == m.defs[u.symbol].offset + u.addend

PeText(m) ==
    [m.text EXCEPT !.written = {[at |-> m.uses[k].address, v |-> Addition(m, m.uses[k])] :
                                    k \in {j \in DOMAIN m.uses : IsDataUse(m, m.uses[j])}}]

PeUses(m, section) ==
    Concat(MapSeq(SelectSeq(m.uses, LAMBDA u : u.section = section), LAMBDA u : PeUse(m, u)))

(* create_unwind_info: three words in .pdata for every function, and in    *)
(* .xdata a header and the codes, padded to an even number of them.        *)
UnwindCodes(f) ==
    <<U8(f.alloca - f.start), U8(16 + 1), F(4, f.size)>>
    \o Concat(MapSeq(f.pushed, LAMBDA u :
           <<U8(u.end % 256), U8(u.reg * 16)>>))

Slots(f) == 3 + Len(f.pushed)

UnwindInfo(f) ==
    <<U8(1), U8(f.alloca - f.start), U8(Slots(f)), U8(0)>> \o UnwindCodes(f)
    \o (IF Slots(f) % 2 = 0 THEN <<U8(0), U8(0)>> ELSE <<>>)

Xdata(m) == Concat(MapSeq(m.unwind, UnwindInfo))

Pdata(m) ==
    LET info == Starts(MapSeq(m.unwind, LAMBDA f : Bytes(UnwindInfo(f))), 0)
    IN  Concat([k \in DOMAIN m.unwind |->
            <<U32(m.unwind[k].start), U32(m.unwind[k].end), U32(info[k])>>])

PdataRelocations(m) ==
    Concat([k \in DOMAIN m.unwind |->
        PeRelocation(12 * (k - 1), SectionSymbol(TextSection), "ADDR32NB")
        \o PeRelocation(12 * (k - 1) + 4, SectionSymbol(TextSection), "ADDR32NB")
        \o PeRelocation(12 * (k - 1) + 8, SectionSymbol(XdataSection), "ADDR32NB")])

(* add_symbol: a name of up to eight bytes is in the symbol, a longer one  *)
(* in the string table, whose size of four bytes counts too.               *)
PeNameOffsets(names) ==
    Starts(MapSeq(names, LAMBDA n : IF Len(n) > 8 THEN Len(n) + 1 ELSE 0), 4)

PeSymbol(name, offset, value, section, external) ==
    <<IF Len(name) > 8 THEN U64(offset) ELSE Name(8, name), U32(value),
      U16(section), U16(0), U8(IF external THEN 2 ELSE 3), U8(0)>>

PeSymbolNames(m) == PeSectionNames(m) \o MapSeq(m.defs, LAMBDA d : d.name)

PeSymbols(m) ==
    Concat([k \in DOMAIN PeSectionNames(m) |-> PeSymbol(PeSectionNames(m)[k], 0, 0, k, FALSE)])
    \o Concat([k \in DOMAIN m.defs |->
           PeSymbol(m.defs[k].name, PeNameOffsets(PeSymbolNames(m))[DefSymbol(m, k) + 1],
                    m.defs[k].offset, PeSection(m.defs[k].kind), m.defs[k].global)])

PePart(fields, relocations) == [fields |-> fields, relocations |-> relocations]

PeParts(m) ==
    <<PePart(<<ContentField(PeText(m))>>, PeUses(m, "TEXT")),
      PePart(<<ContentField(m.data)>>, PeUses(m, "DATA")),
      PePart(Pdata(m), PdataRelocations(m)),
      PePart(Xdata(m), <<>>)>>
    \o (IF m.table = <<>> THEN <<>> ELSE <<PePart(m.table, PeUses(m, "BNJATBL"))>>)

(* emit_file: headers, data of all sections, relocations of all sections,  *)
(* symbols, strings.                                                       *)
PeSectionHeader(name, part, data, relocations) ==
    <<Name(8, name), U32(0), U32(0), U32(Bytes(part.fields)), U32(data),
      U32(relocations), U32(0), U16(Len(part.relocations) \div 3), U16(0), U32(0)>>

PeStrings(names) == MapSeq(SelectSeq(names, LAMBDA n : Len(n) > 8), CStr)

PeFile(m, parts) ==
    LET data == Starts(MapSeq(parts, LAMBDA p : Bytes(p.fields)), 20 + 40 * Len(parts))
        relocations == Starts(MapSeq(parts, LAMBDA p : Bytes(p.relocations)), data[Len(data)])
    IN  <<U16(62), U16(Len(parts)), U32(0), U32(relocations[Len(relocations)]),
          U32(Len(PeSymbolNames(m))), U16(0), U16(0)>>
        \o Concat([k \in DOMAIN parts |->
               PeSectionHeader(PeSectionNames(m)[k], parts[k], data[k], relocations[k])])
        \o Concat(MapSeq(parts, LAMBDA p : p.fields))
        \o Concat(MapSeq(parts, LAMBDA p : p.relocations))
        \o PeSymbols(m)
        \o <<U32(4 + Bytes(PeStrings(PeSymbolNames(m))))>> \o PeStrings(PeSymbolNames(m))

EmitPe(m) == PeFile(m, PeParts(m))

-----------------------------------------------------------------------------
(* MachOBuilder and MachOEmitter.                                          *)

(* process_defs: local symbols, those that others may use, undefined ones. *)
IsUnknown(d) == d.kind = "UNKNOWN"
Local(m) == DefsWhere(m, LAMBDA d : ~IsUnknown(d) /\ ~d.global)
External(m) == DefsWhere(m, LAMBDA d : ~IsUnknown(d) /\ d.global)
Undefined(m) == DefsWhere(m, IsUnknown)
MachOOrder(m) == Local(m) \o External(m) \o Undefined(m)

(* The text is padded, because the data section follows it in memory.      *)
MachOText(m) == [m.text EXCEPT !.size = Align(@, 16)]

DataAddress(m) == MachOText(m).size

MachOSymbol(d, m, name) ==
    <<U32(name), U8((IF IsUnknown(d) THEN 0 ELSE 14) + (IF d.global THEN 1 ELSE 0)),
      U8(CASE d.kind = "TEXT_FUNC" -> 1 [] d.kind = "DATA_LABEL" -> 2 [] OTHER -> 0), U16(0),
      U64(CASE d.kind = "TEXT_FUNC" -> d.offset [] d.kind = "DATA_LABEL" -> DataAddress(m) + d.offset
            [] OTHER -> 0)>>

(* process_use; emit_segment_data emits the relocations from the last to   *)
(* the first.                                                              *)
MachORelocation(m, u) ==
    <<U32(u.address),
      Packed(4, [symbol |-> IndexOf(MachOOrder(m), u.symbol) - 1, type |-> u.kind,
                 pc_rel |-> u.kind \in {"BRANCH26", "PAGE21", "GOT_LOAD_PAGE21"},
                 length |-> IF u.kind = "ABS64" THEN 3 ELSE 2, external |-> TRUE])>>

MachORelocations(m, section) ==
    Concat(Reverse(MapSeq(SelectSeq(m.uses, LAMBDA u : u.section = section),
                          LAMBDA u : MachORelocation(m, u))))

MachONames(m) == MapSeq(MachOOrder(m), LAMBDA k : m.defs[k].name)

MachOSymbols(m) ==
    Concat([k \in DOMAIN m.defs |->
        MachOSymbol(m.defs[MachOOrder(m)[k]], m, StringOffsets(MachONames(m))[k])])

(* emit_headers.  A field that is known only later is a placeholder, whose *)
(* place push_marker remembers; the places are patched in that order, so   *)
(* the k-th placeholder takes the k-th of the patches.  The patch of the   *)
(* first writes eight bytes over four, and zero over the flags behind it.  *)
MachOSectionHeader(name, segment, address, content, relocations, offset, at) ==
    <<Name(16, name), Name(16, segment), U64(address), U64(content.size),
      U32(offset), U32(4), U32(at), U32(relocations), U32(0), Zeros(12)>>

MachOHeaders(m, patches) ==
    <<Zeros(16), U32(4), U32(patches[1]), U32(0), U32(0),
      U32(25), U32(72 + 2 * 80), Zeros(16), U64(0), U64(MachOText(m).size + m.data.size),
      U64(patches[2]), U64(MachOText(m).size + m.data.size), U32(7), U32(7), U32(2), U32(0)>>
    \o MachOSectionHeader("__text", "__TEXT", 0, MachOText(m),
                          Len(MachORelocations(m, "TEXT")) \div 2, patches[3], patches[4])
    \o MachOSectionHeader("__data", "__DATA", DataAddress(m), m.data,
                          Len(MachORelocations(m, "DATA")) \div 2, patches[5], patches[6])
    \o <<U32(2), U32(24), U32(patches[7]), U32(Len(m.defs)), U32(patches[8]), U32(patches[9])>>
    \o <<U32(11), U32(80), U32(0), U32(Len(Local(m))), U32(Len(Local(m))), U32(Len(External(m))),
         U32(Len(Local(m) \o External(m))), U32(Len(Undefined(m))), Zeros(48)>>
    \o <<U32(50), U32(24), U32(1), U32(14 * 2^16), U32(14 * 2^16), U32(0)>>

(* emit_segment_data, emit_symtab_data: the string table is filled up to a *)
(* multiple of eight bytes.                                                *)
MachOStrings(m) == StringTable(MachONames(m))
FillUp(n) == (-n) % 8

MachOData(m) ==
    <<<<ContentField(MachOText(m))>>, MachORelocations(m, "TEXT"), <<ContentField(m.data)>>,
      MachORelocations(m, "DATA"), MachOSymbols(m),
      MachOStrings(m) \o [k \in 1..FillUp(Bytes(MachOStrings(m))) |-> U8(0)]>>

MachOHeaderSize == 32 + 72 + 2 * 80 + 24 + 80 + 24

(* What is patched, in the order of the calls of consume_marker.           *)

Patches(at, data) ==
    <<MachOHeaderSize - 32, at[1], at[1], at[2], at[3], at[4], at[5], at[6], Bytes(data[6])>>

EmitMachO(m) ==
    MachOHeaders(m, Patches(Starts(MapSeq(MachOData(m), Bytes), MachOHeaderSize), MachOData(m)))
    \o Concat(MachOData(m))

-----------------------------------------------------------------------------
(* What a linker reads.  A symbol is [name, section, offset, global], the  *)
(* section being "" if it is undefined; a link is a place [section, at],   *)
(* the kind of value to put there and what it is of: a symbol or, if that  *)
(* is defined in this file, its place, with what is to be added.           *)

Symbol(name, section, offset, global) ==
    [name |-> name, section |-> section, offset |-> offset, global |-> global]

Target(symbol, addend) ==
    IF symbol.section = "" THEN [name |-> symbol.name, section |-> "", offset |-> addend]
    ELSE [name |-> "", section |-> symbol.section, offset |-> symbol.offset + addend]

Link(section, at, kind, target) ==
    [section |-> section, at |-> at, kind |-> kind, target |-> target]

NoLink == Link("?", 0, "?", Target(Symbol("?", "", 0, TRUE), 0))

Result(symbols, links, contents) ==
    [symbols |-> symbols, links |-> links, contents |-> contents]

ReadContent(L, o, size) ==
    IF size = 0 THEN "" ELSE IF Has(L, o, size) THEN L[o].n ELSE "?"

(* The sections of the three formats by the names of BinSectionKind.       *)
SectionNamed(name) ==
    CASE name \in {".text", "__text"} -> "TEXT"
      [] name \in {".data", "__data"} -> "DATA"
      [] name = ".bnjatbl" -> "BNJATBL"
      [] OTHER -> name

(* ELF: section headers by index, names in the table the header names.     *)
ElfHeaderAt(L, k) == Read(L, 40, 8) + 64 * k
ElfData(L, k) == Read(L, ElfHeaderAt(L, k) + 24, 8)
ElfSize(L, k) == Read(L, ElfHeaderAt(L, k) + 32, 8)
ElfLink(L, k) == Read(L, ElfHeaderAt(L, k) + 40, 4)
ElfInfo(L, k) == Read(L, ElfHeaderAt(L, k) + 44, 4)
ElfName(L, k) ==
    SectionNamed(ReadName(L, ElfData(L, Read(L, 62, 2)) + Read(L, ElfHeaderAt(L, k), 4)))
ElfSectionsOf(L, type) ==
    {k \in 1..Read(L, 60, 2) - 1 : Read(L, ElfHeaderAt(L, k) + 4, 4) = type}

ReadElfSymbol(L, table, k) ==
    LET at == ElfData(L, table) + 24 * k
        section == Read(L, at + 6, 2)
    IN  Symbol(ReadName(L, ElfData(L, ElfLink(L, table)) + Read(L, at, 4)),
               IF section = 0 THEN "" ELSE ElfName(L, section), Read(L, at + 8, 8),
               k >= ElfInfo(L, table))

(* The binding of a symbol agrees with the side of info that it is on.     *)
ElfBindings(L, table, count) ==
    \A k \in 0..count - 1 :
        (Read(L, ElfData(L, table) + 24 * k + 4, 1) >= 16) = (k >= ElfInfo(L, table))

ReadElfLink(L, k, n) ==
    LET at == ElfData(L, k) + 24 * n
        entry == ReadParts(L, at + 8, 8)
    IN  IF entry = None THEN NoLink
        ELSE Link(ElfName(L, ElfInfo(L, k)), Read(L, at, 8), entry.type,
                  Target(ReadElfSymbol(L, ElfLink(L, k), entry.symbol), Read(L, at + 16, 8)))

ReadElf(L) ==
    LET table == CHOOSE k \in ElfSectionsOf(L, SYMTAB) : TRUE
        count == ElfSize(L, table) \div 24
    IN  Result({ReadElfSymbol(L, table, k) : k \in 1..count - 1},
               UNION {{ReadElfLink(L, k, n) : n \in 0..ElfSize(L, k) \div 24 - 1} :
                          k \in ElfSectionsOf(L, RELA)},
               IF ElfBindings(L, table, count)
               THEN [name \in {"TEXT", "DATA"} |->
                        LET k == CHOOSE j \in ElfSectionsOf(L, PROGBITS) : ElfName(L, j) = name
                        IN  ReadContent(L, ElfData(L, k), ElfSize(L, k))]
               ELSE [name \in {} |-> ""])

(* PE: a section header has the places of its data and its relocations.    *)
PeHeaderAt(k) == 20 + 40 * (k - 1)
PeName(L, k) == SectionNamed(ReadName(L, PeHeaderAt(k)))
PeSize(L, k) == Read(L, PeHeaderAt(k) + 16, 4)
PeData(L, k) == Read(L, PeHeaderAt(k) + 20, 4)
PeRelocationAt(L, k, n) == Read(L, PeHeaderAt(k) + 24, 4) + 10 * n
PeCount(L, k) == Read(L, PeHeaderAt(k) + 32, 2)

ReadPeSymbol(L, k) ==
    LET at == Read(L, 8, 4) + 18 * k
        strings == Read(L, 8, 4) + 18 * Read(L, 12, 4)
    IN  Symbol(IF ReadName(L, at) # "" THEN ReadName(L, at)
               ELSE ReadName(L, strings + Read(L, at, 8)),
               IF Read(L, at + 12, 2) = 0 THEN "" ELSE PeName(L, Read(L, at + 12, 2)),
               Read(L, at + 8, 4), Read(L, at + 16, 1) = 2)

(* What is in the field, which is added to the symbol, and which a         *)
(* relative value counts from the end of.                                  *)
Written(L, k, at) ==
    LET parts == ReadParts(L, PeData(L, k), PeSize(L, k))
    IN  IF PeName(L, k) = "TEXT" /\ \E f \in parts.written : f.at = at
        THEN (CHOOSE f \in parts.written : f.at = at).v ELSE 0

ReadPeLink(L, k, n) ==
    LET at == PeRelocationAt(L, k, n)
        type == ReadName(L, at + 8)
    IN  Link(PeName(L, k), Read(L, at, 4), type,
             Target(ReadPeSymbol(L, Read(L, at + 4, 4)),
                    Written(L, k, Read(L, at, 4)) - IF type = "REL32" THEN 4 ELSE 0))

PeSectionNamed(L, name) == CHOOSE k \in 1..Read(L, 2, 2) : PeName(L, k) = name

ReadPe(L) ==
    Result({ReadPeSymbol(L, k) : k \in 0..Read(L, 12, 4) - 1},
           UNION {{ReadPeLink(L, k, n) : n \in 0..PeCount(L, k) - 1} : k \in 1..Read(L, 2, 2)},
           [name \in {"TEXT", "DATA"} |->
               ReadContent(L, PeData(L, PeSectionNamed(L, name)), PeSize(L, PeSectionNamed(L, name)))])

(* The unwinder: the words of a function, and the codes that undo its      *)
(* prologue from the end, by the offsets of the instructions in it.        *)
ReadUnwind(L, k) ==
    LET word == PeData(L, PeSectionNamed(L, ".pdata")) + 12 * (k - 1)
        info == PeData(L, PeSectionNamed(L, ".xdata")) + Read(L, word + 8, 4)
        pushes == Read(L, info + 2, 1) - 3
    IN  [start |-> Read(L, word, 4), end |-> Read(L, word + 4, 4),
         prolog |-> Read(L, info + 1, 1), alloca |-> Read(L, info + 4, 1),
         frame |-> Read(L, info + 6, 4),
         pushes |-> [j \in 1..pushes |->
             [end |-> Read(L, info + 8 + 2 * j, 1), reg |-> Read(L, info + 9 + 2 * j, 1) \div 16]]]

(* Mach-O: load commands one behind the other, sections in the first.      *)
MachOCommand(L, k) ==
    LET at[j \in 1..k] == IF j = 1 THEN 32 ELSE at[j - 1] + Read(L, at[j - 1] + 4, 4)
    IN  at[k]

MachOSectionAt(L, k) == MachOCommand(L, 1) + 72 + 80 * (k - 1)
MachOName(L, k) == SectionNamed(ReadName(L, MachOSectionAt(L, k)))
MachOAddress(L, k) == Read(L, MachOSectionAt(L, k) + 32, 8)
MachOSize(L, k) == Read(L, MachOSectionAt(L, k) + 40, 8)
MachOOffset(L, k) == Read(L, MachOSectionAt(L, k) + 48, 4)

ReadMachOSymbol(L, k) ==
    LET table == MachOCommand(L, 2)
        at == Read(L, table + 8, 4) + 16 * k
        section == Read(L, at + 5, 1)
    IN  Symbol(ReadName(L, Read(L, table + 16, 4) + Read(L, at, 4)),
               IF section = 0 THEN "" ELSE MachOName(L, section),
               Read(L, at + 8, 8) - IF section = 0 THEN 0 ELSE MachOAddress(L, section),
               Read(L, at + 4, 1) % 2 = 1)

(* A group of the second symbol table command: from its index on.          *)
InGroup(L, k, which) ==
    LET at == MachOCommand(L, 3) + 8 * which
    IN  k \in Read(L, at, 4)..Read(L, at, 4) + Read(L, at + 4, 4) - 1

MachOGroups(L, count) ==
    \A k \in 0..count - 1 :
        LET s == ReadMachOSymbol(L, k)
        IN  /\ InGroup(L, k, 1) = ~s.global
            /\ InGroup(L, k, 2) = (s.global /\ s.section # "")
            /\ InGroup(L, k, 3) = (s.section = "")

ReadMachOLink(L, k, n) ==
    LET at == Read(L, MachOSectionAt(L, k) + 56, 4) + 8 * n
        parts == ReadParts(L, at + 4, 4)
    IN  IF parts = None THEN NoLink
        ELSE Link(MachOName(L, k), Read(L, at, 4), parts.type,
                  Target(ReadMachOSymbol(L, parts.symbol), 0))

(* The commands fill what the header says, the segment begins with its     *)
(* first section, and the sections do not overlap in memory.               *)
MachOShape(L) ==
    /\ MachOCommand(L, 5) = 32 + Read(L, 20, 4)
    /\ Read(L, 32 + 40, 8) = MachOOffset(L, 1)
    /\ MachOAddress(L, 2) >= MachOAddress(L, 1) + MachOSize(L, 1)
    /\ MachOAddress(L, 2) % 16 = 0
    /\ MachOGroups(L, Read(L, MachOCommand(L, 2) + 12, 4))

ReadMachO(L) ==
    Result({ReadMachOSymbol(L, k) : k \in 0..Read(L, MachOCommand(L, 2) + 12, 4) - 1},
           UNION {{ReadMachOLink(L, k, n) : n \in 0..Read(L, MachOSectionAt(L, k) + 60, 4) - 1} :
                      k \in 1..2},
           IF MachOShape(L)
           THEN [name \in {"TEXT", "DATA"} |->
                    LET k == CHOOSE j \in 1..2 : MachOName(L, j) = name
                    IN  ReadContent(L, MachOOffset(L, k), MachOSize(L, k))]
           ELSE [name \in {} |-> ""])

(* The hot reloader: the names in the table of addresses, in their order.  *)
ReadTable(L, start) ==
    FoldLeft(LAMBDA t, k : [at |-> t.at + 4 + Read(L, t.at, 4),
                            names |-> Append(t.names, ReadName(L, t.at + 4))],
             [at |-> start + 4, names |-> <<>>], [k \in 1..Read(L, start, 4) |-> k]).names

-----------------------------------------------------------------------------
(* WasmBuilder and WasmEmitter.  A program has imports [name, type],       *)
(* externals (globals of other modules), globals [name, size, ref], the    *)
(* types of indirect calls and funcs [name, type, locals, body], a type    *)
(* being the sequences of parameters and results, and the body sequences   *)
(* of [op, size, target], target being a symbol, or the type of an         *)
(* indirect call, counted from zero; "plain" is code without symbols.      *)

Leb(v) == F(IF v < 128 THEN 1 ELSE IF v < 16384 THEN 2 ELSE 3, v)

Text(name) == <<Leb(Len(name)), Name(Len(name), name)>>

(* collect_symbol_indices.                                                 *)
WasmSymbols(p) ==
    <<"__stack_pointer", "__indirect_function_table">>
    \o MapSeq(p.imports, LAMBDA i : i.name) \o p.externals
    \o MapSeq(p.globals, LAMBDA g : g.name) \o MapSeq(p.funcs, LAMBDA f : f.name)

WasmIndex(p, name) == IndexOf(WasmSymbols(p), name) - 1

IsWasmFunc(p, name) ==
    name \in {p.imports[k].name : k \in DOMAIN p.imports} \cup {p.funcs[k].name : k \in DOMAIN p.funcs}

(* The types: of the imports, of indirect calls, of the functions.         *)
WasmTypes(p) ==
    MapSeq(p.imports, LAMBDA i : i.type) \o p.calls \o MapSeq(p.funcs, LAMBDA f : f.type)

ImportType(k) == k - 1
CallType(p, k) == Len(p.imports) + k
FuncType(p, k) == Len(p.imports) + Len(p.calls) + k - 1

(* A field that the linker fills in, marked with what it is for, and the   *)
(* relocation of it.                                                       *)
Blank(w, type, target) == Packed(w, [type |-> type, target |-> target])

WasmRelocation(type, offset, index) == [type |-> type, offset |-> offset, index |-> index]

(* encode_call, encode_call_indirect, encode_global_get, encode_global_set,*)
(* encode_i32_const, encode_load_store_addr: opcode, alignment, operands.  *)
WasmItem(i) ==
    CASE i.op = "plain" -> <<Name(i.size, i.op)>>
      [] i.op = "call" -> <<U8(16), Blank(5, "FUNCTION_INDEX_LEB", i.target)>>
      [] i.op = "call_indirect" ->
             <<U8(17), Blank(5, "TYPE_INDEX_LEB", i.type),
               Blank(5, "TABLE_NUMBER_LEB", "__indirect_function_table")>>
      [] i.op = "global" -> <<U8(35), Blank(5, "GLOBAL_INDEX_LEB", i.target)>>
      [] i.op = "const" -> <<U8(65), Blank(5, i.reloc, i.target)>>
      [] i.op = "access" -> <<U8(40), Leb(2), Blank(5, "MEMORY_ADDR_LEB", i.target)>>

RelocatedIndex(p, field) ==
    IF field.x.type = "TYPE_INDEX_LEB" THEN CallType(p, field.x.target)
    ELSE WasmIndex(p, field.x.target)

(* The relocations of the blanks, at their places from base on.            *)
Relocations(p, fields, base) ==
    LET at == Starts(MapSeq(fields, LAMBDA f : f.w), base)
        blanks == SelectSeq([k \in DOMAIN fields |-> k], LAMBDA k : fields[k].x # None)
    IN  MapSeq(blanks, LAMBDA k : WasmRelocation(fields[k].x.type, at[k], RelocatedIndex(p, fields[k])))

WasmBody(f) == Concat(MapSeq(f.body, WasmItem)) \o <<U8(11)>>

(* build_local_groups: runs of locals of one type.                         *)
LocalGroups(locals) ==
    FoldLeft(LAMBDA g, t : IF g # <<>> /\ g[Len(g)].type = t
                           THEN [g EXCEPT ![Len(g)].count = @ + 1]
                           ELSE Append(g, [count |-> 1, type |-> t]), <<>>, locals)

LocalFields(f) ==
    <<Leb(Len(LocalGroups(f.locals)))>>
    \o Concat(MapSeq(LocalGroups(f.locals), LAMBDA g : <<Leb(g.count), Name(1, g.type)>>))

(* build_global: one segment for all of them.                              *)
WasmGlobal(p, g) ==
    IF g.ref = "" THEN Name(g.size, g.name)
    ELSE Blank(4, IF IsWasmFunc(p, g.ref) THEN "TABLE_INDEX_I32" ELSE "MEMORY_ADDR_I32", g.ref)

WasmData(p) == MapSeq(p.globals, LAMBDA g : WasmGlobal(p, g))

(* emit_code_section: the relocations are moved behind the sizes and the   *)
(* locals that precede a body.                                             *)
CodeSize(f) == Bytes(LocalFields(f)) + Bytes(WasmBody(f))
CodeFields(f) == <<Leb(CodeSize(f))>> \o LocalFields(f) \o WasmBody(f)
CodeStarts(p) == Starts(MapSeq(p.funcs, LAMBDA f : Bytes(CodeFields(f))), Leb(Len(p.funcs)).w)

relocs_base_offset(p, k) ==
    CodeStarts(p)[k] + Leb(CodeSize(p.funcs[k])).w + Bytes(LocalFields(p.funcs[k]))

CodeRelocations(p) ==
    Concat([k \in DOMAIN p.funcs |->
               Relocations(p, WasmBody(p.funcs[k]), relocs_base_offset(p, k))])

(* The offset expression of the segment has three bytes.                   *)
DataPrefix(p) == <<Leb(1), U8(0), Zeros(3), Leb(Bytes(WasmData(p)))>>
DataRelocations(p) == Relocations(p, WasmData(p), Bytes(DataPrefix(p)))

TypeFields(t) ==
    <<U8(96), Leb(Len(t.params))>> \o MapSeq(t.params, LAMBDA v : Name(1, v))
    \o <<Leb(Len(t.results))>> \o MapSeq(t.results, LAMBDA v : Name(1, v))

ImportFields(i, k) == Text("env") \o Text(i.name) \o <<U8(0), Leb(ImportType(k))>>

(* Memory, stack pointer and table come before the functions.              *)
OtherImports ==
    Text("env") \o Text("__linear_memory") \o <<U8(2), U8(0), Leb(0)>>
    \o Text("env") \o Text("__stack_pointer") \o <<U8(3), Name(1, "i32"), U8(1)>>
    \o Text("env") \o Text("__indirect_function_table") \o <<U8(1), U8(112), U8(0), Leb(1)>>

(* write_symbol_table_subsection, for the symbols that build makes.        *)
UNDEFINED == 16
LOCAL_BINDING == 2
EXPORTED == 32
NO_STRIP == 128

SymbolTable(p) ==
    <<Leb(Len(WasmSymbols(p))), U8(2), Leb(UNDEFINED), Leb(0),
      U8(5), Leb(EXPORTED + NO_STRIP + UNDEFINED), Leb(0)>>
    \o Concat([k \in DOMAIN p.imports |-> <<U8(0), Leb(UNDEFINED), Leb(k - 1)>>])
    \o Concat(MapSeq(p.externals, LAMBDA x : <<U8(1), Leb(UNDEFINED)>> \o Text(x)))
    \o Concat([k \in DOMAIN p.globals |->
           <<U8(1), Leb(LOCAL_BINDING)>> \o Text(p.globals[k].name)
           \o <<Leb(0), Leb(Starts(MapSeq(WasmData(p), LAMBDA f : f.w), 0)[k]), Leb(WasmData(p)[k].w)>>])
    \o Concat([k \in DOMAIN p.funcs |->
           <<U8(0), Leb(EXPORTED), Leb(Len(p.imports) + k - 1)>> \o Text(p.funcs[k].name)])

RelocFields(name, section, relocations) ==
    Text(name) \o <<Leb(section), Leb(Len(relocations))>>
    \o Concat(MapSeq(relocations, LAMBDA r :
           <<Name(1, r.type), Leb(r.offset), Leb(r.index)>>
           \o (IF r.type \in {"MEMORY_ADDR_LEB", "MEMORY_ADDR_SLEB", "MEMORY_ADDR_I32"} THEN <<Leb(0)>>
               ELSE <<>>)))

WasmSection(id, fields) == <<U8(id), Leb(Bytes(fields))>> \o fields

RelocSection(name, section, relocations) ==
    IF relocations = <<>> THEN <<>> ELSE WasmSection(0, RelocFields(name, section, relocations))

EmitWasm(p) ==
    <<Zeros(8)>>
    \o WasmSection(1, <<Leb(Len(WasmTypes(p)))>> \o Concat(MapSeq(WasmTypes(p), TypeFields)))
    \o WasmSection(2, <<Leb(3 + Len(p.imports))>> \o OtherImports
           \o Concat([k \in DOMAIN p.imports |-> ImportFields(p.imports[k], k)]))
    \o WasmSection(3, <<Leb(Len(p.funcs))>> \o [k \in DOMAIN p.funcs |-> Leb(FuncType(p, k))])
    \o WasmSection(12, <<Leb(1)>>)
    \o WasmSection(10, <<Leb(Len(p.funcs))>> \o Concat(MapSeq(p.funcs, CodeFields)))
    \o WasmSection(11, DataPrefix(p) \o WasmData(p))
    \o WasmSection(0, Text("linking") \o <<U8(2), U8(8), Leb(Bytes(SymbolTable(p)))>> \o SymbolTable(p))
    \o RelocSection("reloc.CODE", 4, CodeRelocations(p))
    \o RelocSection("reloc.DATA", 5, DataRelocations(p))

-----------------------------------------------------------------------------
(* A reader of WebAssembly goes from field to field.                       *)

After(L, o) == IF o \in DOMAIN L THEN o + L[o].w ELSE o + 1
Number(L, o) == IF o \in DOMAIN L THEN L[o].v ELSE Nothing
AfterText(L, o) == After(L, o) + Number(L, o)
TextAt(L, o) == ReadName(L, After(L, o))

(* Elements one behind the other: parse returns one and where it ends.     *)
Parsed(n, start, Parse(_)) ==
    FoldLeft(LAMBDA s, k : LET e == Parse(s.at)
                           IN  [at |-> e.next, out |-> Append(s.out, e.value)],
             [at |-> start, out |-> <<>>], [k \in 1..n |-> k])

Element(value, next) == [value |-> value, next |-> next]

(* Id and payload of the sections, in their order.                         *)
WasmSections(L) ==
    LET parse(o) == Element([id |-> Number(L, o), at |-> After(L, o + 1)],
                            After(L, o + 1) + Number(L, o + 1))
        found == Parsed(9, 8, parse).out
    IN  SelectSeq(found, LAMBDA s : s.id # Nothing)

SectionAt(L, id) == (CHOOSE s \in ToSet(WasmSections(L)) : s.id = id).at
CustomAt(L, name) ==
    {s.at : s \in {t \in ToSet(WasmSections(L)) : t.id = 0 /\ TextAt(L, t.at) = name}}

Vector(L, o, Parse(_)) == Parsed(Number(L, o), After(L, o), Parse)

ReadTypes(L) ==
    LET value(o) == Element(ReadName(L, o), o + 1)
        parse(o) ==
            LET params == Vector(L, o + 1, value)
                results == Vector(L, params.at, value)
            IN  Element([params |-> params.out, results |-> results.out], results.at)
    IN  Vector(L, SectionAt(L, 1), parse).out

ReadImports(L) ==
    LET parse(o) ==
            LET kind == AfterText(L, AfterText(L, o))
                rest == [n \in 0..3 |-> IF n = 0 THEN After(L, kind + 1)
                                        ELSE IF n = 1 THEN After(L, kind + 3) ELSE After(L, kind + 2)]
            IN  Element([name |-> TextAt(L, AfterText(L, o)), kind |-> Number(L, kind),
                         type |-> Number(L, kind + 1)], rest[Number(L, kind)])
    IN  Vector(L, SectionAt(L, 2), parse).out

ImportsOf(L, kind) == SelectSeq(ReadImports(L), LAMBDA i : i.kind = kind)

ReadSymbols(L) ==
    LET table == CHOOSE o \in CustomAt(L, "linking") : TRUE
        undefined(flags) == (flags \div UNDEFINED) % 2 = 1
        kinds == [type \in {0, 2, 5} |-> CASE type = 0 -> 0 [] type = 2 -> 3 [] type = 5 -> 1]
        parse(o) ==
            LET flags == Number(L, o + 1)
                at == After(L, o + 1)
                index == AfterText(L, at)
                offset == After(L, index)
            IN  IF Number(L, o) = 1
                THEN Element([type |-> 1, name |-> TextAt(L, at), defined |-> ~undefined(flags),
                              index |-> IF undefined(flags) THEN 0 ELSE Number(L, offset)],
                             IF undefined(flags) THEN index ELSE After(L, After(L, offset)))
                ELSE Element([type |-> Number(L, o),
                              name |-> IF undefined(flags)
                                       THEN ImportsOf(L, kinds[Number(L, o)])[Number(L, at) + 1].name
                                       ELSE TextAt(L, After(L, at)),
                              defined |-> ~undefined(flags), index |-> Number(L, at)],
                             IF undefined(flags) THEN After(L, at) ELSE AfterText(L, After(L, at)))
    IN  Vector(L, After(L, AfterText(L, table) + 2), parse).out

(* The relocations of a section, with the place in the file.               *)
ReadRelocations(L, name) ==
    LET parse(base, o) ==
            LET index == After(L, o + 1)
                plain == ~(ReadName(L, o) \in {"MEMORY_ADDR_LEB", "MEMORY_ADDR_SLEB", "MEMORY_ADDR_I32"})
            IN  Element([type |-> ReadName(L, o), at |-> base + Number(L, o + 1),
                         index |-> Number(L, index)],
                        IF plain THEN After(L, index) ELSE After(L, After(L, index)))
        read(table) == LET base == WasmSections(L)[Number(L, AfterText(L, table)) + 1].at
                           entry(o) == parse(base, o)
                       IN  Vector(L, After(L, AfterText(L, table)), entry).out
    IN  UNION {ToSet(read(table)) : table \in CustomAt(L, name)}

(* The functions: locals, one by one, and where the body begins.           *)
ReadCode(L) ==
    LET group(o) == Element([k \in 1..Number(L, o) |-> ReadName(L, After(L, o))], After(L, o) + 1)
        parse(o) == LET groups == Vector(L, After(L, o), group)
                    IN  Element([locals |-> Concat(groups.out), body |-> groups.at],
                                After(L, o) + Number(L, o))
    IN  Vector(L, SectionAt(L, 10), parse).out

ReadFuncTypes(L) ==
    LET parse(o) == Element(Number(L, o), After(L, o))
    IN  Vector(L, SectionAt(L, 3), parse).out

(* The first byte of the data segment.                                     *)
SegmentAt(L) == LET data == SectionAt(L, 11) IN After(L, After(L, data) + 4)

-----------------------------------------------------------------------------
Init ==
    /\ \/ format \in Formats /\ program \in Programs[format]
       \/ format = "wasm" /\ program \in WasmPrograms
    /\ bin = <<>>
    /\ object = <<>>

Darwin == format = "macho"

(* BinaryBuilder::encode.  WasmBuilder has no such step.                   *)
Encode ==
    /\ format # "wasm"
    /\ bin = <<>>
    /\ bin' = BinModule(program, Darwin)
    /\ UNCHANGED <<program, format, object>>

Emit ==
    /\ format # "wasm" => bin # <<>>
    /\ object = <<>>
    /\ object' = Layout(CASE format \in {"elf_x86", "elf_arm"} -> EmitElf(bin)
                          [] format = "pe" -> EmitPe(bin)
                          [] format = "macho" -> EmitMachO(bin)
                          [] format = "wasm" -> EmitWasm(program))
    /\ UNCHANGED <<program, format, bin>>

Next == Encode \/ Emit

Spec == Init /\ [][Next]_vars

-----------------------------------------------------------------------------
(* What the program says.                                                  *)

Home(kind) ==
    CASE kind = "TEXT_FUNC" -> "TEXT" [] kind = "DATA_LABEL" -> "DATA"
      [] kind = "ADDR_TABLE" -> "BNJATBL" [] kind = "UNKNOWN" -> ""

SymbolOf(d) == Symbol(d.name, Home(d.kind), d.offset, d.global)

(* A relative value counts from the end of its field of four bytes.        *)
KindOf(u) == IF format # "pe" THEN u.kind ELSE IF u.section = "TEXT" THEN "REL32" ELSE "ADDR64"
FromField(u) == IF u.kind \in PcRelative THEN u.addend - 4 ELSE u.addend

LinkOf(u) == Link(u.section, u.address, KindOf(u), Target(SymbolOf(bin.defs[u.symbol]), FromField(u)))

SectionLink(k, word, section, offset) ==
    Link(".pdata", 12 * (k - 1) + word, "ADDR32NB", Target(Symbol("", section, offset, FALSE), 0))

UnwindLinks ==
    IF format # "pe" THEN {}
    ELSE UNION {{SectionLink(k, 0, "TEXT", 0), SectionLink(k, 4, "TEXT", 0),
                 SectionLink(k, 8, ".xdata", 0)} : k \in DOMAIN program.funcs}

Linkable(r) ==
    /\ {s \in r.symbols : s.name \notin {"", ".text", ".data", ".pdata", ".xdata", ".bnjatbl"}}
           = {SymbolOf(d) : d \in ToSet(bin.defs)}
    /\ r.links = {LinkOf(u) : u \in ToSet(bin.uses)} \cup UnwindLinks
    /\ r.contents = [TEXT |-> "text", DATA |-> IF bin.data.size = 0 THEN "" ELSE "data"]

(* The globals are aligned, in the data section and apart.                 *)
Placed(globals, starts) ==
    /\ \A k \in DOMAIN globals : starts.at[k] % globals[k].align = 0
    /\ \A k \in DOMAIN globals :
           starts.at[k] + globals[k].size <= (starts.at \o <<starts.end>>)[k + 1]

(* A function is unwound from its first to its last byte, by the           *)
(* instructions of its prologue, the last one first.                       *)
Unwound(f, start, u) ==
    /\ u.start = start
    /\ u.end = start + f.size
    /\ u.prolog = f.alloca
    /\ u.alloca = f.alloca
    /\ u.frame = f.frame
    /\ u.pushes = Reverse(f.pushes)

(* Where the compiled code and the hot reloader look for the address of a  *)
(* function, according to the names in the table, its address is put.      *)
TableServes(names, links) ==
    /\ names = Entries(program)
    /\ \A k \in DOMAIN names :
           \E l \in links :
               /\ l.section = "BNJATBL"
               /\ l.at = compute_offset(names, k - 1)
               /\ l.target = Target(SymbolOf(bin.defs[IndexOf(Names(program), names[k])]), 0)

TableAt(L) ==
    IF format = "pe" THEN PeData(L, PeSectionNamed(L, "BNJATBL"))
    ELSE ElfData(L, CHOOSE k \in ElfSectionsOf(L, PROGBITS) : ElfName(L, k) = "BNJATBL")

NativeRead(r) ==
    /\ Linkable(r)
    /\ Placed(program.globals, DataStarts(program.globals))
    /\ format = "pe" =>
           \A k \in DOMAIN program.funcs :
               Unwound(program.funcs[k], FuncStarts(program)[k], ReadUnwind(object, k))
    /\ program.table => TableServes(ReadTable(object, TableAt(object)), r.links)

(* Of WebAssembly: every blank has the relocation that it is for, and it   *)
(* leads to the symbol or the type that it was made for.                   *)
Leads(symbols, types, r, blank) ==
    /\ r.type = blank.type
    /\ IF r.type = "TYPE_INDEX_LEB"
       THEN types[r.index + 1] = program.calls[blank.target + 1]
       ELSE /\ symbols[r.index + 1].name = blank.target
            /\ symbols[r.index + 1].type =
                   CASE r.type \in {"FUNCTION_INDEX_LEB", "TABLE_INDEX_SLEB", "TABLE_INDEX_I32"} -> 0
                     [] r.type = "GLOBAL_INDEX_LEB" -> 2
                     [] r.type = "TABLE_NUMBER_LEB" -> 5
                     [] OTHER -> 1

Filled(symbols, types, relocations) ==
    /\ {r.at : r \in relocations} = {o \in DOMAIN object : object[o].x # None}
    /\ \A r \in relocations : Leads(symbols, types, r, object[r.at].x)

FunctionsRead(symbols, types, imports, funcs, code) ==
    /\ \A i \in ToSet(imports) :
           \E q \in ToSet(program.imports) : i.name = q.name /\ types[i.type + 1] = q.type
    /\ \A f \in ToSet(program.funcs) :
           \E s \in ToSet(symbols) :
               /\ s.name = f.name /\ s.type = 0 /\ s.defined
               /\ types[funcs[s.index - Len(imports) + 1] + 1] = f.type
               /\ code[s.index - Len(imports) + 1].locals = f.locals
               /\ object[code[s.index - Len(imports) + 1].body] = WasmBody(f)[1]

GlobalsRead(symbols) ==
    /\ {s.name : s \in {t \in ToSet(symbols) : t.type = 1 /\ t.defined}}
           = {g.name : g \in ToSet(program.globals)}
    /\ \A s \in ToSet(symbols) : s.type = 1 /\ s.defined =>
           \E g \in ToSet(program.globals) :
               g.name = s.name /\ object[SegmentAt(object) + s.index] = WasmGlobal(program, g)

WasmRead(symbols, types) ==
    /\ Filled(symbols, types,
              ReadRelocations(object, "reloc.CODE") \cup ReadRelocations(object, "reloc.DATA"))
    /\ FunctionsRead(symbols, types, ImportsOf(object, 0), ReadFuncTypes(object), ReadCode(object))
    /\ GlobalsRead(symbols)

(* A linker that knows the format finds in the object file what the        *)
(* program says: every symbol in its section and at its offset, and every  *)
(* use of one at its place, with the right kind of address and addend;     *)
(* the unwinder finds the prologues and the hot reloader its table.        *)
(* (ELFBuilder::build, PEBuilder::build, MachOBuilder::build,              *)
(* WasmBuilder::build and the emitters)                                    *)
ObjectsRead ==
    object # <<>> =>
        CASE format \in {"elf_x86", "elf_arm"} -> NativeRead(ReadElf(object))
          [] format = "pe" -> NativeRead(ReadPe(object))
          [] format = "macho" -> NativeRead(ReadMachO(object))
          [] format = "wasm" -> WasmRead(ReadSymbols(object), ReadTypes(object))
=============================================================================
