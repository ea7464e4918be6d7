# Banjo in TLA+

Banjo (`src/`) is a compiled language with its tools: a compiler, a language
server, a formatter, a command line tool and a hot reloader, about 70 000 lines of
C++ under `src/src`. This directory holds TLA+ modules of most of the way from a
file to a running program: reading and formatting it, its semantic IR, the
destruction of resources, the SSA and its passes, the machine code, registers,
frames, bytes and object files, and around the compiler the command line tool, the
language server and the hot reloader. TLC checks every module on small instances;
TLAPS proves the invariants of seven of them for every instance.

`PROJECT.json` lists the components, the runs with their configurations, the
hazards of the code (what a test would hardly reach, each at its line), the source
lines that each definition stands for (`map`), a changed definition that breaks
each property (`mutants`) and the theorems.

## The system

A build runs through the phases of `docs/compiler.md`, each a pass over the whole
program:

    sources -> lexer -> parser -> AST -> SIR -> semantic analysis -> SSA
            -> optimization -> machine code -> registers -> frames -> object file

| component | state it keeps | operations | hard behaviour | what makes it correct |
|---|---|---|---|---|
| lexer, parser (`banjo/lexer`, `banjo/parser`) | position in the text or the tokens, recovery flags | next token, parse a construct, recover | errors in the middle of constructs | every text gives a tree, the reading ends, a program has the tree that was written |
| formatter (`banjo/format`) | white space behind each token, edits | one visit per kind of node | comments anywhere, use lists that are sorted | the text keeps its meaning; formatting twice is formatting once |
| SIR generation (`banjo/sir`) | scope, attributes, symbol tables | one per kind of node; copy of a part | copies that share parts with the original | the IR says what the tree says, in the right scopes |
| module manager (`banjo/source`) | modules by path, their text, tokens and AST | load all, reparse one | deleted and new files | the tree is that of the current text |
| semantic analyzer (`banjo/sema`) | SIR of all modules, stage of each declaration | collect symbols, resolve uses, expand `meta if`, interfaces, bodies, resources | stages that call each other on demand, cycles | what is accepted has a meaning, whatever the order of declarations |
| resource analyzer (`sema/resource_analyzer.cpp`) | stack of scopes with the state of each resource | one per kind of statement and expression | one decision per resource for all paths | nothing is used after a move; everything is destroyed once |
| SSA generation (`banjo/ssa_gen`) | current function and block, flags, deferred destruction | one per kind of statement and expression | early exits out of nested blocks | the code does what the source says |
| SSA passes (`banjo/passes`) | the function, analyses of it | one pass each, in the order of the pipeline | iteration to a fixed point, analyses that grow stale | the meaning of the function is kept |
| lowering (`codegen/ssa_lowerer.cpp`, `target/*`) | the block from its end, uses left of each value | one per instruction | values folded into the instruction that reads them | the machine code has the effects of the SSA |
| liveness analysis (`codegen/liveness.cpp`) | live registers at the borders of blocks | post order, sweeps, precise ranges | loops, calls, operands read and written | exactly the values that are needed are live |
| register allocator (`codegen/reg_alloc_pass.cpp`) | bundles, queue, allocations | coalesce, assign, evict, spill, rewrite | a queue that refills itself | no two values in one register; the same values are read |
| stack frames (`codegen/stack_frame_pass.cpp`, `prolog_epilog_pass.cpp`, `target/*/*_calling_conv.cpp`) | regions of the frame | layout, prolog, epilog, calls | three conventions, offsets beyond an immediate | arguments arrive, nothing is overwritten, registers come back |
| encoders (`target/*/..._encoder.cpp`) | the bytes and symbol uses so far | one per instruction | prefixes, short forms, limits of fields | the bytes mean the instruction |
| text section (`emit/binary_builder.cpp`) | slices, labels, offsets, relocations | encode, relax, resolve | growing one branch puts another out of reach | every branch lands on its block |
| object files (`emit/`) | sections, symbol tables, relocations | one builder and one emitter per format | offsets between parts written at different times | a linker finds every symbol and use |
| hot reloader (`banjo-hot-reloader`) | last contents of the files, address table in the target | poll, compare, rebuild, load, publish | three processes interleave; the target dies | calls never meet half a function; edits arrive |
| language server (`banjo-lsp`) | modules, index of definitions and uses, reports | open, change, queries | partial analysis on every key stroke | answers as after a fresh start |
| command line tool (`cli`) | toolchain cache, sysroots, packages, object files | build, run, test, toolchain ... | tools fail, the user interrupts, state stays on the disk | what was linked is current and complete; the next command works |
| child processes (`cli/process_*.cpp`) | pipes, exit code | spawn, wait | two pipes, a tool that blocks on either | output arrives completely; waiting ends |

The compiler is one process without threads; its components call one another in
the order above and share the SIR, SSA and machine code they rewrite in place. The
hot reloader is a process of its own that contains the compiler (`jit_compiler.cpp`),
watches the directory of the sources through inotify and changes the memory of the
running program through ptrace and `/proc/<pid>/mem`. The language server contains
the front end and repeats parts of the analysis after an edit. The command line
tool starts compiler, linker and scripts as processes and hands files from one to
the next.

## Modules

| part | modules | run | proofs |
|---|---|---|---|
| hot reloader, user and target | `HotReloader`, `MCHotReloader` | `hot_reload_safety`, `hot_reload_converges` | `HotReloaderProofs` |
| what it relies on in the target | `TargetMemory` (abstract), `TargetProcess` (ptrace protocol) | `target_process` | `TargetProcessProofs` |
| machine code as the analyses see it | `MachineCode` | | `MachineCodeProofs` |
| liveness analysis | `Liveness`, `MCLiveness` | `liveness_exact` | `LivenessProofs` |
| register allocator, x86-64 register analyzer | `RegAlloc`, `MCRegAlloc` | `reg_alloc` | `RegAllocProofs` |
| text section, branch relaxation | `BinaryBuilder` | `code_layout` | `BinaryBuilderProofs` |
| calling conventions, stack frames | `StackFrames`, `MCCodeLayout` | `code_layout` | |
| resources | `ResourceLifetimes`, `MCResources` | `resources` | |
| language server | `LspWorkspace`, `MCLsp` | `lsp` | `LspProofs` |
| graphs: dominators, frontiers, loops | `ControlFlow` | `ssa` | |
| SSA, its generation and passes | `Ssa`, `SsaPasses`, `MCSsa` | `ssa` | |
| encoders | `X8664Encoder`, `AArch64Encoder`, `Decoders`, `MCEncoders` | `encoders` | |
| lowering to three machines | `SsaLowerer`, `X8664SsaLowerer`, `AArch64SsaLowerer`, `WasmSsaLowerer`, `Lowering`, `LoweringPrograms` | `encoders` | |
| object files | `ObjectFiles` | `encoders` | |
| lexer, parser, formatter, SIR | `Parser`, `Formatter`, `Sir`, `FrontEnd` | `front_end` | |
| command line tool | `CommandLine`, `MCCommandLine` | `command_line` | `CommandLineProofs` |
| child processes | `ProcessPipes` | `command_line` | `CommandLineProofs` |

Modules that are composed: `Liveness` and `RegAlloc` build on `MachineCode`, and
`RegAlloc` takes the fixed point of the analysis as a value (`LiveIns`) that the property
`Exact` of `Liveness` shows to be what the algorithm returns. In `ResourceLifetimes`
a behaviour writes a program, analyzes it and runs it.
`TargetProcess` implements `TargetMemory`, whose steps are the memory operations of
`HotReloader`. `SsaPasses` extends `Ssa`: a behaviour generates the SSA of a program and
then runs the passes. `Lowering` instantiates the three lowerers. `FrontEnd` reads,
formats and reads again, and makes the SIR on the way. `MCCodeLayout`, `MCEncoders` and
`MCCommandLine` let two independent modules take turns: a behaviour is one of either
and the other is at rest.

### HotReloader

The variables are the members of `HotReloader` and `TargetProcess` (`seen` is
`file_contents`, `table` the address table in the target's memory), the position `pc` in
`HotReloader::run` with the locals that live across steps (`cur`, `todo`, `fn`, `built`,
`loaded`), the kernel's event queue and the memory of the target. Every ptrace stop and
every system call is a step of its own: `Poll` reads a buffer of events, `Check` is
`has_changed`, `Build` is `build_ir`, which reads the sources again, `NextFunc` the loop of
`reload_file`, `AllocText`, `AllocData`, `WriteText`, `WriteData` and `Update` the memory
operations of `load_func` and `update_func_addr`, `WaitPid` the end of an iteration. Between
any two of them the user may save or delete files (`Write`, `Delete`), threads of the
target may call functions through the table or return (`Call`, `Return`), and the target
may end (`Die`). A content is a model value; the constants say its size, whether it
compiles and what it defines. `reloaded` and `built` are history of what was read.

*Properties.* `TableSound`: no entry of the table ever leads to code that is not completely
written. `FramesIntact`: a call in progress keeps its code and data. `FileConsistent`: when
the reloader waits again, no file is half loaded. `Converges`: after the last edit the
target runs what is on disk. `ExitNoticed`: the reloader ends after the target has exited by
itself; when a signal killed the target it does not, see Deviations.

*Runs.* `hot_reload_safety` has one source and one other file, five contents (same size,
other size, other functions, an error, deletion), two threads, three edits, queues of two
events and four allocations, of which the fifth fails. `hot_reload_converges` has two
sources and a third file, four edits, a target that may exit at any step or be killed by a
signal (`Signals`), no content that a file had before, and one unread event: with two, or with one of the other freedoms in the table of deviations, the code
does not converge.

*Fairness.* Weak fairness on the reloader's own steps: it is an ordinary process that
blocks only in `poll` with a timeout of 25 ms. Nothing is assumed of the user or of the
target.

### TargetMemory, TargetProcess

`TargetMemory` is the promise: `Allocate` and `Access` take effect in one step, the program
goes on in between and notices nothing, and an operation only fails (`Fail`) when the
target is dead. `TargetProcess` is `target_process_linux.cpp`: `pc` is the position in
`allocate_memory` or `read_memory`/`write_memory`, `origRegs` and `origWord` their
`orig_regs` and `orig_word`, and every call of `ptrace`, `waitpid` and the memory file is
an action named after it (`Attach`, `WaitStop`, `GetRegs`, `PeekData`, `SetRegs`,
`PokeData`, `Cont`, `WaitTrap`, `GetResult`, `RestoreRegs`, `RestoreWord`, `Detach`,
`Transfer`). The state of the target (`thread`, `traced`, `pending`, `regs`, `word`,
`mapped`) and its actions are the kernel's part, external to this code. Between any two
calls the program executes (`Program`), signals are handled (`HandleSignal`), another
thread comes across the eight replaced bytes and the target dies of them (`Derail`), or it
dies for another reason (`Die`). A signal of somebody else that arrives during an operation
has the effect of one that is pending at the attach and handled later; so only that case
is modelled.

*Properties.* `Atomic`: `TargetProcess` implements `TargetMemory` under the mapping of
`Memory`: while the thread is in the injected code the program's registers are `origRegs`
and its code is `origWord`, and the result exists from the moment the system call has run.
`Ends`: an operation ends, also when the target dies in it, although `waitpid` has no
limit. `Resumes`: the target is never left stopped.

*Run.* `target_process` has three register contents, two successful allocations of which
the third fails, another thread, and no signals but those of ptrace. A bound on operations
is not needed, the state space is finite.

*Fairness.* Weak fairness of the tracer (a process that runs on) and of `Kernel`: an
injected system call is executed and pending signals are handled. The program itself, its
death and the begin of an operation are not fair.

### MachineCode, Liveness

A function is a sequence of blocks, a block a sequence of instructions with operands, a
successor set per block. An operand has the usage that `X8664RegAnalyzer::get_operands`
gives it (`RegOps`: USE, DEF, USE_DEF, KILL, the implicit operands of calls and returns
included). Points are `RegAllocPoint`: two per instruction. `Liveness` starts with any
function of `Funcs`; `Enter` and `Leave` are the recursion of `collect_blocks_post_order`
with an explicit stack, `Visit` is one visit of a block in a sweep, `Sweep` the loop
condition. `PreciseRanges` is `compute_precise_live_ranges`, the backward scan of a block
as a recursive function.

*Properties.* `Fixpoint`: the data flow equations hold at the end although the sweeps stop
at the first one without change. `Least`: at every step the sets are below every solution.
`Exact`: the sets are what the paths of the function say, with reads and writes taken from
the instructions (`LiveInsExact`), and the ranges of a block cover exactly the points at
which the value is needed (`RangesExact`). The latter is said of blocks with `PlainCalls`: the
result of a call is not in a register of its arguments and is moved away by the next
instruction, and nothing else that the call destroys is needed behind it. All blocks of the
run are such; `RangesExactAnyCall` leaves the condition out and fails (see Deviations).

*Run.* `liveness_exact`: 2,304 functions of three blocks, with every control flow among the
last two, six bodies (empty, two-address, a swap, a call). A loop of two blocks and
unreachable blocks occur, which is all the equations can distinguish for two registers.
`Least` quantifies over all solutions. The computation is sequential; `Terminates` holds
too and can be added to the configuration.

*Assumption.* `FuncsAssumption`: successors are blocks, and a register that an instruction
reads and writes was written earlier in its block, as the lowerer does (`WellFormed` and
`TwoAddress` of `MachineCode`).
Without it the analysis would not be exact, as `collect_uses_and_defs` does not count such
an operand as a use.

### RegAlloc

`Init` is the state after the bundles have been created from the live ranges and the
ranges of physical registers were reserved. `TryCoalesce` is one pair of the two nested
loops of `coalesce_bundles`, `FillQueue` their end; `Assign`, `Evict` and `Spill` are the
three ways a bundle leaves the queue (`alloc_bundle`), tried in this order; `Apply` rewrites
the code for one allocation (`apply_alloc`, with `insert_load` and `insert_store`);
`RemoveUseless` is the end. The order of bundles with the same weight depends on the
implementation of the priority queue and of a hash map and is left open (`ties`).

*Properties.* `NoConflict`: a physical register never holds two bundles at one point, nor
one where it is reserved. `Served`: no operand gets lost. `Faithful`: on every path every
instruction of the rewritten code reads the value it would read with a register per
virtual register.

*Assumption.* `FuncsAssumption`: functions are `WellFormed`, and a register that an instruction
reads and writes is one operand of it. `Faithful` needs more, and is proved from it (see
[Proofs](#proofs)): `Supported` says that the function has no addition (a spilled destination
of one is lost, see the deviations), that instructions write to registers, that the result of
a call is moved away by the next instruction and nothing else the call destroys is needed
behind it (`PlainCalls`, with `append_ret_val_move` of the calling convention), and that no
virtual register is read before it is written; `EnoughRegisters`, that a bundle made by
spilling gets a register. TLC evaluates that every function of the run is supported
(`MCSupported`). On x86-64 `EnoughRegisters` asks for what is always there: such a bundle is
one operand of one instruction, and there are more registers than an instruction has operands.

*Run.* `reg_alloc`: three general values, two registers, one more class with one register;
two-instruction middles of eight kinds, three loops; up to three stack slots, a bound that
is never reached (`SpillFirst`, a mutant, reaches it). Functions with one middle instruction
are run with every order of ties, the others with two orders.

### ResourceLifetimes

A program is a sequence of statements; `if`, `elif`, `else`, `loop` and `do` open a block,
`elif`, `else` and `end` close it. `Write` appends any statement that may follow,
`StartAnalysis`, `Analyze` and `FinishAnalysis` are the walk of `ResourceAnalyzer` with its
stack of scopes, `RunStatement` and `RunFunctionEnd` execute what `BlockSSAGenerator` and
`ExprSSAGenerator` generate for it. Conditions are opaque, so a run takes every path.
`value` says what the memory of a resource holds; a destructor on anything but an owned
value corrupts it.

*Properties.* `UsesOwned`: an accepted program reads only owned resources (`ReadsOwned`), a
destructor runs on owned values only (`DestroysOwned`), and the generator finds a flag
wherever it looks one up (`FlagSlots`). `NoLeak`: nothing owned is left behind.

*Run.* `resources` takes all programs up to seven statements of three families: moves in
blocks, branches, conditions and one loop (`"moves"`), fields of a pair (`"fields"`),
returns, breaks and continues with two nested loops but without moves (`"exits"`). The
combinations that the families leave out go wrong, see the table of deviations. Seven
statements are enough for a declaration, a branch with `else`, a move in each and a use
behind them, or a loop with a branch and a jump in it. `MaxLen` counts the `end`s that are
still needed, `MaxLoops` the nesting. The grammar has no empty blocks and nothing behind a
jump in its block. Assignments, parameters, pointers, `switch` and `try` are left out.

### LspWorkspace

A text is a record of the names a module declares (in this order), the names it imports
with their module (`use from.name`), the names its functions refer to, and whether it has a
syntax error. `Initialize` and `DidChange` are the notifications; `CollectDependents` is one
call of `collect_dependents`, `Generate` the new SIR (`gen` tells symbols of different
analyses apart, as their addresses do), `NextModule`, `NextImport` and `ResolveImport` the
`UseResolver` with its stack (`items`), which follows an import of an import into a module
that is not the one at hand, `AnalyzeBodies` the lookup of names, `BuildIndex` the erasure
and reconstruction of the index and the keys of symbols, `Publish` the diagnostics. The order
in which modules and imports are taken is that of hash tables or of the directory and is
left open.

*Properties* compare the server with one that has just been started on the same texts.
`IndexFresh`: "go to definition" leads every identifier where the texts declare it, computed
by following imports (`DefinitionsFresh`, `Origin`), and no symbol of discarded SIR is left
in the index (`SymbolsCurrent`). `DiagnosticsFresh`: the editor shows exactly the errors of
the texts, in the modules that were not edited too.

`remote` remembers that an import of one module was resolved in the course of another one.
From then on `add_symbol_use` has recorded a use for the wrong module, and the properties do
not hold (`ReferencesFound`, table of deviations). Hence they are asked of the states
without it; all orders remain in which a module is taken before those that import from it.

*Run.* `lsp`: a library, a module that exports a name of it and a user of both, with two to
four texts each (a declaration that moves, vanishes or changes its module, imports in a
circle, a syntax error in the library), every combination of first texts and two edits;
that is enough to edit one module and then one whose index was rebuilt because of it. Lists
and rebinds in imports, submodules, `meta if`, generics, files that appear or vanish, and
completion, which analyzes a copy of one module, are left out. The server is sequential
and finishes a message it has begun, the fairness of `Spec`; `Terminates` holds and can be
added to the configuration.

### ControlFlow, Ssa, SsaPasses

`ControlFlow` has the numbering, the dominator tree, the frontiers and the loops of a
graph as functions, in the order in which `control_flow_graph.cpp`, `dominator_tree.cpp`
and `loop_analyzer.cpp` compute them, and beside them the same notions defined by
reachability alone. `Ssa` is the SSA on integers and a struct of two, with stack
slots and block parameters, and its meaning: what a function prints and returns; it also
generates this form from a program and gives the program a meaning of its own, statement
by statement. In `SsaPasses` a behaviour starts with a program; `GenerateSsa` makes its SSA
and the `Run...` actions are the passes in the order of `create_opt_passes` for its level:
dead functions, control flow, scalar replacement, promotion of slots to registers,
peephole, branches to selects, inlining, loop invariant code, dead code, legalizer. Each
pass is an operator from a module to a module; `MaxSteps` bounds a run of a program.

*Properties.* `MeaningKept`: on every input on which the source divides by nothing that is
zero, the code after generation and after every pass prints and returns what the source
says. `WellFormed`: a register is defined once and before its uses, branches pass as many
values as their targets have parameters, blocks end in one branch. `GraphsExact`: the tree,
the frontiers and the loops are those that paths define.

*Run.* `ssa`: 199 programs of two statements at level 2 (every statement of a set of 22
in front of one of each of nine forms, with branches, loops, early returns, calls, structs,
divisions) on four inputs, which with `MaxSteps = 350` all end; and every control flow
graph of an entry and three more blocks, irreducible ones included, built one branch at a
time. A pass is sequential and total, so that no fairness is needed.

### Encoders, Lowering, ObjectFiles

`X8664Encoder` and `AArch64Encoder` are the encoders instruction by instruction: prefixes,
opcode, the two address bytes, displacement and immediate or the fields of the word, and
the symbol uses. `Decoders` reads bytes and words back and is written from the two
architectures (external), not from the encoders. `AArch64Encoder` also defines labels and
resolves branches within the section (`DefineLabel`, `EncodeWord`, `ResolveSymbols`).

`SsaLowerer` has what the lowerers share (slots, use counts, addresses collected through
`OFFSETPTR` and `MEMBERPTR`) and the meaning of the SSA that they are compared with;
`X8664SsaLowerer`, `AArch64SsaLowerer` and `WasmSsaLowerer` have one operator per
instruction of the SSA and a machine that runs what they emit. In `Lowering` a block is
walked from its last instruction to its first (`LowerInstr`, `SkipInstr` for a value that was
folded, `EndBlock`). `LoweringPrograms` is the set of functions.

`ObjectFiles` turns encoded functions and globals into the fields of an ELF, PE, Mach-O or
WebAssembly file (`Encode`, `Emit`); the readers of the second half follow the offsets as a
linker and an unwinder do and know nothing of the builders.

*Properties.* `InstructionsDecode`: bytes are read back as the instructions they were made
from and every field of a symbol leads to it. `LoweringKeeps`: machine code has the calls,
the memory and the result of the SSA on every input for which that is defined.
`LinkerReads`: every symbol, use, relocation and unwind record is found at its place.

*Run.* `encoders`, one behaviour per list of instructions, lowered function or module:
9,701 of x86-64 and 2,808 of AArch64 (registers at both ends of a field, every size, every
kind of address, values around the limits of their fields), 4,772 pairs of a function and
one of five machines on four inputs, 328 modules. These are tables of cases rather than
reachable states; the sets are chosen so that every case of the code is taken. `Defects`
names the inputs on which the code is wrong and which the run leaves out.

### BinaryBuilder, StackFrames

`BinaryBuilder` builds a text section: `AttachSymbolDef`, `EncodePlain`, `EncodeCall` and
`EncodeBranch` are the items of `encode`, `ComputeSliceOffset` the running sum,
`SkipSlice`, `WriteNear`, `RelaxBranch` and `LeaveFar` one turn of the loop of
`apply_relaxation`, `PassEnds` its condition, then `ResolveInternalSymbols` and
`CreateModule`. `ItemAt` says where an item really lies, as the sum of the bytes in front.

*Properties.* `BranchesLand`: every branch, read as the processor does, reaches the first
byte of its block. `Linked`: symbols, calls within the section and relocations are where
the bytes are. `RelaxedStaysFar` (proved): a branch that was made longer is never near
again, which the code relies on when it writes one byte or four. `SectionsEnd`: relaxation
ends.

`StackFrames` compiles a program of functions into prologs, bodies and epilogs by the three
conventions (System V, Microsoft x64, AAPCS) and runs them on a machine whose memory is a
map of bytes and whose values say where they come from. `ArgsArrive`: what `lower_call`
passed is what `lower_loadarg` reads. `FramesKept`: a slot keeps its value over calls
(`SlotsKept`), and the registers, stack pointer and return address come back
(`FramesRestored`).

*Run.* `code_layout` (`MCCodeLayout` extends `BinaryBuilder` and instantiates `StackFrames`):
2,528 programs in which main calls g and h and g calls h twice, with up to eleven
arguments, parameters kept or not, slots up to 33,000 bytes (beyond the offsets of
AArch64) and up to four saved registers; and 3,600 texts of two blocks, two branches and
two more instructions in every order, of 121 to 126 bytes, so that a branch just fits,
just does not, or fits until another one grows. Weak fairness on `BuildText`: the encoder
is a sequential function.

### Parser, Formatter, Sir, FrontEnd

`Parser` contains the lexer, `Parser`, `ExprParser`, `StmtParser` and `DeclParser` as
recursive operators on a record of the parser's state, with the recovery and its flags.
`Formatter` is one operator per kind of node that assigns white space to tokens, `Sir` the
`SIRGenerator` and the `Cloner`. In `FrontEnd` a file is read (`ReadTokens`), parsed one
child of the module at a time (`ParseChild`), finished (`FinishModule`) and written back
(`FormatText`), twice.

*Properties.* `TreeFaithful`: a program is read without a report, every token belongs to one
node, operators group as their levels say. `StaysInZone`: the parser never reads behind the
tokens that the stream keeps after the end. `EveryTurnAdvances`: no turn of the loop leaves
the position where it was. `FormattingKeeps`: the formatted text has the same tree and
comments, and formatting it again changes nothing. `SirFaithful`: the IR has every part of
the tree in the right scope, a copy shares nothing it changes, and a struct gets every default
method it lacks of the protos it implements (`AnalyzeProtoImpl`, with the interface stage of
`self` and the symbols of the copy). The cloner of a default method pushes an empty table of
its own first, so that the tables of the copy are within that one and names are looked up
through it where the original is; the types of other parameters stay as they are written.

*Run.* `front_end`: 10,507 files of one construct each - every declaration and statement in a
function and in a default method, with line breaks and comments in every gap, cut off at
every place, without one token, with one more. Sequential, no fairness.

### CommandLine, ProcessPipes

`CommandLine` keeps the disk (`cache`, `installed`, `files`, `out`) and the command at hand
(`cli`) from one command to the next. A step is one tool that is run or one file that is
written: `Start` parses the arguments, `LoadCachedToolchain`, `SetUpToolchain`, `OpenCache`,
`WriteCache` are the toolchain and its cache in two steps, `LoadRootManifest`,
`ParseManifest`, `LoadManifest`, `RunBuildScript`, `InstallPackage`, `LoadPackage`,
`AddPackagePaths` the walk over manifests and packages (what the recursion of `parse_manifest`
and `load_manifest` still has to do is in `cli.tasks`), `InvokeCompiler`, `InvokeAssembler`, `InvokeLinker`,
`RemoveObject`, `RunProgram`, `RunTests` the build. `EditSources` and `Interrupt` may happen
between any two; every tool may fail or be killed.

`ProcessPipes` is what happens between `Process::spawn` and the end of `Process::wait`, on
Unix (`Poll` over two pipes, each read to its end) and Windows (a thread for each), beside
a tool that writes, reads and ends as it likes.

*Properties.* `InputsExact`: the tools get exactly what the project and its packages name
for the target, libraries behind those that need them. `LinkedCurrent`: what a successful
command leaves is linked from the sources as they were when it started or later, with its
options. `Recovers`: later commands work again whatever happened before. `OutputComplete`:
when `wait` returns, all output is in the buffers, the exit code tells success from failure
and no end of a pipe is open. `WaitReturns`: `wait` returns.

*Run.* `command_line`: a Linux, a Windows and a macOS machine, an application with shared
packages and a library, histories of two or three commands; one fault (`MaxFaults`), never
in the last command, and one edit (`MaxEdits`); and every tool of up to four writes or reads
with pipes of two blocks, enough for each stream to fill its pipe and be emptied again.

*Fairness.* Weak fairness on the steps of a command, on the tool, on the process that waits
and on each reader: the system runs every process that can go on. None on the user.

## Deviations

What the code does against its own documentation or against a property above. The runs
leave these inputs out, by a bound or by a named defect; a changed configuration, or
another INVARIANT, brings each back and TLC answers with a counterexample.

| configuration | change | violated | what the code does |
|---|---|---|---|
| `HotReloaderConverges` | `MaxPending = 2`, `Files = {f1, f2}`, `Contents = {a, b, gone}`, `SizeOf <- SameSize`, `EditAt = {"poll"}`, `MaxWrites = 2`, `MaxAddr = 3` | `Converges` | of two events in one read only the first is looked at |
| | `Files = {f1, txt}`, `Sources = {f1}`, `After <- AnyEdit`, `EditAt = {"poll"}` | `Converges` | a file of another size is not stored: back at the first size it has not changed |
| | the same files, `After <- AnyEdit`, `SizeOf <- SameSize` | `Converges` | a save during the build is stored as seen and never built |
| | `Bad = {e}`, `Contents = {a, b, e, gone}`, `After <- AnyEdit`, `SizeOf <- SameSize`, `EditAt = {"poll"}` | `Converges` | an error in one file makes the change of another one forgotten |
| | `PROPERTY DeathNoticed` | `DeathNoticed` | a target killed by a signal is waited for and never marked as exited (`TargetProcess::poll`): the reloader polls for ever |
| `TargetProcess` | `OtherSignals = TRUE` | `Resumes` | `waitpid` takes the first stop for the one it waits for; the SIGSTOP of the attach halts the target after the detach |
| `Lsp` | `Texts = "broken"` | `DiagnosticsFresh` | the errors of the parser are lost when a module is analyzed again as a dependent |
| | `Texts = "empty"` | `DiagnosticsFresh` | an emptied file keeps the errors it had |
| | `INVARIANT ReferencesFound` | `ReferencesFound` | a use found while another module is resolved is recorded for that one |
| `LivenessExact` | `Funcs <- ArgumentIsResult`, `INVARIANT RangesExactAnyCall` | `RangesExactAnyCall` | a register that is argument and result of a call (XMM0; RAX of a variadic call) gets a range that ends before it starts: it is not reserved between the move of the argument and the call |
| `RegAlloc` | `Funcs <- Additions` | `Faithful` | a spilled destination of `ADD` is never loaded (`insert_load`) |
| `Resources` | `Families = {"condition"}`, `MaxLen = 5`; `{"nested"}`, 6; `{"continue"}`, 8 | `UsesOwned` | a move in the condition of a loop, in a loop inside of a loop, behind a `continue` |
| | `Families = {"temp_return"}`, 6; `{"return"}`, 6; `{"temp_if"}`, 5 | `NoLeak` | a temporary in a `return`, a return between initialization and move, a temporary in an `if` |
| `Ssa` | `Programs <- GuardedDivision`, level 2 | `MeaningKept` | a division guarded by a test is moved out of the loop |
| | `Programs <- ExchangedFields`, level 0 | `MeaningKept` | a struct overwritten by its own fields is read while it is written |
| | `Programs <- NegativeDivision`, level 1 | `MeaningKept` | a signed division by a power of two becomes a shift |
| | `Programs <- EqualArms`, level 1, `INVARIANT Validated` | `Validated` | a register that is used and not defined |
| `Encoders` | a name taken out of `Defects` | `InstructionsDecode`, `LoweringKeeps` or `LinkerReads` | see below |
| `CodeLayout` | `Defects = {"positions"}` or `{"saved"}` | `ArgsArrive` | AArch64: a float among more than eight arguments; a parameter on the stack of a function that saves registers |
| | `INVARIANT ScratchRestored` | `ScratchRestored` | the scratch register of AArch64 is neither volatile nor saved |
| | `Opcodes <- WithJg` | `BranchesLand` | `JG` has no long form in `apply_relaxation` |
| `FrontEnd` | `Texts <- Unclosed`, `Accepted = {}` | `TreeFaithful` | `)` of a parenthesis is consumed without a look |
| | `Texts <- Headless`, `Accepted = {}` | `StaysInZone` | an enumeration cut off in its head runs beyond the tokens |
| | `Texts <- Overlong`, `Accepted = {}` | `SirFaithful` | what stands behind the length in `[i32; 2, b]` is read without a report and left out |
| | `Texts <- Glued`, `Accepted = {}` | `FormattingKeeps` | `1 .. .b`, `& &a`, `\| \|` are written without the space that separates them |
| `CommandLine` | `Faults` with `"interrupt write cache"`, `"interrupt remove cache"` or `"partial install"` | `Recovers` | a half-written cache or package stands in the way for good |
| | `Faults` with `"build script"` | `LinkedCurrent` | the exit code of a build script is ignored |
| | `Library` built for `Wasm` | `LinkedCurrent` | a shared library for WebAssembly is linked as a program |
| | a manifest with the `args` `--opt-level 2` | `LinkedCurrent` | the arguments of a manifest come last and override those of the command line |
| | a part for Windows with `library_paths`, built for Linux | `InputsExact` | the parts for all targets are parsed, and with that their library paths added |
| | `graphics` also among the `libraries` of the application | `InputsExact` | nothing wrong: the property does not see which manifest a mention of a library is from |
| | `Defects = {"full_pipes"}` | `WaitReturns` | more than a pipe on one stream while the other is read to its end |
| | `Defects = {"reads_stdin"}` | `WaitReturns` | the piped input is only closed after the wait |

The first four contradict `docs/lang/source/hot_reloading.md`, `ReferencesFound` contradicts
`src/README.md`.

*Defects in `Encoders.cfg`.* Of the x86-64 encoder: `byte_source`, `byte_immediate`,
`call_register` (the register form of a call), `ucomisd_prefix`, `symbol_immediate`; of the
AArch64 encoder: `mov_parts` (a move that needs three or four parts), `mov_sp`,
`offset_reach` (offsets that are not a multiple of the size, or from -4096 on, count as
encodable), `wide_immediate`, `shift_with_sp`, `pair_offset`. Of the lowering to x86-64 and
AArch64: `byte_multiply`, `round`, `int_to_float`, `float_select`, `select_size`,
`folded_load` (a load is moved over a store), `inner_use` (an address inside of another one
is used up once per outer use), `odd_return`, `narrow` and `narrow_compare` (garbage above a
narrow value), `no_copy`, `extern_func_value`, `func_store`, `symbol_index`; of the lowering
to WebAssembly: `extern_value`, `array_value`, `struct_value` (structs other than of eight
bytes are accessed as four), `negative_offset`, `exchanged_conversions` (unsigned and signed
integers to floats), `both_args` (the arguments of both targets are stored). Of the object
files: `unwind_offset` (a push of PE is recorded with its offset in the section, not in its
function).

*Met while reading, and outside of the models or without a property.*

* Encoders and lowering: `SQRTSD` is lowered and not encoded; conditional branches of AArch64
  beyond 1 MB are not checked; `encode_shift` tests for -1 where 1 has the short form;
  System V passes a ninth float in XMM8; V16 to V30 count as non-volatile; the Microsoft
  convention saves eight bytes of an XMM register; sign extension from one or two bytes
  does not extend on WebAssembly, and the locals of a variadic function are off by one.
* Object files: PE drops the addend of a use of an unknown symbol and makes an absolute
  address a relative one; Mach-O asserts on the table of the hot reloader.
* Parser: closing tokens and names are consumed without a look in tuples, `switch`, `ref`
  parameters, native variables, `meta (`, rebinds and attributes; recovery may consume the
  `}` of the block around it; a second `else` replaces the first; `[a, b; 3]` is accepted; with
  optional semicolons a line that begins with `(`, `[`, `*`, `-`, `.` or `&` continues the one
  before.
* Formatter: `case _` asserts; sorting a use list with rebinds or dots reads out of bounds;
  the sort of the edits is not stable.
* SIR: `case _` dereferences a null pointer, and so does `native func f[T]`; attributes of
  generic functions and structs, constants, enums, unions, protos and aliases are dropped;
  a struct literal with an erroneous entry shifts the others; the block of a generic proto
  is generated twice; a clone shares enum blocks, fields of union cases, alias tables, the
  types of maps and names with its original; locals of `switch` cases, parameters of
  closures and locals of `meta for` are not mapped. Only default methods, the ranges of
  `for` and constant values are cloned.
* Command line: packages that need each other recurse without end; exit codes of the
  virtual environment, pip, bindgen and the program that is run are ignored; `test` returns 0
  when a test fails; a static library is linked as an executable; two commands at the same
  time race on cache and packages; the quoting of arguments on Windows is wrong.

## Proofs

Each proof module states an inductive invariant, proves that `Init` implies it and that
every action keeps it, one lemma per action or group of actions, and derives the theorems
of `PROJECT.json` from it. TLC checked every inductive invariant on a run of its module
before it was proved.

* `HotReloaderProofs`. `IInv` adds to the type: what `loaded`, `fn` and `cur` are in each step
  (`Loading`, `Handling`), that memory from `next` on is unused (`Unused`), and that the
  sections being written are fresh and, just before `Update`, complete (`TextFresh`,
  `DataFresh`, `Ready`). `TableSound` alone is not inductive: it says nothing of the address
  about to be published. From it follow `TypeCorrect`, `TableAlwaysSound` and
  `FramesAlwaysIntact`. `FilesAlwaysConsistent` needs to know what a reload has done halfway:
  between the build and the end of its loop the functions that are through come from the
  new content and the rest, still in `todo`, from what was there before (`Reloading`,
  `Pending`, `Progress`). All under `ConstAssumption` (types of the constants) only.
* `TargetProcessProofs`. `TypeOK` needs `Home` (where the registers are the program's, and
  where the thread is held) to know what is backed up. For the refinement `IInv` adds `Stops`
  (why the thread has stopped at each position), `Swapped` (what is in the registers and the
  code from `SetRegs` to `RestoreWord`) and `Called` (the result and the position of the thread
  in the injected code). `TypeCorrect` holds always; `AlwaysAtomic` assumes `OtherSignals =
  FALSE`, as the table of deviations shows why. Each action of `TargetProcess` is mapped to
  one step of `TargetMemory` or a stutter.
* `LivenessProofs`. `Below`: `outs` is below the union of the successors' `ins`, and `ins` below
  what the equations make of it. `Settled`: while a sweep has changed nothing, the equations
  hold in the blocks it has passed. With both, the end of a sweep without change is a fixed
  point (`AlwaysFixpoint`); every step stays below every solution (`AlwaysLeast`). `Ordered`
  says what the depth-first search has seen, so that at the end the listed blocks are closed
  under control flow. `InsAlwaysExact`: by `TwoAddress` the uses and definitions of a block
  are its first reads and its writes; a path longer than there are blocks visits one twice
  and can be cut (`ReachShorter`); the blocks with a path to a use solve the equations, so
  that by `Least` nothing else is live, and by `Fixpoint` all of them are, from the end of
  the path backwards. With that, `AlwaysExact` is `RangesOfBlock` of `MachineCodeProofs`. All
  of it for every function of `FuncsAssumption` and every set of registers.
* `MachineCodeProofs` has what both of these proofs need of the scan of a block: what one
  instruction does to one register (`ScanEffect`, `VirtualEffect`) and that the recursive
  functions of `LiveIns` and `ScanBlock` have values (by the least row that would not).
  `OperandsInRanges`: every operand of a virtual register lies in one of the live ranges of the
  register. The scan is followed backwards (`Followed`): the operands behind instruction i are
  in ranges, but for the start of the range that is still growing; such a range has its
  start in the block or the register is read before anything writes it (`ReadBelow`), is then
  among the uses of the block (`ReadBelowIsUse`) and live at its start. Blocks may be
  unreachable, and a call may destroy what is needed behind it. `RangesOfBlock`: for a block
  whose calls are `PlainCalls` the scan is exact. Before instruction i a register is live
  exactly if it is needed at i, and its ranges, the last one taken to reach up to i while it
  is live, cover what is needed from i on (`Scanned`, `ReadStep`, `WriteStep`, `OtherStep`).
  `LiveInsSolve`: the rounds of `LiveIns` end in a solution of the equations, as sets that
  only grow and depend on each other can do so in no more rounds than there are blocks
  (`GrowingSets`). `NeededInRange` puts the two together for the allocator.
* `RegAllocProofs`. `BundlesApart`: the registers of a bundle that is being built do not meet.
  With `NoConflict` and `Served` themselves and the type it is inductive; `NeverConflicts` and
  `AlwaysServed` hold for every function that is `WellFormed`, every register set, order of the
  queue and outcome of ties. That each operand has a segment at first is `OperandsInRanges`.
  `AlwaysFaithful` takes three more steps. `PlacesOK`: every bundle is a whole web or one operand
  of a spilled one, bundles that share a slot hold registers that do not meet, and no slot is
  used that is not handed out. `CodeOK`, with the allocations applied so far: each argument of
  the rewritten instruction is free, in its register, or loaded from its slot by a move before
  it, and what it writes is stored behind it (`InsOK`; `WholeStep`, `PartStep`); the two are
  inductive (`FInvariance`). Then the two functions are run side by side: `Agree` says that what
  the original has in a register that is live is in its *home* in the rewritten code, the
  register or slot of the allocation that holds it there (`Home`). Two registers that are live
  at one point have different homes (`HomesApart`, by `NoConflict` and `NeededInRange`: a live
  register is in one of its ranges), so that writing one does not disturb the other. A step, a
  block and a path keep `Same` (`SameStep`, `SameBlock`, `SamePath`): blocks and paths by the
  first instruction or block for which it would fail, as an induction over them cannot be
  stated for these provers, and `RowsExist` gives the recursive functions of `Run` a value in
  the same way. `AlwaysFaithfulThroughout` says it for paths of any length.
* `BinaryBuilderProofs`, for every text (`TextsAssumption`: symbols and externals are apart and
  every symbol is attached once), with every branch the encoder emits. `JG` has no long form,
  so that what is true of all texts stops at the first `JG` whose distance exceeds a byte:
  the invariant is `JgsFit => IInv`, where `JgsFit` says that the distances written into the
  fields of `JG` fit, as the pass `bake` finds them. It is inductive because `JgsFit` only
  speaks once relaxation is over, and sizes do not change any more (`JgsFitBefore`,
  `JgsFitOnce`). `Placement`: every item has its bytes in the slice it begins in,
  and no phase changes where in the slice. `Offsets`: at every moment an offset is the sum of
  the sizes before it, or is being computed. `NearAtFirst`, `FarAway` and `NearFits`: a branch
  begins short; when it grows, everything behind is pushed out, so that targets of long
  branches only move further away (`RelaxedAlwaysFar`, without a condition); and a pass that changed nothing has
  seen every short branch fit. `BranchesResolved` and `UsesResolved` then say what the fields
  hold, and the sum that `ItemAt` computes is shown to be the offset of the slice plus the
  local position, by the least item for which it would not be. Hence `BranchesAlwaysLand` and
  `AlwaysLinked`, both `JgsFit => ...`. TLC finds the same on 3,600 texts of eight items; the theorems are about
  texts of any length, in which any number of branches push each other out.
* `CommandLine` in `CommandLineProofs`. `AlwaysLinkedCurrent` is `LinkedCurrent` for every set of
  machines, projects and command lines, of any length and number (`HistoriesAssumption`,
  `ManifestsAssumption`: what the JSON of a manifest and the words of a command line can be),
  any faults and interruptions, and any number of edits. It is true under `PlainHistories`, the
  three cases of the table of deviations: no build script fails, no manifest gives the compiler an
  option of the tool itself, and no shared library is built for WebAssembly (that `packages/...`
  is no option is said there too, as the provers know nothing of the letters of a text); TLC
  evaluates that the histories of the run are such. The invariant joins what is on the disk
  (`CacheRight`: a toolchain file is that of the machine, or only a part of it) with the memory of
  the command: its request is what the arguments ask for (`Requested`), its toolchain the one of
  the machine (`Equipped`), what it collected has no option of the tool in it (`Collected`),
  and the file it is about to hand to the next tool is the one that it made itself (`Fresh`);
  so neither a program nor an object file of an earlier command can take its place. Two facts carry
  it. The options that are parsed, token by token, agree with the ones that the tokens name,
  where the last value of a kind counts (`ParseAgrees`, `SettingAsked`). And what the compiler
  reads from the arguments it is given is what they were made from (`CompilerArgsAre`), in which
  `--opt-level`, say, is found behind any number of `--path` (`SaysStill`, `PathsAre`). The two
  recursions over command lines and lists of arguments have a value by `RowsExist`.
  `AlwaysInputsExact` is `InputsExact` for the same, with any packages that need each other, in
  circles too. It needs `PlainManifests` as well, which excludes the two cases of the table of
  deviations in which the property is false, and which TLC evaluates for the run. What counts
  is the least set of manifests that contains what its members ask for (`Least`, `NeededIs`).
  The invariant `Inputs` says of the walk that there are a set of manifests whose options it has
  taken and a set that it has parsed (`Walk`): all that is taken counts (`Within`); what a taken
  manifest asks for is taken or on the list of tasks (`Covers`); it is parsed before it is taken
  (`Announced`, as parsing comes first: `ParsedFirst`); the lists hold what the taken manifests
  say (`Taken`, `Searched`); and a library of a package is behind those that need it unless the
  package is still to be done (`Sorted`). Each task keeps that: it leaves the list and puts
  before the others what it asks for (`Moved`). When the list is empty, the taken manifests are
  closed, so they are the least set (`WalkEnds`), and the tools get what it says (`Gathered`).
* `ProcessPipes` in `CommandLineProofs`, for every tool (`ToolsAssumption`: it writes and reads what it likes, as
  often as it likes) and every size of a pipe. `Phases` and `EndsHeld`: where the processes are
  with respect to each other, and that after the fork only the tool can write to the pipes
  that the parent reads. `NothingLost`: what was written to a stream is in its pipe or in its
  buffer. `Leaving`: a stream that is not polled or read again has ended; what the last poll
  returned says so although it may be old, as an end does not go away. `OutputAlwaysComplete`
  follows for the tools of the two deadlocks as well: wait may not return, but when it does
  the output is complete.
* `LspProofs`, for any finite set of modules and all texts in which a name is declared once or
  imported once (`WorkspaceAssumption`; anything else `SymbolCollector` reports as a
  redefinition). A module is `Untouched` when it is not analyzed again and the index does not
  list it as a dependent of one that is; `Closed` says that at the end of the collection all
  others are in the set. An untouched module keeps its bindings (`Bound`: each is what its name
  is bound to where it is imported from), its part of the index (`Indexed`) and the keys of its
  declarations (`Keyed`), as each module these depend on lists it as a dependent. `Behind`,
  `Item` and `Recorded` say how far the resolver is, `Grounded` that the imports that are bound
  go in no circle. From this `SymbolsAlwaysCurrent` follows at once. For `IndexAlwaysFresh`
  the bindings have to be compared with paths: the ranks of `Grounded` are replaced by the
  number of modules of lower rank (`Depths`), so that following an import as many times as
  there are modules reaches the end, and the module of least depth for which the binding
  would differ is led to a contradiction (`LookUpOrigin`). All of it is said of behaviours
  with `~remote`, the condition of the properties. `DiagnosticsAlwaysFresh` needs more of the
  texts, `SoundTexts`: an empty file is not in the index, so that its errors stay in the
  editor, and a syntax error is forgotten when its module is analyzed again as a dependent;
  the counterexamples are in the table of deviations. Without such texts, the reports of an
  analysis are at each point those of the imports and names it has gone through (`Found`), and
  an untouched module has exactly its errors in the index and in the editor (`Shown`); that a
  module with a syntax error is no dependent of another one is `Separate`. TLC evaluates that
  the texts of the run are sound and the other families are not (`SoundOrNot`).

*Only model-checked.* Everything under fairness (`Converges`, `ExitNoticed`, `Ends`, `Resumes`,
`SectionsEnd`, `Recovers`, `WaitReturns`), as TLAPS handles neither fairness nor ENABLED here.
`ArgsArrive` and `FramesKept`, which speak of folds over sequences and would need induction
over data. The properties of `SsaPasses`, `MCEncoders`
and `FrontEnd`, whose modules declare recursive operators, as do
`AArch64SsaLowerer`, `ControlFlow`, `Formatter`, `ObjectFiles`, `Parser`, `Sir`, `Ssa`,
`SsaLowerer`, `WasmSsaLowerer` and `X8664SsaLowerer`. `UsesOwned`, `NoLeak` and
`ArgsArrive` are false for all programs, as the table of deviations shows, and hold for
the families of the runs. `DiagnosticsFresh` and `InputsExact` are false for some texts and
manifests, and proved for the others (`SoundTexts`, `PlainManifests`).

## Plan

1. Proofs: that the memory steps of `HotReloader` are those of `TargetMemory`.
2. Front end: names and the expansion of `meta if` in the semantic analyzer, the return
   checker.
3. Back end: the AArch64 register analyzer as a second instance of `RegAlloc`.
4. Language server: completion on a copy of a module, lists and rebinds in imports.

## Not modelled

The components with status `not_modelled` in `PROJECT.json` say why: passive data (AST),
files (module manager), tables (typing rules, completion items) or text (reports), or they
belong to the plan. Within modelled components these are left out: in SSA generation
unions with `switch` and `try`, closures, arrays, maps, strings and generic functions; of
the passes those that the pipeline does not run (common subexpressions, loop inversion),
the canonicalization of pointer arithmetic and the promotion of heap allocations; variadic
calls; in the front end completion tokens and the validation of literals; `find_section`
and the relocations of the hot reloader; debug information; two commands at the same time.

## Running

    tlc -config HotReloaderSafety.cfg MCHotReloader
    tlapm HotReloaderProofs.tla

`PROJECT.json` names the module of every configuration.
