---------------------------- MODULE CommandLine -----------------------------
(***************************************************************************)
(* The command line tool `banjo` (src/src/cli): what it leaves on the disk *)
(* from one command to the next - the toolchain cache, sysroots, packages, *)
(* the Python environment of bindgen, the files that compiler, assembler   *)
(* and linker hand on - and how a command gets from its arguments to the   *)
(* linked program.  A command takes one step for every tool it runs and    *)
(* every file it writes, and may be killed between any two.                *)
(*                                                                         *)
(* The tools are not part of the model: each succeeds or fails as a whole, *)
(* Process::wait gives the exit code (ProcessPipes).                       *)
(***************************************************************************)
EXTENDS Naturals, Sequences, FiniteSets, SequencesExt

CONSTANTS Histories,    \* [project, machine, lines]: what a user may do
          Manifests,    \* the manifests of projects and packages, and their parts for single targets
          Faults,       \* what may go wrong, see the steps
          MaxFaults,    \* how often
          MaxEdits      \* how often the user changes a source file

ASSUME BoundsAssumption == MaxFaults \in Nat /\ MaxEdits \in Nat

-----------------------------------------------------------------------------
(***************************************************************************)
(* Arguments (argument_parser.cpp).  A token is a word, a long option or a *)
(* letter with what is attached to it; parts is its text split at "-".     *)
(***************************************************************************)

None == ""      \* no text, no value, no command, no code yet

Option(name, letter, value) == [name |-> name, letter |-> letter, value |-> value]
Options == {
    Option("help", "h", FALSE), Option("version", "V", FALSE), Option("quiet", "q", FALSE), Option("verbose", "v", FALSE),
    Option("target", None, TRUE), Option("config", None, TRUE), Option("opt-level", None, TRUE), Option("force-asm", None, FALSE),
    Option("hot-reload", None, FALSE), Option("debug-compiler", None, FALSE), Option("generator", "g", TRUE), Option("include", "I", TRUE)}

Command(options, positional, subcommands) ==
    [options |-> options, positional |-> positional, subcommands |-> subcommands]
Common == {"help", "quiet", "verbose"}
Building == Common \cup {"config", "opt-level", "force-asm", "debug-compiler"}
TopLevel == [
    new |-> Command({"help"}, "required", {}),
    build |-> Command(Building \cup {"target"}, "none", {}),
    run |-> Command(Building \cup {"target", "hot-reload"}, "none", {}),
    test |-> Command(Building, "optional", {}),
    invoke |-> Command(Building \cup {"target"}, "required", {}),
    targets |-> Command(Common, "none", {}),
    lsp |-> Command(Common \cup {"target"}, "none", {}),
    format |-> Command(Common, "required", {}),
    bindgen |-> Command(Common \cup {"generator", "include"}, "required", {}),
    toolchain |-> Command(Common, "none", {"list", "info", "setup", "remove"}),
    help |-> Command(Common, "none", {}),
    version |-> Command(Common, "none", {})]
Toolchain == [
    list |-> Command(Common, "none", {}),
    info |-> Command(Common, "optional", {}),
    setup |-> Command(Common, "optional", {}),
    remove |-> Command(Common, "optional", {})]
CommandOf(name) == IF name \in DOMAIN TopLevel THEN TopLevel[name] ELSE Toolchain[name]

\* What was parsed so far; stop is "help" or "error" when nothing more is.
NoToken == [form |-> "word", text |-> None, attached |-> None, parts |-> <<>>]
StartParsing == [stop |-> None, global |-> <<>>, command |-> None, options |-> <<>>, positional |-> NoToken, awaiting |-> None]
Failed(p) == [p EXCEPT !.stop = "error"]
contains_help_option(values) == \E k \in DOMAIN values : values[k].name = "help"
OptionsHere(p) == IF p.command = None THEN p.global ELSE p.options
WithOption(p, name, token) ==
    LET value == [name |-> name, token |-> token]
    IN IF p.command = None THEN [p EXCEPT !.global = Append(@, value), !.awaiting = None]
       ELSE [p EXCEPT !.options = Append(@, value), !.awaiting = None]

find_option(p, token) ==
    {o \in Options : /\ o.name \in (IF p.command = None THEN Common \cup {"version"} ELSE CommandOf(p.command).options)
                     /\ IF token.form = "long" THEN o.name = token.text ELSE o.letter = token.text}
parse_option(p, token) ==
    IF find_option(p, token) = {} THEN Failed(p)
    ELSE LET o == CHOOSE x \in find_option(p, token) : TRUE
         IN IF token.form = "letter" /\ token.attached # None
               THEN IF o.value THEN WithOption(p, o.name, [token EXCEPT !.text = token.attached]) ELSE Failed(p)
            ELSE IF o.value THEN [p EXCEPT !.awaiting = o.name]
            ELSE WithOption(p, o.name, token)

parse_command(p, token) ==
    LET known == IF p.command = None THEN DOMAIN TopLevel ELSE CommandOf(p.command).subcommands
    IN IF contains_help_option(OptionsHere(p)) THEN [p EXCEPT !.stop = "help"]
       ELSE IF token.text \in known THEN [p EXCEPT !.command = token.text] ELSE Failed(p)

\* One turn of one of the loops of parse.
ParseToken(p, token) ==
    IF p.stop # None THEN p
    ELSE IF p.awaiting # None THEN (IF token.form = "word" THEN WithOption(p, p.awaiting, token) ELSE Failed(p))
    ELSE IF token.form # "word" THEN parse_option(p, token)
    ELSE IF p.command = None \/ CommandOf(p.command).subcommands # {} THEN parse_command(p, token)
    ELSE IF p.positional = NoToken /\ CommandOf(p.command).positional # "none" THEN [p EXCEPT !.positional = token]
    ELSE Failed(p)
ParsingEnds(p) ==
    IF p.stop # None THEN p
    ELSE IF p.awaiting # None THEN Failed(p)
    ELSE IF p.command = None \/ contains_help_option(p.options) THEN [p EXCEPT !.stop = "help"]
    ELSE IF \/ CommandOf(p.command).subcommands # {}
            \/ p.positional = NoToken /\ CommandOf(p.command).positional = "required" THEN Failed(p)
    ELSE p
CommandLines == UNION {Range(h.lines) : h \in Histories}
parse[argv \in CommandLines] ==
    LET after[k \in 0..Len(argv)] == IF k = 0 THEN StartParsing ELSE ParseToken(after[k - 1], argv[k])
    IN ParsingEnds(after[Len(argv)])

-----------------------------------------------------------------------------
(***************************************************************************)
(* Targets (target.cpp).                                                   *)
(***************************************************************************)
Target(arch, os, env) == [arch |-> arch, os |-> os, env |-> env]
list_available == {
    Target("x86_64", "windows", "msvc"), Target("x86_64", "windows", "gnu"), Target("x86_64", "linux", "gnu"),
    Target("aarch64", "linux", "gnu"), Target("aarch64", "macos", None), Target("wasm", "unknown", None), Target("wasm", "emscripten", None)}
get_default_env(os) == CASE os = "windows" -> "msvc" [] os = "linux" -> "gnu" [] OTHER -> None
NoTarget == Target(None, None, None)
parse_target(parts) ==
    LET t == CASE Len(parts) = 2 -> Target(parts[1], parts[2], get_default_env(parts[2]))
               [] Len(parts) = 3 -> Target(parts[1], parts[2], parts[3])
               [] OTHER -> NoTarget
    IN IF t \in list_available THEN t ELSE NoTarget
is_executable_on_host(t, host) == t = host \/ (host.os = "windows" /\ t.os = "windows" /\ t.env = "gnu")

toolchain_kind(t) ==
    CASE t.os = "windows" -> IF t.env = "msvc" THEN "MSVC" ELSE "MINGW"
      [] t.os = "linux" -> "UNIX"
      [] t.os = "macos" -> "MACOS"
      [] t.os = "emscripten" -> "EMSCRIPTEN"
      [] OTHER -> "WASM"

\* CLI::run: the settings that the options of a command make, the last of a kind counts.
Setting(p, name) ==
    LET all == {k \in DOMAIN p.options : p.options[k].name = name}
    IN IF all = {} THEN NoToken ELSE p.options[CHOOSE k \in all : \A j \in all : j <= k].token
HasOption(p, name) == \E k \in DOMAIN p.options : p.options[k].name = name
Request(p, host) ==
    LET t == IF p.command \in {"info", "setup", "remove"} THEN p.positional ELSE Setting(p, "target")
        config == Setting(p, "config").text
        level == Setting(p, "opt-level").text
    IN [command |-> p.command, name |-> p.positional.text,
        target |-> IF t = NoToken THEN host ELSE parse_target(t.parts),
        config |-> IF config = None THEN "debug" ELSE config,
        level |-> level,
        asm |-> HasOption(p, "force-asm"), hot |-> HasOption(p, "hot-reload")]
Valid(r) == r.target # NoTarget /\ r.config \in {"debug", "release"} /\ r.level \in {None, "0", "1", "2"}

-----------------------------------------------------------------------------
(***************************************************************************)
(* Toolchains (toolchains.cpp).  A machine m has the tools of m.tools; its *)
(* compilers search for libraries in m.searched, of which m.existing exist *)
(* and m.crt hold the startup files; m.msvc and m.sdk are the installed    *)
(* versions, sequences of numbers, and m.studio the installations found.   *)
(***************************************************************************)
NoToolchain == [missing |-> TRUE]
NoTool == "no tool"
FirstTool(m, names) == LET found == SelectSeq(names, LAMBDA n : n \in m.tools) IN IF found = <<>> THEN NoTool ELSE found[1]
remove_duplicates(s) == FoldLeft(LAMBDA r, x : IF x \in Range(r) THEN r ELSE Append(r, x), <<>>, s)
parse_gcc_lib_dirs(m, dirs) == remove_duplicates(SelectSeq(dirs, LAMBDA d : d \in m.existing))

Older(v, w) == \E k \in DOMAIN v : v[k] < w[k] /\ \A j \in 1..k - 1 : v[j] = w[j]
NoVersion == <<>>
get_max_version(versions, components) ==
    LET valid == {v \in versions : Len(v) = components}
    IN IF valid = {} THEN NoVersion ELSE CHOOSE v \in valid : \A w \in valid : ~Older(v, w)
find_vs_installation(m) == IF m.studio = {} THEN None ELSE IF "full" \in m.studio THEN "full" ELSE "build tools"
DetectMsvc(m) ==
    LET studio == find_vs_installation(m)
        tools == get_max_version(m.msvc, 3)
        sdk == get_max_version(m.sdk, 4)
    IN IF "vswhere" \notin m.tools \/ studio = None \/ tools = NoVersion \/ sdk = NoVersion THEN NoToolchain
       ELSE [tools_path |-> <<studio, tools>>, lib_path |-> <<"Windows Kits", sdk>>]

DetectMinGW(m) ==
    IF ~({"mingw-ld", "mingw-gcc"} \subseteq m.tools) THEN NoToolchain
    ELSE [linker_path |-> "mingw-ld", lib_dirs |-> parse_gcc_lib_dirs(m, m.searched["mingw-gcc"])]

UnixLinker(m) == FirstTool(m, <<"lld", "ld">>)
UnixLinkerArgs(m) == IF UnixLinker(m) = "lld" THEN <<"-flavor", "gnu">> ELSE <<>>
WithStartupFiles(m, dirs) == SelectSeq(dirs, LAMBDA d : d \in m.crt)
DetectUnix(m) ==
    LET compiler == FirstTool(m, <<"clang", "gcc">>)
        dirs == IF compiler = NoTool THEN <<>> ELSE parse_gcc_lib_dirs(m, m.searched[compiler])
        crt == WithStartupFiles(m, dirs)
    IN IF UnixLinker(m) = NoTool \/ crt = <<>> THEN NoToolchain
       ELSE [linker_path |-> UnixLinker(m), linker_args |-> UnixLinkerArgs(m), extra_libs |-> <<>>,
             lib_dirs |-> dirs, crt_dir |-> crt[1]]
InstallUnix(m, arch) ==
    IF UnixLinker(m) = NoTool THEN NoToolchain
    ELSE [linker_path |-> UnixLinker(m), linker_args |-> UnixLinkerArgs(m), extra_libs |-> <<"c_nonshared", "gcc">>,
          lib_dirs |-> <<"sysroot-" \o arch>>, crt_dir |-> "sysroot-" \o arch]

DetectMacOS(m) ==
    IF ~({"xcodebuild", "xcrun"} \subseteq m.tools) THEN NoToolchain
    ELSE [linker_path |-> "xcode-ld", sysroot_path |-> "macosx-sdk", linker_args |-> <<>>]
InstallMacOS(m) ==
    IF "lld" \notin m.tools THEN NoToolchain
    ELSE [linker_path |-> "lld", sysroot_path |-> "sysroot-macos", linker_args |-> <<"-flavor", "darwin">>]
DetectLinker(m, name) == IF name \in m.tools THEN [linker_path |-> name] ELSE NoToolchain

\* Another machine's system is built for with a sysroot that is downloaded; None where none is.
SysrootOf(m, t) ==
    CASE toolchain_kind(t) = "UNIX" /\ m.host # t -> "sysroot-" \o t.arch
      [] toolchain_kind(t) = "MACOS" /\ m.host.os # t.os -> "sysroot-macos"
      [] OTHER -> None
set_up(m, t) ==
    LET kind == toolchain_kind(t)
    IN CASE kind = "MSVC" -> DetectMsvc(m)
         [] kind = "MINGW" -> DetectMinGW(m)
         [] kind = "UNIX" -> IF m.host = t THEN DetectUnix(m) ELSE InstallUnix(m, t.arch)
         [] kind = "MACOS" -> IF m.host.os = t.os THEN DetectMacOS(m) ELSE InstallMacOS(m)
         [] kind = "EMSCRIPTEN" -> DetectLinker(m, "emcc")
         [] kind = "WASM" -> DetectLinker(m, "wasm-ld")

\* The members of the cache file, and the toolchain that is read from them.
SerializeUnix(t) == [linker_path |-> t.linker_path, linker_args |-> t.linker_args,
                     additional_libraries |-> t.extra_libs, lib_dirs |-> t.lib_dirs, crt_dir |-> t.crt_dir]
DeserializeUnix(o) == [linker_path |-> o.linker_path, linker_args |-> o.linker_args,
                       extra_libs |-> o.additional_libraries, lib_dirs |-> o.lib_dirs, crt_dir |-> o.crt_dir]
SerializeMacOS(t) == [linker_path |-> t.linker_path, sysroot |-> t.sysroot_path, extra_args |-> t.linker_args]
DeserializeMacOS(o) == [linker_path |-> o.linker_path, sysroot_path |-> o.sysroot, linker_args |-> o.extra_args]
SerializeMsvc(t) == [tools |-> t.tools_path, lib |-> t.lib_path]
DeserializeMsvc(o) == [tools_path |-> o.tools, lib_path |-> o.lib]
serialize(kind, t) ==
    CASE kind = "UNIX" -> SerializeUnix(t) [] kind = "MACOS" -> SerializeMacOS(t)
      [] kind = "MSVC" -> SerializeMsvc(t) [] OTHER -> t
deserialize(kind, o) ==
    CASE kind = "UNIX" -> DeserializeUnix(o) [] kind = "MACOS" -> DeserializeMacOS(o)
      [] kind = "MSVC" -> DeserializeMsvc(o) [] OTHER -> o

-----------------------------------------------------------------------------
(***************************************************************************)
(* What the compiler makes of its arguments (append_compilation_args and   *)
(* config_parser.cpp): values, flags and lists, the last value counts.     *)
(***************************************************************************)
\* c is the memory of the command, see below.
append_compilation_args(c) ==
    <<"--type", c.type, "--arch", c.request.target.arch, "--os", c.request.target.os>>
    \o (IF c.request.target.env = None THEN <<>> ELSE <<"--env", c.request.target.env>>)
    \o <<"--opt-level", IF c.request.level # None THEN c.request.level ELSE IF c.request.config = "debug" THEN "0" ELSE "1">>
    \o FlattenSeq([k \in DOMAIN c.sourcePaths |-> <<"--path", c.sourcePaths[k]>>])
    \o c.compilerArgs
CompilerArgs(c) ==
    append_compilation_args(c)
    \o (IF c.request.asm THEN <<"--force-asm">> ELSE <<>>) \o (IF c.request.hot THEN <<"--hot-reload">> ELSE <<>>)

LastIndex(args, option) == LET at == {k \in DOMAIN args : args[k] = option} IN IF at = {} THEN 0 ELSE CHOOSE k \in at : \A j \in at : j <= k
ValueOf(args, option, default) == IF LastIndex(args, option) = 0 THEN default ELSE args[LastIndex(args, option) + 1]
FlagOf(args, option) == option \in Range(args)
create_config(args) ==
    [arch |-> ValueOf(args, "--arch", "x86_64"), os |-> ValueOf(args, "--os", "windows"), env |-> ValueOf(args, "--env", "msvc"),
     level |-> ValueOf(args, "--opt-level", "0"),
     hot |-> FlagOf(args, "--hot-reload"), testing |-> FlagOf(args, "--testing"), asm |-> FlagOf(args, "--force-asm"),
     paths |-> {args[k + 1] : k \in {j \in DOMAIN args : args[j] = "--path"}}]

\* The file the compiler writes (get_output_file_ext): only x86-64 looks at the environment.
OutputFile(config) ==
    CASE config.arch = "x86_64" ->
           IF config.asm THEN (IF config.env = "msvc" THEN "output.asm" ELSE "output.s")
           ELSE IF config.env = "msvc" THEN "output.obj" ELSE "output.o"
      [] config.arch = "aarch64" -> IF config.asm \/ config.os \notin {"linux", "macos"} THEN "output.s" ELSE "output.o"
      [] config.arch = "wasm" -> "output.o"

-----------------------------------------------------------------------------
(***************************************************************************)
(* Manifests (parse_manifest).  A project is the manifest in the current   *)
(* directory, its tests, and the packages that the server has, each with   *)
(* the directories it is made of.                                          *)
(***************************************************************************)
EmptyManifest == [name |-> None, type |-> "executable", args |-> <<>>, linker_args |-> <<>>, libraries |-> <<>>,
                  frameworks |-> <<>>, library_paths |-> <<>>, packages |-> <<>>, targets |-> <<>>, build_script |-> None]
Package(manifest, dirs) == [manifest |-> manifest, dirs |-> dirs]

ManifestTypes == {"executable", "static_library", "shared_library"}
ASSUME ManifestsAssumption ==
    Manifests \subseteq
        [name : STRING, type : ManifestTypes, args : Seq(STRING), linker_args : Seq(STRING), libraries : Seq(STRING),
         frameworks : Seq(STRING), library_paths : Seq(STRING), packages : Seq(STRING),
         targets : Seq([target : list_available, manifest : Manifests]), build_script : STRING]

\* An empty option is an error that is not modelled.
Tokens == {token \in [form : {"word", "long", "letter"}, text : STRING, attached : STRING, parts : Seq(STRING)] :
              token.form = "letter" => token.text # None}
ASSUME HistoriesAssumption ==
    \A h \in Histories :
        /\ h.lines \in Seq(Seq(Tokens))
        /\ h.machine.host \in list_available
        /\ h.project.manifest \in Manifests
        /\ \A n \in DOMAIN h.project.packages : h.project.packages[n].manifest \in Manifests
        /\ \A m \in Manifests : Range(m.packages) \subseteq DOMAIN h.project.packages

(***************************************************************************)
(* The state.  cli is the memory of a command; its field at says what it   *)
(* does next, "exit" when it has ended with code.                          *)
(***************************************************************************)
VARIABLES
    setting,    \* the project and the machine, which do not change
    sources,    \* how often the source files were changed
    cache,      \* the toolchain files
    installed,  \* sysroots, packages and "venv": Absent, Partial or "complete"
    files,      \* the files between compiler, assembler and linker
    out,        \* the linked files
    lines,      \* the commands still to come
    cli,
    faults      \* that happened

vars == <<setting, sources, cache, installed, files, out, lines, cli, faults>>
disk == <<cache, installed, files, out>>

Absent == [absent |-> TRUE]
Partial == [partial |-> TRUE]
Complete == [complete |-> TRUE]
IsWhole(x) == x \notin {Absent, Partial}

Machine == setting.machine
Project == setting.project
NoRequest == [command |-> None, name |-> None, target |-> NoTarget, config |-> None, level |-> None, asm |-> FALSE, hot |-> FALSE]
StartCli(argv, request, at) ==
    [argv |-> argv, request |-> request, at |-> at, code |-> None, since |-> sources,
     toolchain |-> NoToolchain, tasks |-> <<>>, name |-> None, type |-> None,
     compilerArgs |-> IF HasOption(parse[argv], "debug-compiler") THEN <<"--debug">> ELSE <<>>,
     linkerArgs |-> <<>>, libraries |-> <<>>, libraryPaths |-> <<>>, sourcePaths |-> <<>>, frameworks |-> <<>>,
     generated |-> TRUE]
Ended(code) == [cli EXCEPT !.at = "exit", !.code = code]
At(at) == [cli EXCEPT !.at = at]

\* Nothing goes wrong in the last command.
MayFail(fault) == fault \in Faults /\ faults < MaxFaults /\ lines # <<>>
Fails(fault) == MayFail(fault) /\ faults' = faults + 1

Init ==
    /\ \E h \in Histories :
          /\ setting = [project |-> h.project, machine |-> h.machine]
          /\ lines = h.lines
    /\ sources = 0
    /\ cache = [t \in list_available |-> Absent]
    /\ installed = [n \in {"sysroot-x86_64", "sysroot-aarch64", "sysroot-macos", "venv"} \cup DOMAIN setting.project.packages |-> Absent]
    /\ files = [f \in {"output.o", "output.obj", "output.s", "output.asm"} |-> Absent]
    /\ out = <<>>
    /\ cli = [at |-> "exit", code |-> None]
    /\ faults = 0

-----------------------------------------------------------------------------
(* CLI::run.                                                               *)
FirstStep(request) ==
    CASE request.command \in {"build", "run", "test", "lsp", "info", "remove"} -> "cache"
      [] request.command = "format" -> IF request.name \in Project.files THEN "cache" ELSE "refuse"
      [] request.command = "invoke" -> IF request.name \in {"compiler", "assembler", "linker"} THEN "cache" ELSE "refuse"
      [] request.command = "setup" -> "setup"
      [] request.command = "bindgen" -> "venv"
      [] OTHER -> "exit"     \* help, version, list, targets, new

\* The help or the version is printed.
OnlyInforms(p) ==
    \/ p.stop = "help" \/ contains_help_option(p.global)
    \/ \E k \in DOMAIN p.global : p.global[k].name = "version"
Refused(argv, code) == [StartCli(argv, NoRequest, "exit") EXCEPT !.code = code]
Start ==
    /\ cli.at = "exit" /\ lines # <<>>
    /\ \E p \in {parse[Head(lines)]}, request \in {Request(parse[Head(lines)], Machine.host)} :
          cli' = IF p.stop # "error" /\ OnlyInforms(p) THEN Refused(Head(lines), "0")
                 ELSE IF p.stop = "error" \/ ~Valid(request) \/ FirstStep(request) = "refuse" THEN Refused(Head(lines), "1")
                 ELSE [StartCli(Head(lines), request, FirstStep(request))
                       EXCEPT !.code = IF FirstStep(request) = "exit" THEN "0" ELSE None]
    /\ lines' = Tail(lines)
    /\ UNCHANGED <<setting, sources, disk, faults>>

-----------------------------------------------------------------------------
(* load_cached_toolchain, set_up_toolchain, execute_toolchain_remove.      *)
Wanted == cli.request.target
LoadCachedToolchain ==
    /\ cli.at = "cache"
    /\ cli' = IF cache[Wanted] = Absent
              THEN CASE cli.request.command = "info" -> Ended("1") [] cli.request.command = "remove" -> Ended("0")
                     [] OTHER -> At("setup")
              ELSE IF cache[Wanted] = Partial THEN Ended("signal")      \* the result of the JSON parser is not looked at
              ELSE LET loaded == [cli EXCEPT !.toolchain = deserialize(toolchain_kind(Wanted), cache[Wanted])]
                   IN CASE cli.request.command = "info" -> Ended("0")
                        [] cli.request.command = "remove" -> [loaded EXCEPT !.at = "remove sysroot"]
                        [] OTHER -> [loaded EXCEPT !.at = "manifest"]
    /\ UNCHANGED <<setting, sources, disk, lines, faults>>

SetUpIgnoringScript ==   \* mutant: whether the sysroot could be installed is not looked at
    /\ cli.at = "setup"
    /\ LET toolchain == set_up(Machine, Wanted)
           sysroot == SysrootOf(Machine, Wanted)
           ready == [cli EXCEPT !.at = "open cache", !.toolchain = toolchain]
       IN CASE toolchain = NoToolchain -> cli' = Ended("1") /\ UNCHANGED <<installed, faults>>
            [] toolchain # NoToolchain /\ (sysroot = None \/ installed[sysroot] # Absent) -> cli' = ready /\ UNCHANGED <<installed, faults>>
            [] OTHER -> \/ cli' = ready /\ installed' = [installed EXCEPT ![sysroot] = Complete] /\ UNCHANGED faults
                        \/ Fails("script") /\ cli' = ready /\ UNCHANGED installed
                        \/ Fails("partial install") /\ cli' = Ended("1") /\ installed' = [installed EXCEPT ![sysroot] = Partial]
    /\ UNCHANGED <<setting, sources, cache, files, out, lines>>
SetUpToolchain ==
    /\ cli.at = "setup"
    /\ LET toolchain == set_up(Machine, Wanted)
           sysroot == SysrootOf(Machine, Wanted)
           ready == [cli EXCEPT !.at = "open cache", !.toolchain = toolchain]
       IN CASE toolchain = NoToolchain -> cli' = Ended("1") /\ UNCHANGED <<installed, faults>>
            [] toolchain # NoToolchain /\ (sysroot = None \/ installed[sysroot] # Absent) -> cli' = ready /\ UNCHANGED <<installed, faults>>
            [] OTHER -> \/ cli' = ready /\ installed' = [installed EXCEPT ![sysroot] = Complete] /\ UNCHANGED faults
                        \/ Fails("script") /\ cli' = Ended("1") /\ UNCHANGED installed
                        \/ Fails("partial install") /\ cli' = Ended("1") /\ installed' = [installed EXCEPT ![sysroot] = Partial]
    /\ UNCHANGED <<setting, sources, cache, files, out, lines>>

OpenCache ==
    /\ cli.at = "open cache"
    /\ cache' = [cache EXCEPT ![Wanted] = Partial]
    /\ cli' = At("write cache")
    /\ UNCHANGED <<setting, sources, installed, files, out, lines, faults>>
WriteCache ==
    /\ cli.at = "write cache"
    /\ cache' = [cache EXCEPT ![Wanted] = serialize(toolchain_kind(Wanted), cli.toolchain)]
    /\ cli' = IF cli.request.command = "setup" THEN Ended("0") ELSE At("manifest")
    /\ UNCHANGED <<setting, sources, installed, files, out, lines, faults>>

RemoveSysroot ==
    /\ cli.at = "remove sysroot"
    /\ LET kind == toolchain_kind(Wanted)
           sysroot == IF kind = "UNIX" THEN "sysroot-" \o Wanted.arch ELSE "sysroot-macos"
       IN installed' = IF kind \in {"UNIX", "MACOS"} THEN [installed EXCEPT ![sysroot] = Absent] ELSE installed
    /\ cli' = At("remove cache")
    /\ UNCHANGED <<setting, sources, cache, files, out, lines, faults>>
RemoveCache ==
    /\ cli.at = "remove cache"
    /\ cache' = [cache EXCEPT ![Wanted] = Absent]
    /\ cli' = Ended("0")
    /\ UNCHANGED <<setting, sources, installed, files, out, lines, faults>>

-----------------------------------------------------------------------------
(* load_config: the tasks are what the recursion of parse_manifest and     *)
(* load_manifest still has to do.                                          *)
ParseTask(m) == [kind |-> "parse", manifest |-> m]
ManifestTask(m) == [kind |-> "manifest", manifest |-> m]
Task(kind, name) == [kind |-> kind, name |-> name]
RestTasks == Tail(cli.tasks)
IsNext(kind) == cli.at = "tasks" /\ cli.tasks # <<>> /\ Head(cli.tasks).kind = kind

LoadRootManifest ==
    /\ cli.at = "manifest"
    /\ LET m == Project.manifest
       IN cli' = [cli EXCEPT !.at = "tasks", !.name = m.name, !.sourcePaths = <<"src">>,
                             !.tasks = <<ParseTask(m), ManifestTask(m)>>]
    /\ UNCHANGED <<setting, sources, disk, lines, faults>>

\* Parsing already adds the library paths, those of the parts for other
\* targets too.
ParseManifest ==
    /\ IsNext("parse")
    /\ LET m == Head(cli.tasks).manifest
       IN cli' = [cli EXCEPT !.libraryPaths = @ \o m.library_paths,
                             !.tasks = [k \in DOMAIN m.targets |-> ParseTask(m.targets[k].manifest)] \o RestTasks]
    /\ UNCHANGED <<setting, sources, disk, lines, faults>>

\* What a manifest asks for next: its build script, its packages and its
\* parts for a target.
PartsFor(m, t) == FlattenSeq([k \in DOMAIN m.targets |->
                                 IF m.targets[k].target = t THEN <<ManifestTask(m.targets[k].manifest)>> ELSE <<>>])
TasksOf(m, t) == (IF m.build_script = None THEN <<>> ELSE <<Task("script", m.build_script)>>)
                 \o [k \in DOMAIN m.packages |-> Task("package", m.packages[k])]
                 \o PartsFor(m, t)

LoadManifestForHost ==   \* mutant: the parts for the host are loaded
    /\ IsNext("manifest")
    /\ LET m == Head(cli.tasks).manifest
       IN cli' = [cli EXCEPT !.compilerArgs = @ \o m.args, !.linkerArgs = @ \o m.linker_args,
                             !.libraries = @ \o m.libraries, !.frameworks = @ \o m.frameworks,
                             !.tasks = TasksOf(m, Machine.host) \o RestTasks]
    /\ UNCHANGED <<setting, sources, disk, lines, faults>>
LoadManifest ==
    /\ IsNext("manifest")
    /\ LET m == Head(cli.tasks).manifest
       IN cli' = [cli EXCEPT !.compilerArgs = @ \o m.args, !.linkerArgs = @ \o m.linker_args,
                             !.libraries = @ \o m.libraries, !.frameworks = @ \o m.frameworks,
                             !.tasks = TasksOf(m, Wanted) \o RestTasks]
    /\ UNCHANGED <<setting, sources, disk, lines, faults>>

\* The exit code of a build script is not looked at.
RunBuildScript ==
    /\ IsNext("script")
    /\ \/ cli' = [cli EXCEPT !.tasks = RestTasks] /\ UNCHANGED faults
       \/ Fails("build script") /\ cli' = [cli EXCEPT !.tasks = RestTasks, !.generated = FALSE]
    /\ UNCHANGED <<setting, sources, disk, lines>>

InstallPackage ==
    /\ IsNext("package")
    /\ LET name == Head(cli.tasks).name
       IN /\ installed[name] = Absent
          /\ \/ installed' = [installed EXCEPT ![name] = Complete] /\ UNCHANGED <<cli, faults>>
             \/ Fails("script") /\ cli' = Ended("1") /\ UNCHANGED installed
             \/ Fails("partial install") /\ cli' = Ended("1") /\ installed' = [installed EXCEPT ![name] = Partial]
    /\ UNCHANGED <<setting, sources, cache, files, out, lines>>
LoadPackage ==
    /\ IsNext("package")
    /\ LET name == Head(cli.tasks).name
           m == Project.packages[name].manifest
       IN /\ installed[name] # Absent
          /\ cli' = IF installed[name] = Partial THEN Ended("1")      \* no manifest
                    ELSE [cli EXCEPT !.tasks = <<ParseTask(m), ManifestTask(m), Task("paths", name)>> \o RestTasks]
    /\ UNCHANGED <<setting, sources, disk, lines, faults>>

PathOf(name, dir) == "packages/" \o name \o "/" \o dir
to_string(t) == t.arch \o "-" \o t.os \o (IF t.env = None THEN None ELSE "-" \o t.env)
TargetDir(t) == "lib/" \o to_string(t)
AddPackagePaths ==
    /\ IsNext("paths")
    /\ LET name == Head(cli.tasks).name
           Existing(dir) == IF dir \in Project.packages[name].dirs THEN <<PathOf(name, dir)>> ELSE <<>>
       IN cli' = [cli EXCEPT !.sourcePaths = @ \o Existing("src"),
                             !.libraryPaths = @ \o Existing("lib") \o Existing(TargetDir(Wanted)),
                             !.tasks = RestTasks]
    /\ UNCHANGED <<setting, sources, disk, lines, faults>>

ConfigLoaded ==
    /\ cli.at = "tasks" /\ cli.tasks = <<>>
    /\ LET command == cli.request.command
           ready == [cli EXCEPT !.type = Project.manifest.type]
       IN cli' = CASE command = "run" /\ ~is_executable_on_host(Wanted, Machine.host) -> Ended("1")
                   [] command = "test" -> [ready EXCEPT !.at = "compiler", !.type = "executable",
                                                        !.compilerArgs = Append(@, "--testing")]
                   [] command = "invoke" -> [ready EXCEPT !.at = cli.request.name]
                   [] command \in {"lsp", "format"} -> [ready EXCEPT !.at = "delegate"]
                   [] OTHER -> [ready EXCEPT !.at = "compiler"]
    /\ UNCHANGED <<setting, sources, disk, lines, faults>>


-----------------------------------------------------------------------------
(***************************************************************************)
(* The tools.  Each file is written as a whole by a tool that succeeds; a  *)
(* compiler that reports an error writes none, one that is killed leaves a *)
(* part of it, and so may the other tools when they fail.                  *)
(***************************************************************************)
Result == create_config(CompilerArgs(cli))
NextOf(tool) ==   \* invoke runs one of the three, build and test all
    IF cli.request.command = "invoke" THEN Ended("0")
    ELSE CASE tool = "compiler" -> IF cli.request.asm THEN At("assembler") ELSE At("linker")
           [] tool = "assembler" -> At("linker")
           [] tool = "linker" -> CASE cli.request.command = "build" -> Ended("0")
                                   [] cli.request.command = "run" -> At("running")
                                   [] cli.request.command = "test" -> At("testing")

InvokeCompilerAnyCode ==   \* mutant: the exit code is not looked at
    /\ cli.at = "compiler"
    /\ \/ /\ \E config \in {Result} : files' = [files EXCEPT ![OutputFile(config)] = [sources |-> sources, config |-> config]]
          /\ cli' = NextOf("compiler") /\ UNCHANGED faults
       \/ Fails("tool") /\ cli' = NextOf("compiler") /\ UNCHANGED files
       \/ Fails("tool killed") /\ cli' = NextOf("compiler") /\ files' = [files EXCEPT ![OutputFile(Result)] = Partial]
    /\ UNCHANGED <<setting, sources, cache, installed, out, lines>>
InvokeCompiler ==
    /\ cli.at = "compiler"
    /\ \/ /\ \E config \in {Result} : files' = [files EXCEPT ![OutputFile(config)] = [sources |-> sources, config |-> config]]
          /\ cli' = NextOf("compiler") /\ UNCHANGED faults
       \/ Fails("tool") /\ cli' = Ended("1") /\ UNCHANGED files
       \/ Fails("tool killed") /\ cli' = Ended("1") /\ files' = [files EXCEPT ![OutputFile(Result)] = Partial]
    /\ UNCHANGED <<setting, sources, cache, installed, out, lines>>

\* nasm and clang; there is no assembler for WebAssembly.
AssemblyFile == IF Wanted.arch = "x86_64" /\ Wanted.env = "msvc" THEN "output.asm" ELSE "output.s"
AssembledFile == IF Wanted.arch = "x86_64" /\ Wanted.env = "msvc" THEN "output.obj" ELSE "output.o"
InvokeAssembler ==
    /\ cli.at = "assembler" /\ Wanted.arch \in {"x86_64", "aarch64"}
    /\ \/ IF IsWhole(files[AssemblyFile])
          THEN /\ files' = [files EXCEPT ![AssembledFile] = files[AssemblyFile], ![AssemblyFile] = Absent]
               /\ cli' = NextOf("assembler") /\ UNCHANGED faults
          ELSE cli' = Ended("1") /\ UNCHANGED <<files, faults>>
       \/ Fails("tool") /\ cli' = Ended("1") /\ UNCHANGED files
       \/ Fails("tool killed") /\ cli' = Ended("1") /\ files' = [files EXCEPT ![AssembledFile] = Partial]
    /\ UNCHANGED <<setting, sources, cache, installed, out, lines>>
SkipAssembler ==
    /\ cli.at = "assembler" /\ Wanted.arch = "wasm"
    /\ cli' = NextOf("assembler")
    /\ UNCHANGED <<setting, sources, disk, lines, faults>>

\* get_output_path.
FileName(name, type, t, hot) ==
    CASE type = "executable" -> <<name, IF hot THEN "-hot-reloadable" ELSE None, IF t.os = "windows" THEN ".exe" ELSE None>>
      [] type = "static_library" -> <<name, None, IF t.os = "windows" /\ t.env = "msvc" THEN ".lib" ELSE ".a">>
      [] type = "shared_library" -> IF t.os = "windows" THEN <<name, None, ".dll">>
                                    ELSE <<"lib", name, IF t.os = "macos" THEN ".dylib" ELSE ".so">>
get_output_path(c) ==
    LET t == c.request.target
        ext == IF t.arch # "wasm" THEN None ELSE IF t.os = "emscripten" /\ c.type = "executable" THEN ".html" ELSE ".wasm"
    IN <<t, c.request.config>> \o FileName(c.name, c.type, t, c.request.hot) \o <<ext>>

(***************************************************************************)
(* The six linkers: what they read, the flag for a shared library, whether *)
(* the startup files and the frameworks are given, and what comes from the *)
(* toolchain.                                                              *)
(***************************************************************************)
ToolchainLibraries(kind, t) ==
    CASE kind = "MSVC" -> <<"msvcrt", "kernel32", "user32", "gdi32", "shell32", "ws2_32", "dbghelp", "legacy_stdio_definitions">>
      [] kind = "MINGW" -> <<"msvcrt", "kernel32", "user32", "gdi32", "shell32", "ws2_32", "dbghelp">>
      [] kind = "UNIX" -> <<"c", "gcc_s", "m", "dl", "pthread", "c_nonshared">>
                          \o (IF t.arch = "aarch64" THEN <<":ld-linux-aarch64.so.1">> ELSE <<>>) \o cli.toolchain.extra_libs
      [] kind = "MACOS" -> <<"System.B", "objc.A">>
      [] OTHER -> <<>>
ToolchainDirs(kind) ==
    CASE kind = "MSVC" -> <<cli.toolchain.tools_path, cli.toolchain.lib_path>>
      [] kind \in {"UNIX", "MINGW"} -> cli.toolchain.lib_dirs
      [] kind = "MACOS" -> <<cli.toolchain.sysroot_path>>
      [] OTHER -> <<>>
Program(kind) == CASE kind = "MSVC" -> <<"link">> [] kind \in {"UNIX", "MACOS"} -> <<cli.toolchain.linker_path>> \o cli.toolchain.linker_args
                   [] OTHER -> <<cli.toolchain.linker_path>>
SharedFlag(kind) == CASE kind = "MSVC" -> "/DLL" [] kind \in {"UNIX", "MINGW"} -> "-shared" [] kind = "MACOS" -> "-dylib" [] OTHER -> None
LinkedFile(kind) == IF kind = "MSVC" THEN "output.obj" ELSE "output.o"
LinkerCommand(kind) ==
    [program |-> Program(kind), dirs |-> ToolchainDirs(kind), system |-> ToolchainLibraries(kind, Wanted),
     startup |-> IF kind = "UNIX" /\ cli.type = "executable" THEN <<cli.toolchain.crt_dir>> ELSE <<>>,
     shared |-> IF cli.type = "shared_library" THEN SharedFlag(kind) ELSE None,
     paths |-> cli.libraryPaths, libraries |-> cli.libraries, args |-> cli.linkerArgs,
     frameworks |-> IF kind = "MACOS" THEN cli.frameworks ELSE <<>>]

\* A linker takes a whole object file of its system, and finds the sysroot.
LinkerAccepts(kind) ==
    LET object == files[LinkedFile(kind)]
        sysroot == SysrootOf(Machine, Wanted)
    IN /\ IsWhole(object)
       /\ object.config.arch = Wanted.arch /\ object.config.os = Wanted.os
       /\ sysroot = None \/ IsWhole(installed[sysroot])

Written(path, file) == out' = [q \in DOMAIN out \cup {path} |-> IF q = path THEN file ELSE out[q]]
InvokeLinker ==
    /\ cli.at = "linker"
    /\ LET kind == toolchain_kind(Wanted)
           path == get_output_path(cli)
       IN \/ IF LinkerAccepts(kind)
             THEN /\ Written(path, [object |-> files[LinkedFile(kind)], command |-> LinkerCommand(kind)])
                  /\ cli' = At("remove object") /\ UNCHANGED faults
             ELSE cli' = Ended("1") /\ UNCHANGED <<out, faults>>
          \/ Fails("tool") /\ cli' = Ended("1") /\ UNCHANGED out
          \/ Fails("tool killed") /\ cli' = Ended("1") /\ Written(path, Partial)
    /\ UNCHANGED <<setting, sources, cache, installed, files, lines>>
RemoveObject ==
    /\ cli.at = "remove object"
    /\ files' = [files EXCEPT ![LinkedFile(toolchain_kind(Wanted))] = Absent]
    /\ cli' = NextOf("linker")
    /\ UNCHANGED <<setting, sources, cache, installed, out, lines, faults>>

\* run_build or run_hot_reloader; how the program ends does not matter.
RunProgram ==
    /\ cli.at = "running"
    /\ cli' = IF cli.request.hot THEN At("delegate") ELSE Ended("0")
    /\ UNCHANGED <<setting, sources, disk, lines, faults>>

\* The compiler has printed the names of the tests; one may be asked for.
RunTests ==
    /\ cli.at = "testing"
    /\ cli' = IF cli.request.name \in {None} \cup Project.tests THEN Ended("0") ELSE Ended("1")
    /\ UNCHANGED <<setting, sources, disk, lines, faults>>

\* The language server, the formatter and the hot reloader get the arguments
\* of the compiler; only the formatter's exit code is looked at.
Delegated == create_config(append_compilation_args(cli))
Delegate ==
    /\ cli.at = "delegate"
    /\ \/ cli' = Ended("0") /\ UNCHANGED faults
       \/ Fails("tool") /\ cli' = (IF cli.request.command = "format" THEN Ended("1") ELSE Ended("0"))
    /\ UNCHANGED <<setting, sources, disk, lines>>

\* execute_bindgen: whether venv, pip and the script succeed is not looked at.
CreateEnvironment ==
    /\ cli.at = "venv"
    /\ \/ installed' = [installed EXCEPT !["venv"] = IF @ = Absent THEN Complete ELSE @] /\ UNCHANGED faults
       \/ Fails("pip") /\ installed' = [installed EXCEPT !["venv"] = IF @ = Absent THEN Partial ELSE @]
    /\ cli' = At("bindgen")
    /\ UNCHANGED <<setting, sources, cache, files, out, lines>>
RunBindgen ==
    /\ cli.at = "bindgen"
    /\ cli' = [Ended("0") EXCEPT !.generated = IsWhole(installed["venv"])]
    /\ UNCHANGED <<setting, sources, disk, lines, faults>>

-----------------------------------------------------------------------------
(* The user: changes a file at any time, and interrupts a command.         *)
EditSources ==
    /\ sources < MaxEdits
    /\ sources' = sources + 1
    /\ UNCHANGED <<setting, disk, lines, cli, faults>>
Interrupt ==
    /\ cli.at # "exit"
    /\ Fails("interrupt " \o cli.at)
    /\ cli' = Ended("signal")
    /\ UNCHANGED <<setting, sources, disk, lines>>

Step ==
    \/ Start \/ LoadCachedToolchain \/ SetUpToolchain \/ OpenCache \/ WriteCache \/ RemoveSysroot \/ RemoveCache
    \/ LoadRootManifest \/ ParseManifest \/ LoadManifest \/ RunBuildScript \/ InstallPackage \/ LoadPackage \/ AddPackagePaths \/ ConfigLoaded
    \/ InvokeCompiler \/ InvokeAssembler \/ SkipAssembler \/ InvokeLinker \/ RemoveObject \/ RunProgram \/ RunTests
    \/ Delegate \/ CreateEnvironment \/ RunBindgen
Next == Step \/ EditSources \/ Interrupt
Spec == Init /\ [][Next]_vars /\ WF_vars(Step)

-----------------------------------------------------------------------------
(* What a command line asks for, read from its tokens: the word after the  *)
(* last option of that name.                                               *)
Asked(argv, option) ==
    LET at == {k \in DOMAIN argv : argv[k].form = "long" /\ argv[k].text = option}
    IN IF at = {} THEN NoToken ELSE argv[(CHOOSE k \in at : \A j \in at : j <= k) + 1]
AskedTarget == LET t == Asked(cli.argv, "target") IN IF t = NoToken THEN Machine.host ELSE parse_target(t.parts)
HasFlag(argv, option) == \E k \in DOMAIN argv : argv[k].form = "long" /\ argv[k].text = option
AskedLevel ==
    LET level == Asked(cli.argv, "opt-level").text
    IN IF level # None THEN level ELSE IF Asked(cli.argv, "config").text = "release" THEN "1" ELSE "0"

\* The manifests that count for a target: those of the project and of every
\* package that one of them needs, with their parts for the target.
NeededFor(p, t, ms) ==
    /\ p.manifest \in ms
    /\ \A m \in ms :
          /\ \A k \in DOMAIN m.targets : m.targets[k].target = t => m.targets[k].manifest \in ms
          /\ \A n \in Range(m.packages) : p.packages[n].manifest \in ms
Needed == [p \in {h.project : h \in Histories} |-> [t \in list_available |->
              {m \in Manifests : \A ms \in SUBSET Manifests : NeededFor(p, t, ms) => m \in ms}]]
ManifestsFor(t) == Needed[Project][t]
PackagesFor(t) == UNION {Range(m.packages) : m \in ManifestsFor(t)}

Loaded == cli.at \in {"compiler", "assembler", "linker", "remove object", "running", "testing", "delegate"}

(* The tools get what the project and all packages that it needs, directly *)
(* or not, say for the target that was asked for, and a library comes after*)
(* the libraries of each manifest that needs its package, so that a linker *)
(* that goes through them once finds all.  (load_manifest, load_package)   *)
InputsExact ==
    Loaded =>
        LET t == AskedTarget
        IN /\ cli.request.target = t
           /\ Range(cli.libraries) = UNION {Range(m.libraries) : m \in ManifestsFor(t)}
           /\ Range(cli.frameworks) = UNION {Range(m.frameworks) : m \in ManifestsFor(t)}
           /\ Range(cli.linkerArgs) = UNION {Range(m.linker_args) : m \in ManifestsFor(t)}
           /\ Range(cli.libraryPaths) =
                (UNION {Range(m.library_paths) : m \in ManifestsFor(t)})
                \cup UNION {{PathOf(n, d) : d \in Project.packages[n].dirs \cap {"lib", TargetDir(t)}} : n \in PackagesFor(t)}
           /\ \A args \in UNION {Range(m.args) : m \in ManifestsFor(t)} : args \in Range(cli.compilerArgs)
           /\ LET config == Delegated
              IN /\ config.arch = t.arch /\ config.os = t.os /\ config.level = AskedLevel
                 /\ config.paths = {"src"} \cup {PathOf(n, "src") : n \in {p \in PackagesFor(t) : "src" \in Project.packages[p].dirs}}
           /\ \A m \in ManifestsFor(t) : \A n \in Range(m.packages) :
                 \A k \in DOMAIN cli.libraries : cli.libraries[k] \in Range(m.libraries) =>
                     \A l \in Range(Project.packages[n].manifest.libraries) : \E j \in k + 1..Len(cli.libraries) : cli.libraries[j] = l

\* Nobody gives the options of the tool itself as additional ones of the
\* compiler, builds a shared library for WebAssembly, which its linkers do not
\* know, or goes on after a build script that failed.
OwnOptions == {"--type", "--arch", "--os", "--env", "--opt-level", "--path", "--force-asm", "--hot-reload", "--testing"}
PlainHistories ==
    /\ "build script" \notin Faults
    /\ \A m \in Manifests : Range(m.args) \cap OwnOptions = {}
    /\ \A h \in Histories :
          /\ \A n \in DOMAIN h.project.packages : PathOf(n, "src") \notin OwnOptions
          /\ h.project.manifest.type = "shared_library" =>
                \A argv \in Range(h.lines) : Request(parse[argv], h.machine.host).target.arch # "wasm"

\* Nobody names a library in two manifests that need different packages, or
\* builds for a target when a part for another one, which is parsed too, has
\* library paths or parts of its own.
PlainManifests ==
    /\ \A m, q \in Manifests : Range(m.libraries) \cap Range(q.libraries) # {} => Range(m.packages) = Range(q.packages)
    /\ \A h \in Histories : \A argv \in Range(h.lines) : \A m \in Manifests : \A k \in DOMAIN m.targets :
          \/ m.targets[k].target = Request(parse[argv], h.machine.host).target
          \/ m.targets[k].manifest.library_paths = <<>> /\ m.targets[k].manifest.targets = <<>>

(* A command that has built a program leaves, at the path it then runs,    *)
(* what the linker made of the sources as they were when the command       *)
(* started or later, for the target and the level asked for, with the      *)
(* toolchain of the machine - never what an earlier command left there or  *)
(* in the object file.  (build, invoke_compiler, invoke_linker)            *)
Built == \/ cli.at \in {"running", "testing"}
         \/ cli.code = "0" /\ cli.request.command \in {"build", "run", "test"}
LinkedCurrent ==
    Built =>
        LET t == AskedTarget
            path == get_output_path(cli)
            program == out[path]
            config == program.object.config
        IN /\ path \in DOMAIN out /\ program # Partial
           /\ program.object.sources >= cli.since
           /\ config.arch = t.arch /\ config.os = t.os /\ config.level = AskedLevel
           /\ config.hot <=> HasFlag(cli.argv, "hot-reload")
           /\ config.testing <=> cli.request.command = "test"
           /\ cli.toolchain = set_up(Machine, t)
           /\ cli.type = "shared_library" => program.command.shared # None
           /\ cli.generated

(* Whatever failed or was interrupted before, commands that nothing        *)
(* happens to work again: no file that was left behind stands in the way.  *)
(* (set_up_toolchain, install_package, invoke_compiler)                    *)
Recovers == <>(lines = <<>> /\ cli.at = "exit" /\ cli.code = "0")
=============================================================================
