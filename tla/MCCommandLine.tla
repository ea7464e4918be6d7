--------------------------- MODULE MCCommandLine ----------------------------
(***************************************************************************)
(* The command line tool on three machines, and what happens between it    *)
(* and a tool that it starts.  A behaviour is a history of commands, or    *)
(* one tool and its pipes; the other part is at rest.                      *)
(***************************************************************************)
EXTENDS CommandLine, ProcessPipes

CONSTANTS Defects    \* known defects of the pipes whose tools are left in: "full_pipes", "reads_stdin"

Linux == Target("x86_64", "linux", "gnu")
LinuxArm == Target("aarch64", "linux", "gnu")
Windows == Target("x86_64", "windows", "msvc")
MinGW == Target("x86_64", "windows", "gnu")
MacOS == Target("aarch64", "macos", "")
Wasm == Target("wasm", "unknown", "")
Emscripten == Target("wasm", "emscripten", "")

Token(form, text, attached, parts) == [form |-> form, text |-> text, attached |-> attached, parts |-> parts]
Word(text) == Token("word", text, "", <<text>>)
Long(name) == Token("long", name, "", <<>>)
Letter(l, attached) == Token("letter", l, attached, <<>>)
To(t) == <<Long("target"), Token("word", "target", "", <<t.arch, t.os>> \o (IF t.env = "" THEN <<>> ELSE <<t.env>>))>>

-----------------------------------------------------------------------------
Bare == [tools |-> {}, searched |-> [x \in {} |-> <<>>], existing |-> {}, crt |-> {}, msvc |-> {}, sdk |-> {}, studio |-> {}]
LinuxMachine ==
    [Bare EXCEPT !.tools = {"ld", "lld", "gcc", "mingw-ld", "mingw-gcc", "wasm-ld", "emcc"},
                 !.searched = ("gcc" :> <<"gcc", "lib64", "gone", "gcc", "lib">>) @@ ("mingw-gcc" :> <<"mingw", "gone">>),
                 !.existing = {"gcc", "lib64", "lib", "mingw"}, !.crt = {"lib64", "lib"}] @@ [host |-> Linux]
WindowsMachine ==
    [Bare EXCEPT !.tools = {"vswhere", "mingw-ld", "mingw-gcc", "wasm-ld"}, !.studio = {"build tools"},
                 !.msvc = {<<14, 9, 300>>, <<14, 38, 1>>, <<15, 1>>}, !.sdk = {<<10, 0, 9, 0>>, <<10, 0, 22, 0>>},
                 !.searched = "mingw-gcc" :> <<"mingw", "gone">>, !.existing = {"mingw"}] @@ [host |-> Windows]
MacMachine == [Bare EXCEPT !.tools = {"xcodebuild", "xcrun", "lld"}] @@ [host |-> MacOS]

\* A window library that needs a graphics library, both for several systems.
Part(t, manifest) == [target |-> t, manifest |-> manifest]
OnMacOS == [EmptyManifest EXCEPT !.frameworks = <<"Cocoa">>]
OnWindows == [EmptyManifest EXCEPT !.libraries = <<"user">>]
Window == Package([EmptyManifest EXCEPT !.libraries = <<"window">>, !.packages = <<"graphics">>,
                                        !.targets = <<Part(MacOS, OnMacOS), Part(Windows, OnWindows)>>],
                  {"src", "lib", TargetDir(Linux), TargetDir(Windows)})
Graphics == Package([EmptyManifest EXCEPT !.libraries = <<"graphics">>, !.library_paths = <<"opt/graphics">>,
                                          !.args = <<"--pic">>],
                    {"src", TargetDir(MacOS)})
Sockets == Package([EmptyManifest EXCEPT !.libraries = <<"sockets">>, !.linker_args = <<"--gc">>], {"lib"})
OnLinux == [EmptyManifest EXCEPT !.packages = <<"sockets">>, !.linker_args = <<"--static">>]
OnLinuxArm == [EmptyManifest EXCEPT !.build_script = "arm.py"]
Application ==
    [manifest |-> [EmptyManifest EXCEPT
                     !.name = "app", !.libraries = <<"zlib">>, !.packages = <<"window", "graphics">>,
                     !.targets = <<Part(Linux, OnLinux), Part(LinuxArm, OnLinuxArm)>>,
                     !.build_script = "generate.py"],
     packages |-> ("window" :> Window) @@ ("graphics" :> Graphics) @@ ("sockets" :> Sockets),
     tests |-> {"test1"}, files |-> {"main"}]
Library == [Application EXCEPT !.manifest = [EmptyManifest EXCEPT !.name = "lib", !.type = "shared_library", !.packages = <<"graphics">>]]
MCManifests == {Application.manifest, OnLinux, OnLinuxArm, Library.manifest, Window.manifest, OnMacOS, OnWindows,
                Graphics.manifest, Sockets.manifest}

-----------------------------------------------------------------------------
Build == <<Word("build")>>
Run == <<Word("run")>>
Quiet == <<Letter("q", ""), Word("build"), Long("verbose"), Long("config"), Word("debug"), Long("config"), Word("release")>>

\* Commands that succeed when nothing goes wrong.
Lasting(m, p) ==
    {Build, Run, Quiet, <<Word("test"), Word("test1")>>, Run \o <<Long("hot-reload"), Long("opt-level"), Word("2")>>,
     <<Word("lsp")>>}
    \cup (CASE m.host = Linux -> {Build \o To(LinuxArm), Build \o To(MinGW), Build \o To(MacOS)}
                                 \cup (IF p = Library THEN {} ELSE {Build \o To(Wasm), <<Word("build"), Long("force-asm")>> \o To(Emscripten)})
            [] m.host = Windows -> {Run \o To(MinGW)}
            [] OTHER -> {<<Word("build"), Long("force-asm")>>})
Passing ==
    {<<>>, <<Long("version")>>, <<Word("help")>>, <<Word("targets")>>, <<Word("test"), Word("missing")>>,
     <<Word("build"), Long("force-asm")>>, <<Word("build"), Long("target"), Long("config"), Word("release")>>,
     <<Word("build"), Long("target")>>, <<Word("build"), Word("extra")>>, <<Word("run"), Letter("x", "")>>,
     <<Word("build"), Letter("q", "on")>>, <<Word("build"), Letter("h", "")>>, <<Word("unknown")>>, <<Long("quiet"), Letter("h", ""), Word("run")>>,
     <<Word("build"), Long("opt-level"), Word("3")>>, <<Word("build"), Long("target"), Token("word", "target", "", <<"x86_64">>)>>,
     Run \o To(LinuxArm), <<Word("invoke"), Word("compiler")>>, <<Word("invoke"), Long("force-asm"), Word("assembler")>>,
     <<Word("invoke"), Word("linker")>>, <<Word("invoke"), Word("editor")>>, <<Word("invoke")>>,
     <<Word("format"), Word("main")>>, <<Word("format"), Word("none")>>,
     <<Word("bindgen"), Letter("I", "include"), Letter("g", ""), Word("script"), Word("header")>>,
     <<Word("toolchain")>>, <<Word("toolchain"), Long("quiet"), Word("list")>>, <<Word("toolchain"), Word("info")>>,
     <<Word("toolchain"), Word("setup"), To(LinuxArm)[2]>>, <<Word("toolchain"), Word("remove"), To(LinuxArm)[2]>>,
     <<Word("toolchain"), Word("remove"), To(MacOS)[2]>>, <<Word("toolchain"), Word("remove")>>}

Plain(m, p) == [project |-> p, machine |-> m, lines |-> <<>>]
Cases == {Plain(m, p) : m \in {LinuxMachine, WindowsMachine, MacMachine}, p \in {Application, Library}}
MCHistories ==
    UNION {{[c EXCEPT !.lines = <<a, b>>] : a, b \in Lasting(c.machine, c.project)} : c \in Cases}
    \cup UNION {{[c EXCEPT !.lines = <<a, b>>] : a \in Passing, b \in {Build, Quiet}} : c \in Cases}
    \cup {[Plain(LinuxMachine, Application) EXCEPT !.lines = <<Build \o To(t), <<Word("toolchain"), Word(w), To(t)[2]>>, Build \o To(t)>>] :
            t \in {LinuxArm, MacOS, Wasm}, w \in {"setup", "remove", "info"}}
    \cup {[Plain(LinuxMachine, Application) EXCEPT !.lines = <<<<Word("invoke"), Word("compiler")>>, b, Run>>] :
            b \in Lasting(LinuxMachine, Application)}

-----------------------------------------------------------------------------
Programs == UNION {[1..n -> {"stdout", "stderr", "stdin"}] : n \in 0..4}
Count(program, s) == Cardinality({k \in DOMAIN program : program[k] = s})
\* What the pipes cannot take while the other one is read; input that never ends.
FillsPipe(platform, piped, program) ==
    /\ platform = "unix" /\ {"stdout", "stderr"} \subseteq piped
    /\ \E s \in {"stdout", "stderr"} : Count(program, s) > PipeSize
ReadsPipe(piped, program) == "stdin" \in piped /\ Count(program, "stdin") > 0
MCTools ==
    {t \in [platform : {"unix", "windows"}, piped : SUBSET {"stdin", "stdout", "stderr"}, program : Programs, ends : {"0", "1", "signal"}] :
        /\ t.platform = "windows" => t.ends # "signal"
        /\ "full_pipes" \in Defects \/ ~FillsPipe(t.platform, t.piped, t.program)
        /\ "reads_stdin" \in Defects \/ ~ReadsPipe(t.piped, t.program)}

ToolAtRest ==
    /\ tool = [platform |-> "unix", piped |-> {}, program |-> <<>>, ends |-> "0"]
    /\ parent = "done" /\ child = "reaped" /\ at = 1
    /\ held = [p \in {"parent", "child"} |-> {}]
    /\ blocks = [s \in Streams |-> 0]
    /\ polled = {} /\ revents = [s \in Outputs |-> {}] /\ reading = {}
    /\ buffer = [s \in Outputs |-> 0] /\ exit_code = "0"
CommandLineAtRest ==
    /\ setting = [project |-> Library, machine |-> LinuxMachine]
    /\ sources = MaxEdits /\ lines = <<>> /\ faults = 0
    /\ cache = <<>> /\ installed = <<>> /\ files = <<>> /\ out = <<>>
    /\ cli = [at |-> "exit", code |-> "0", request |-> NoRequest]

MCInit == (Init /\ ToolAtRest) \/ (InitPipes /\ CommandLineAtRest)
MCNext ==
    \/ Start /\ UNCHANGED pipes
    \/ LoadCachedToolchain /\ UNCHANGED pipes
    \/ SetUpToolchain /\ UNCHANGED pipes
    \/ OpenCache /\ UNCHANGED pipes
    \/ WriteCache /\ UNCHANGED pipes
    \/ RemoveSysroot /\ UNCHANGED pipes
    \/ RemoveCache /\ UNCHANGED pipes
    \/ LoadRootManifest /\ UNCHANGED pipes
    \/ ParseManifest /\ UNCHANGED pipes
    \/ LoadManifest /\ UNCHANGED pipes
    \/ RunBuildScript /\ UNCHANGED pipes
    \/ InstallPackage /\ UNCHANGED pipes
    \/ LoadPackage /\ UNCHANGED pipes
    \/ AddPackagePaths /\ UNCHANGED pipes
    \/ ConfigLoaded /\ UNCHANGED pipes
    \/ InvokeCompiler /\ UNCHANGED pipes
    \/ InvokeAssembler /\ UNCHANGED pipes
    \/ SkipAssembler /\ UNCHANGED pipes
    \/ InvokeLinker /\ UNCHANGED pipes
    \/ RemoveObject /\ UNCHANGED pipes
    \/ RunProgram /\ UNCHANGED pipes
    \/ RunTests /\ UNCHANGED pipes
    \/ Delegate /\ UNCHANGED pipes
    \/ CreateEnvironment /\ UNCHANGED pipes
    \/ RunBindgen /\ UNCHANGED pipes
    \/ EditSources /\ UNCHANGED pipes
    \/ Interrupt /\ UNCHANGED pipes
    \/ ToolStep /\ UNCHANGED vars
    \/ ParentStep /\ UNCHANGED vars
    \/ ReaderStep("stdout") /\ UNCHANGED vars
    \/ ReaderStep("stderr") /\ UNCHANGED vars
all == <<vars, pipes>>
ASSUME PlainHistoriesHold == PlainHistories /\ PlainManifests
MCSpec == MCInit /\ [][MCNext]_all /\ WF_vars(Step /\ UNCHANGED pipes) /\ Fairness
=============================================================================
