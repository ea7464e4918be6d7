---------------------------- MODULE LspWorkspace -----------------------------
(***************************************************************************)
(* The workspace of the language server (src/src/banjo-lsp/workspace.cpp): *)
(* the modules of a project, their symbols, and an index that answers "go  *)
(* to definition", "find references" and "rename".  An edit of a module    *)
(* analyzes it and the modules that depend on it again and replaces their  *)
(* part of the index; the dependents are known from the index itself.      *)
(*                                                                         *)
(* A text is reduced to the names it defines, the names it imports with    *)
(* `use from.name`, the names its functions refer to and whether it has a  *)
(* syntax error.  Names are resolved by the UseResolver, which follows an  *)
(* import of an import into the other module.                              *)
(***************************************************************************)
EXTENDS Integers, FiniteSets, SequencesExt

CONSTANTS
    Modules,    \* the modules of the project
    Names,      \* names of declarations
    TextsOf(_), \* the texts a module may have
    MaxEdits    \* bound: number of edits

\* A name is declared once or imported once in a text: SymbolCollector reports
\* anything else as a redefinition.
IsText(text) ==
    /\ text.defs \in Seq(Names) /\ IsInjective(text.defs)
    /\ DOMAIN text.uses \subseteq Names \ ToSet(text.defs)
    /\ \A n \in DOMAIN text.uses : text.uses[n] \in Modules
    /\ text.calls \subseteq Names
    /\ text.broken \in BOOLEAN

ASSUME WorkspaceAssumption ==
    /\ IsFiniteSet(Modules) /\ "none" \notin Modules
    /\ Names \cap {"module", "none", "unresolved"} = {}
    /\ \A m \in Modules : \A text \in TextsOf(m) : IsText(text)

VARIABLES
    pc,         \* where the server is
    content,    \* the text of every module
    edits,      \* number of edits so far
    gen,        \* how often the SIR of a module was generated
    bound,      \* what the imports of a module are bound to
    set,        \* paths_to_analyze
    visit,      \* modules whose dependents are still to be collected
    order,      \* mods_to_analyze without those whose imports are resolved
    items,      \* item_stack: the imports that are being resolved
    recorded,   \* extra_analysis.symbol_uses
    reports,    \* report_manager
    index,      \* index.mods
    symbolDefs, \* symbol_defs
    published,  \* the diagnostics the editor shows
    remote      \* history: whether an import of one module was ever resolved
                \* in the course of another one

vars == <<pc, content, edits, gen, bound, set, visit, order, items, recorded, reports, index,
          symbolDefs, published, remote>>

-----------------------------------------------------------------------------
(* Identifiers in the texts, symbols of the SIR and the index.             *)

Ident(m, kind, n) == [mod |-> m, kind |-> kind, name |-> n]
Report(what, at) == [what |-> what, at |-> at]
SyntaxError(m) == Report("syntax", Ident(m, "text", "none"))

Symbol(m, g, n) == [mod |-> m, gen |-> g, name |-> n]
ModSymbol(m) == Symbol(m, 0, "module")
NoSymbol == Symbol("none", 0, "none")
Unresolved == Symbol("none", 0, "unresolved")

Place(m, line) == [mod |-> m, line |-> line]
Nowhere == Place("none", 0)

Defines(m, n) == \E i \in DOMAIN content[m].defs : content[m].defs[i] = n
Imports(m, n) == n \in DOMAIN content[m].uses
Line(m, n) == CHOOSE i \in DOMAIN content[m].defs : content[m].defs[i] = n

NoIndex == [exists |-> FALSE, defs |-> <<>>, uses |-> {}, reports |-> {}, dependents |-> {}]

TypeOK ==
    /\ pc \in {"start", "idle", "collect", "generate", "resolve", "bodies", "index", "publish"}
    /\ \A m \in Modules : content[m] \in TextsOf(m)
    /\ edits \in 0..MaxEdits
    /\ \A m \in Modules : gen[m] \in 0..(1 + edits)
    /\ \A m \in Modules : DOMAIN bound[m] \subseteq Names
    /\ set \subseteq Modules /\ visit \subseteq set
    /\ ToSet(order) \subseteq set /\ IsInjective(order)
    /\ ToSet(items) \subseteq Modules \X Names /\ IsInjective(items)
    /\ \A m \in Modules : index[m].dependents \subseteq Modules
    /\ pc # "resolve" => items = <<>> /\ order = <<>>

Init ==
    /\ pc = "start"
    /\ content \in {c \in [Modules -> UNION {TextsOf(m) : m \in Modules}] :
                        \A m \in Modules : c[m] \in TextsOf(m)}
    /\ edits = 0
    /\ gen = [m \in Modules |-> 0]
    /\ bound = [m \in Modules |-> << >>]
    /\ set = {} /\ visit = {} /\ order = <<>> /\ items = <<>>
    /\ recorded = [m \in Modules |-> {}]
    /\ reports = {}
    /\ index = [m \in Modules |-> NoIndex]
    /\ symbolDefs = << >>
    /\ published = [m \in Modules |-> {}]
    /\ remote = FALSE

-----------------------------------------------------------------------------
(* The notifications.                                                      *)

\* Workspace::initialize reads and parses all modules.
Initialize ==
    /\ pc = "start"
    /\ pc' = "generate"
    /\ set' = Modules
    /\ reports' = {SyntaxError(m) : m \in {k \in Modules : content[k].broken}}
    /\ UNCHANGED <<content, edits, gen, bound, visit, order, items, recorded, index,
                   symbolDefs, published, remote>>

\* As DidChange below, but the old reports are kept.
DidChangeUnreset(m, text) ==
    /\ pc = "idle" /\ edits < MaxEdits
    /\ edits' = edits + 1
    /\ content' = [content EXCEPT ![m] = text]
    /\ reports' = reports \union IF text.broken THEN {SyntaxError(m)} ELSE {}
    /\ set' = {m} /\ visit' = {m}
    /\ pc' = "collect"
    /\ UNCHANGED <<gen, bound, order, items, recorded, index, symbolDefs, published, remote>>

\* Workspace::update, up to the collection of the dependents.  Only the edited
\* module is parsed again.
DidChange(m, text) ==
    /\ pc = "idle" /\ edits < MaxEdits
    /\ edits' = edits + 1
    /\ content' = [content EXCEPT ![m] = text]
    /\ reports' = IF text.broken THEN {SyntaxError(m)} ELSE {}
    /\ set' = {m} /\ visit' = {m}
    /\ pc' = "collect"
    /\ UNCHANGED <<gen, bound, order, items, recorded, index, symbolDefs, published, remote>>

-----------------------------------------------------------------------------
(* Workspace::update and SemanticAnalyzer::analyze.                        *)

\* As CollectDependents below, but with one thing missing each: the insertion of
\* the dependents, the test for those that are there already, the recursion.
CollectForgotten ==
    /\ pc = "collect"
    /\ \E m \in visit : visit' = (visit \ {m}) \union (index[m].dependents \ set)
    /\ pc' = IF visit' = {} THEN "generate" ELSE "collect"
    /\ UNCHANGED <<content, edits, gen, bound, set, order, items, recorded, reports,
                   index, symbolDefs, published, remote>>
CollectAgain ==
    /\ pc = "collect"
    /\ \E m \in visit :
        /\ visit' = (visit \ {m}) \union index[m].dependents
        /\ set' = set \union index[m].dependents
    /\ pc' = IF visit' = {} THEN "generate" ELSE "collect"
    /\ UNCHANGED <<content, edits, gen, bound, order, items, recorded, reports, index,
                   symbolDefs, published, remote>>
CollectDirect ==
    /\ pc = "collect"
    /\ visit' = {}
    /\ set' = set \union UNION {index[m].dependents : m \in set}
    /\ pc' = "generate"
    /\ UNCHANGED <<content, edits, gen, bound, order, items, recorded, reports, index,
                   symbolDefs, published, remote>>

\* collect_dependents of one module, with the calls that are left in visit.
CollectDependents ==
    /\ pc = "collect"
    /\ \E m \in visit :
        /\ visit' = (visit \ {m}) \union (index[m].dependents \ set)
        /\ set' = set \union index[m].dependents
    /\ pc' = IF visit' = {} THEN "generate" ELSE "collect"
    /\ UNCHANGED <<content, edits, gen, bound, order, items, recorded, reports, index,
                   symbolDefs, published, remote>>

\* New SIR for the modules of the set, whose names are collected.  The order of
\* the modules is that of the directory or of a hash table.
Generate ==
    /\ pc = "generate"
    /\ gen' = [m \in Modules |-> IF m \in set THEN gen[m] + 1 ELSE gen[m]]
    /\ bound' = [m \in Modules |->
                    IF m \in set THEN [n \in DOMAIN content[m].uses |-> Unresolved] ELSE bound[m]]
    /\ order' \in SetToSeqs(set)
    /\ pc' = "resolve"
    /\ UNCHANGED <<content, edits, set, visit, items, recorded, reports, index,
                   symbolDefs, published, remote>>

\* UseResolver::resolve: the next import of the module at hand, the next module,
\* or the end.
Used(m, at, symbol) == [recorded EXCEPT ![m] = @ \union {[at |-> at, symbol |-> symbol]}]

\* resolve_use_ident of the import of n in m: the module it is taken from is
\* recorded as used, by the module at hand.
Enter(m, n) ==
    /\ items' = Append(items, <<m, n>>)
    /\ recorded' = Used(Head(order), Ident(m, "from", n), ModSymbol(content[m].uses[n]))

NextImport ==
    /\ pc = "resolve" /\ items = <<>> /\ order # <<>>
    /\ \E n \in DOMAIN bound[Head(order)] :
        /\ bound[Head(order)][n] = Unresolved
        /\ Enter(Head(order), n)
    /\ UNCHANGED <<pc, content, edits, gen, bound, set, visit, order, reports, index,
                   symbolDefs, published, remote>>

NextModule ==
    /\ pc = "resolve" /\ items = <<>>
    /\ order # <<>> => \A n \in DOMAIN bound[Head(order)] : bound[Head(order)][n] # Unresolved
    /\ IF order = <<>> THEN pc' = "bodies" /\ UNCHANGED order
       ELSE order' = Tail(order) /\ UNCHANGED pc
    /\ UNCHANGED <<content, edits, gen, bound, set, visit, items, recorded, reports,
                   index, symbolDefs, published, remote>>

\* The innermost import is bound to a symbol, and `mentioned` is recorded.
Bind(m, n, symbol, mentioned) ==
    /\ bound' = [bound EXCEPT ![m][n] = symbol]
    /\ recorded' = Used(Head(order), Ident(m, "use", n), mentioned)
    /\ items' = Front(items)

\* resolve_symbol: the name is a declaration of the other module, or one of its
\* imports, which is resolved first, or unknown.
ResolveImport ==
    /\ pc = "resolve" /\ items # <<>>
    /\ LET m    == Last(items)[1]
           n    == Last(items)[2]
           from == content[m].uses[n]
       IN \/ /\ Defines(from, n)
             /\ LET symbol == Symbol(from, gen[from], n) IN Bind(m, n, symbol, symbol)
             /\ UNCHANGED <<reports, remote>>
          \/ /\ Imports(from, n) /\ bound[from][n] # Unresolved
             /\ Bind(m, n, bound[from][n], bound[from][n])
             /\ UNCHANGED <<reports, remote>>
          \/ /\ Imports(from, n) /\ bound[from][n] = Unresolved
             /\ remote' = TRUE
             /\ IF <<from, n>> \in ToSet(items)
                THEN /\ reports' = reports \union {Report("cycle", Ident(from, "use", n))}
                     /\ Bind(m, n, NoSymbol, NoSymbol)
                ELSE Enter(from, n) /\ UNCHANGED <<bound, reports>>
          \/ /\ ~Defines(from, n) /\ ~Imports(from, n)
             /\ reports' = reports \union {Report("unknown", Ident(m, "use", n))}
             /\ Bind(m, n, NoSymbol, ModSymbol(from))
             /\ UNCHANGED remote
    /\ UNCHANGED <<pc, content, edits, gen, set, visit, order, index, symbolDefs, published>>

\* The bodies of all functions: what a name refers to.
LookUp(m, n) ==
    IF Defines(m, n) THEN Symbol(m, gen[m], n)
    ELSE IF Imports(m, n) THEN bound[m][n] ELSE NoSymbol

AnalyzeBodies ==
    /\ pc = "bodies"
    /\ LET Unknown(m) == {n \in content[m].calls : LookUp(m, n) = NoSymbol}
       IN /\ recorded' = [m \in Modules |->
                IF m \in set
                THEN recorded[m] \union {[at |-> Ident(m, "call", n), symbol |-> LookUp(m, n)] :
                                        n \in content[m].calls \ Unknown(m)}
                ELSE recorded[m]]
          /\ reports' = reports \union
                UNION {{Report("unknown", Ident(m, "call", n)) : n \in Unknown(m)} : m \in set}
    /\ pc' = "index"
    /\ UNCHANGED <<content, edits, gen, bound, set, visit, order, items, index,
                   symbolDefs, published, remote>>

-----------------------------------------------------------------------------
(* Workspace::build_index and publish_diagnostics.                         *)

\* The definitions of a module, in the order in which the index lists them.
DefsOf(m) == [i \in DOMAIN content[m].defs |->
    [at |-> Ident(m, "def", content[m].defs[i]),
     symbol |-> Symbol(m, gen[m], content[m].defs[i]),
     place |-> Place(m, i)]]

\* Where the definitions of the modules of the set are in the index.
Keys ==
    LET defined == {p \in set \X Names : Defines(p[1], p[2])}
    IN [s \in {Symbol(p[1], gen[p[1]], p[2]) : p \in defined} |-> [mod |-> s.mod, pos |-> Line(s.mod, s.name)]]

\* The place a symbol is defined at, through its key.  An old key may lead to
\* another definition, or to none.
Definition(symbol, defs, keys) ==
    IF symbol.name = "module" THEN Place(symbol.mod, 0)
    ELSE IF symbol \in DOMAIN keys /\ keys[symbol].pos \in DOMAIN defs[keys[symbol].mod]
         THEN defs[keys[symbol].mod][keys[symbol].pos].place
         ELSE Nowhere

\* Without the part of the modules that are analyzed again.
Erased == [m \in Modules |-> IF m \in set THEN NoIndex ELSE index[m]]

BuildIndex ==
    /\ pc = "index"
    /\ symbolDefs' = [s \in DOMAIN Keys \union DOMAIN symbolDefs |->
                        IF s \in DOMAIN Keys THEN Keys[s] ELSE symbolDefs[s]]
    /\ LET defs == [m \in Modules |-> IF m \in set THEN DefsOf(m) ELSE Erased[m].defs]
           newUses(m) == {[at |-> u.at, symbol |-> u.symbol,
                           place |-> Definition(u.symbol, defs, symbolDefs')] : u \in recorded[m]}
           newReports(m) == {r \in reports : r.at.mod = m}
           newDependents(m) == {k \in Modules : \E u \in newUses(k) :
                                   \/ u.symbol = ModSymbol(m)
                                   \/ u.symbol \in DOMAIN symbolDefs' /\ symbolDefs'[u.symbol].mod = m}
       IN index' = [m \in Modules |->
             [exists |-> \/ Erased[m].exists \/ defs[m] # <<>> \/ recorded[m] # {}
                         \/ newReports(m) # {} \/ newDependents(m) # {},
              defs |-> defs[m],
              uses |-> Erased[m].uses \union newUses(m),
              reports |-> Erased[m].reports \union newReports(m),
              dependents |-> Erased[m].dependents \union newDependents(m)]]
    /\ pc' = "publish"
    /\ UNCHANGED <<content, edits, gen, bound, set, visit, order, items, recorded,
                   reports, published, remote>>

\* What was published before stays in the editor.
Publish ==
    /\ pc = "publish"
    /\ published' = [m \in Modules |->
                        IF m \in set /\ index[m].exists THEN index[m].reports ELSE published[m]]
    /\ pc' = "idle"
    /\ set' = {} /\ recorded' = [m \in Modules |-> {}]
    /\ UNCHANGED <<content, edits, gen, bound, visit, order, items, reports, index, symbolDefs, remote>>

Analyze ==
    \/ CollectDependents \/ Generate \/ NextImport \/ NextModule \/ ResolveImport
    \/ AnalyzeBodies \/ BuildIndex \/ Publish

Next == Initialize \/ Analyze \/ \E m \in Modules : \E text \in TextsOf(m) : DidChange(m, text)

\* The server goes on with a message it has begun.
Spec == Init /\ [][Next]_vars /\ WF_vars(Initialize \/ Analyze)

-----------------------------------------------------------------------------
(* Properties: after every edit the server answers like one that has just  *)
(* been started on the texts as they are, as long as no import of a module *)
(* was resolved in the course of another one.                              *)

Answered == pc = "idle" /\ ~remote

\* The module in which the name n of module m is declared, found by following
\* the imports, or "none".
Origin(m, n) ==
    LET follow[k \in 0..Cardinality(Modules)] ==
            [o \in Modules |->
                IF Defines(o, n) THEN o
                ELSE IF Imports(o, n) /\ k > 0 THEN follow[k - 1][content[o].uses[n]]
                ELSE "none"]
    IN follow[Cardinality(Modules)][m]

Declared(m, n) == LET o == Origin(m, n) IN IF o = "none" THEN Nowhere ELSE Place(o, Line(o, n))
Known(m, n) == Defines(m, n) \/ Imports(m, n)

\* "Go to definition" leads every identifier to where its name is declared, and
\* an import of a name that does not exist to the module (workspace.cpp:160-199,
\* DefinitionHandler::handle).
Answers(m) == {<<r.at, r.place>> : r \in {r \in ToSet(index[m].defs) \union index[m].uses : r.place # Nowhere}}
Expected(m) ==
    LET text == content[m]
        all  == {<<Ident(m, "def", n), Place(m, Line(m, n))>> : n \in ToSet(text.defs)}
                \union {<<Ident(m, "call", n), Declared(m, n)>> : n \in text.calls}
                \union {<<Ident(m, "from", n), Place(text.uses[n], 0)>> : n \in DOMAIN text.uses}
                \union {<<Ident(m, "use", n),
                          IF Known(text.uses[n], n) THEN Declared(m, n) ELSE Place(text.uses[n], 0)>> :
                          n \in DOMAIN text.uses}
    IN {answer \in all : answer[2] # Nowhere}
DefinitionsFresh == Answered => \A m \in Modules : Answers(m) = Expected(m)

\* No part of the index is about a declaration of an older text: "find
\* references" and "rename" compare symbols (ReferencesHandler::handle), so an
\* old one would be missed.
Current ==
    \A m \in Modules : \A r \in ToSet(index[m].defs) \union index[m].uses :
        r.symbol = NoSymbol \/ r.symbol.name = "module" \/ r.symbol.gen = gen[r.symbol.mod]
SymbolsCurrent == Answered => Current

\* A request that comes after any number of edits is answered from the texts as
\* they are now (Workspace::update, build_index).
IndexFresh == DefinitionsFresh /\ SymbolsCurrent

\* "Find references" works (src/README.md:66) whatever the order in which the
\* modules are analyzed.
ReferencesFound == pc = "idle" => Current

\* The editor shows exactly the errors of the texts, in all modules, also in
\* those that were not edited (workspace.cpp:128-137, publish_diagnostics).
Errors(m) ==
    LET text == content[m]
    IN {SyntaxError(k) : k \in {k \in {m} : text.broken}}
       \union {Report("unknown", Ident(m, "call", n)) : n \in {n \in text.calls : Origin(m, n) = "none"}}
       \union {Report("unknown", Ident(m, "use", n)) : n \in {n \in DOMAIN text.uses : ~Known(text.uses[n], n)}}
DiagnosticsFresh == Answered => \A m \in Modules : published[m] = Errors(m)

\* Texts whose errors are not lost: none is empty, as the index would not have
\* the module (publish_diagnostics), and a module that may have a syntax error
\* imports nothing, so that it is not analyzed again without being parsed again
\* (Workspace::update).
SoundTexts ==
    \A m \in Modules :
        /\ \A text \in TextsOf(m) : text.defs # <<>> \/ DOMAIN text.uses # {} \/ text.calls # {}
        /\ (\E text \in TextsOf(m) : text.broken) => \A text \in TextsOf(m) : DOMAIN text.uses = {}

\* Every edit is answered, also when modules depend on each other
\* (Workspace::collect_dependents, UseResolver::resolve_use_ident).
Terminates == (pc # "idle") ~> (pc = "idle")
==============================================================================
