------------------------------ MODULE LspProofs -------------------------------
(***************************************************************************)
(* The index of the language server after any number of edits is that of a *)
(* server that has just been started on the texts as they are              *)
(* (LspWorkspace), for every number of modules and all texts.              *)
(*                                                                         *)
(* A module that is not analyzed again, and does not depend on one that    *)
(* is, keeps bindings that are right (Bound): each is what its name is     *)
(* bound to in the module it is imported from.  Hence following the        *)
(* imports leads where the bindings lead, provided that it ends (Grounded).*)
(* The errors in the editor are those of the texts likewise, provided that *)
(* they are texts whose errors are not lost (SoundTexts).                  *)
(***************************************************************************)
EXTENDS LspWorkspace, FiniteSetTheorems, NaturalsInduction, TLAPS

-----------------------------------------------------------------------------
(* The inductive invariant.                                                *)

Places == {"start", "idle", "collect", "generate", "resolve", "bodies", "index", "publish"}

Types ==
    /\ pc \in Places
    /\ DOMAIN content = Modules
    /\ \A m \in Modules : content[m] \in TextsOf(m)
    /\ gen \in [Modules -> Nat]
    /\ DOMAIN bound = Modules
    /\ set \in SUBSET Modules /\ visit \in SUBSET set
    /\ order \in Seq(set)
    /\ DOMAIN recorded = Modules
    /\ DOMAIN index = Modules
    /\ \A m \in Modules : index[m].dependents \in SUBSET Modules
    /\ remote \in BOOLEAN

\* What is empty where the server is.
Phases ==
    /\ pc \in {"start", "idle"} => set = {}
    /\ pc = "start" => remote = FALSE
    /\ pc # "collect" => visit = {}
    /\ pc # "resolve" => items = <<>> /\ order = <<>>
    /\ items # <<>> => order # <<>>
    /\ \A m \in Modules : m \notin set \/ pc \in {"start", "idle", "collect", "generate"} => recorded[m] = {}

\* The modules that depend on one that is analyzed again are analyzed too.
Closed == \A m \in set \ visit : index[m].dependents \subseteq set

\* A module that no edit has reached.
Untouched(m) ==
    /\ pc # "start"
    /\ m \in Modules \ set
    /\ \A k \in set : m \notin index[k].dependents

\* A binding is of a declaration as it is now.
Proper(s, n) ==
    \/ s = NoSymbol
    \/ \E o \in Modules : Defines(o, n) /\ s = Symbol(o, gen[o], n)

Uses(m) == content[m].uses
Resolved(m, n) == bound[m][n] # Unresolved
Resolving == pc \in {"resolve", "bodies", "index", "publish"}

\* What a name is bound to in a module is what it is bound to where it is
\* imported from.
Analyzed(m) == Untouched(m) \/ (Resolving /\ m \in Modules)
BoundAt(m) ==
    /\ DOMAIN bound[m] = DOMAIN Uses(m)
    /\ \A n \in DOMAIN Uses(m) :
          \/ ~Resolved(m, n) /\ m \in set /\ pc = "resolve"
          \/ /\ Resolved(m, n)
             /\ bound[m][n] = LookUp(Uses(m)[n], n)
             /\ Proper(bound[m][n], n)
Bound == \A m \in Modules : Analyzed(m) => BoundAt(m)

\* Imports do not go in a circle.
Passed(m, n) == Analyzed(m) /\ n \in DOMAIN Uses(m) /\ Resolved(m, n) /\ n \in DOMAIN Uses(Uses(m)[n])
Ranks(r, n) == \A m \in Modules : Passed(m, n) => r[Uses(m)[n]] < r[m]
Grounded == \A n \in Names : \E r \in [Modules -> Nat] : Ranks(r, n)

\* What a module uses: the modules it imports from, what it imports, and what
\* its functions refer to.
FromUses(m, names) == {[at |-> Ident(m, "from", n), symbol |-> ModSymbol(Uses(m)[n])] : n \in names}
Mentioned(m, n) == IF Known(Uses(m)[n], n) THEN bound[m][n] ELSE ModSymbol(Uses(m)[n])
UseUses(m, names) == {[at |-> Ident(m, "use", n), symbol |-> Mentioned(m, n)] : n \in names}
CallUses(m) == {[at |-> Ident(m, "call", n), symbol |-> LookUp(m, n)] :
                    n \in {k \in content[m].calls : LookUp(m, k) # NoSymbol}}
AllUses(m) == FromUses(m, DOMAIN Uses(m)) \union UseUses(m, DOMAIN Uses(m)) \union CallUses(m)

\* The import that is being resolved is one of the module at hand; the modules
\* that are through have none left.
AtHand(m, n) == items = <<<<m, n>>>>
Item ==
    items # <<>> =>
        \E n \in DOMAIN Uses(Head(order)) : AtHand(Head(order), n) /\ ~Resolved(Head(order), n)
Behind == pc = "resolve" => \A m \in set \ ToSet(order) : \A n \in DOMAIN Uses(m) : Resolved(m, n)

\* What is recorded as used so far.
Through(m) == {n \in DOMAIN Uses(m) : Resolved(m, n)}
Entered(m) == {n \in DOMAIN Uses(m) : Resolved(m, n) \/ AtHand(m, n)}
RecordedAt(m) ==
    /\ pc = "resolve" =>
           recorded[m] = FromUses(m, Entered(m)) \union UseUses(m, Through(m))
    /\ pc = "bodies" => recorded[m] = FromUses(m, DOMAIN Uses(m)) \union UseUses(m, DOMAIN Uses(m))
    /\ pc = "index" => recorded[m] = AllUses(m)
Recorded == \A m \in set : RecordedAt(m)

\* The index of a module that no edit has reached, and of all of them at the end.
Where(s) ==
    IF s.name = "module" THEN Place(s.mod, 0)
    ELSE IF s = NoSymbol THEN Nowhere ELSE Place(s.mod, Line(s.mod, s.name))
Listed(m) == Untouched(m) \/ (pc = "publish" /\ m \in Modules)
Depends(m, k) == m \in index[k].dependents
IndexedAt(m) ==
    /\ index[m].defs = DefsOf(m)
    /\ index[m].uses = {[at |-> u.at, symbol |-> u.symbol, place |-> Where(u.symbol)] : u \in AllUses(m)}
    /\ \A n \in DOMAIN Uses(m) :
          /\ Depends(m, Uses(m)[n])
          /\ bound[m][n] # NoSymbol => Depends(m, bound[m][n].mod)
Indexed == \A m \in Modules : Listed(m) => IndexedAt(m)

\* Where the declarations of these modules are in the index.
KeyedAt(m) ==
    \A n \in Names : Defines(m, n) =>
        /\ Symbol(m, gen[m], n) \in DOMAIN symbolDefs
        /\ symbolDefs[Symbol(m, gen[m], n)] = [mod |-> m, pos |-> Line(m, n)]
Keyed ==
    /\ \A s \in DOMAIN symbolDefs : s.mod \in Modules
    /\ \A m \in Modules : Listed(m) => KeyedAt(m)

Local == Types /\ Phases /\ Closed
Remembered == Bound /\ Grounded /\ Item /\ Behind /\ Recorded /\ Indexed /\ Keyed
IInv == Local /\ (~remote => Remembered)

-----------------------------------------------------------------------------
(* Texts, symbols and sequences.                                           *)

\* What the texts of a module consist of: names, none declared and imported.
LEMMA TextType ==
    ASSUME Types, NEW m \in Modules
    PROVE  /\ content[m].defs \in Seq(Names) /\ IsInjective(content[m].defs)
           /\ DOMAIN Uses(m) \subseteq Names
           /\ \A n \in DOMAIN Uses(m) : Uses(m)[n] \in Modules /\ ~Defines(m, n)
           /\ content[m].calls \subseteq Names
           /\ \A n : Defines(m, n) => n \in Names /\ Line(m, n) \in DOMAIN content[m].defs
                                      /\ content[m].defs[Line(m, n)] = n
<1>1. IsText(content[m])
  BY WorkspaceAssumption DEF Types
<1>2. content[m].defs \in Seq(Names) /\ IsInjective(content[m].defs)
  BY <1>1 DEF IsText
<1>3. /\ DOMAIN Uses(m) \subseteq Names \ ToSet(content[m].defs)
      /\ \A n \in DOMAIN Uses(m) : Uses(m)[n] \in Modules
      /\ content[m].calls \subseteq Names
  BY <1>1 DEF IsText, Uses
<1>4. \A n : Defines(m, n) => n \in ToSet(content[m].defs)
  BY DEF Defines, ToSet
<1>5. ASSUME NEW n, Defines(m, n)
      PROVE  n \in Names /\ Line(m, n) \in DOMAIN content[m].defs /\ content[m].defs[Line(m, n)] = n
  BY <1>2, <1>5 DEF Defines, Line
<1> QED
  BY <1>2, <1>3, <1>4, <1>5

\* No declaration is taken for a module, for nothing, or for an import that is
\* still open.
LEMMA SymbolFacts ==
    /\ NoSymbol # Unresolved
    /\ NoSymbol.name # "module"
    /\ \A n \in Names : \A o, g : /\ Symbol(o, g, n) # Unresolved
                                  /\ Symbol(o, g, n) # NoSymbol
                                  /\ Symbol(o, g, n).name # "module"
                                  /\ Symbol(o, g, n).mod = o /\ Symbol(o, g, n).gen = g /\ Symbol(o, g, n).name = n
    /\ \A m : /\ ModSymbol(m) # NoSymbol /\ ModSymbol(m) # Unresolved
              /\ ModSymbol(m).name = "module" /\ ModSymbol(m).mod = m
    /\ NoSymbol.mod \notin Modules
<1>1. \A n \in Names : n # "module" /\ n # "none" /\ n # "unresolved"
  BY WorkspaceAssumption
<1> QED
  BY <1>1, WorkspaceAssumption DEF Symbol, NoSymbol, Unresolved, ModSymbol

\* The elements of a sequence are its head and those of its tail.
LEMMA HeadAndTail ==
    ASSUME NEW S, NEW s \in Seq(S), s # <<>>
    PROVE  /\ Head(s) \in S /\ Head(s) \in ToSet(s)
           /\ Tail(s) \in Seq(S)
           /\ \A x \in ToSet(s) : x = Head(s) \/ x \in ToSet(Tail(s))
           /\ ToSet(Tail(s)) \subseteq ToSet(s)
<1>1. Len(s) \in Nat \ {0} /\ Head(s) = s[1] /\ Head(s) \in S /\ Tail(s) \in Seq(S) /\ DOMAIN s = 1..Len(s)
  OBVIOUS
<1>2. /\ DOMAIN Tail(s) = 1..Len(s) - 1
      /\ \A i \in 1..Len(s) - 1 : Tail(s)[i] = s[i + 1]
  BY <1>1
<1>3. \A i \in 1..Len(s) : i = 1 \/ (i - 1 \in 1..Len(s) - 1 /\ s[i] = Tail(s)[i - 1])
  BY <1>1, <1>2
<1>4. \A i \in 1..Len(s) - 1 : i + 1 \in 1..Len(s) /\ Tail(s)[i] = s[i + 1]
  BY <1>1, <1>2
<1>5. Head(s) \in ToSet(s)
  BY <1>1 DEF ToSet
<1>6. ASSUME NEW x \in ToSet(s) PROVE x = Head(s) \/ x \in ToSet(Tail(s))
  <2>1. PICK i \in 1..Len(s) : x = s[i]
    BY <1>1 DEF ToSet
  <2>2. CASE i - 1 \in 1..Len(s) - 1 /\ s[i] = Tail(s)[i - 1]
    BY <1>2, <2>1, <2>2 DEF ToSet
  <2> QED
    BY <1>1, <1>3, <2>1, <2>2
<1>7. ToSet(Tail(s)) \subseteq ToSet(s)
  BY <1>1, <1>2, <1>4 DEF ToSet
<1> QED
  BY <1>1, <1>5, <1>6, <1>7

\* The stack of lookups with one import in it.
LEMMA OnePair ==
    ASSUME NEW a, NEW b
    PROVE  LET s == Append(<<>>, <<a, b>>)
           IN  s = <<<<a, b>>>> /\ s # <<>> /\ Last(s) = <<a, b>> /\ Front(s) = <<>>
BY DEF Last, Front

\* A sequence of all members of a finite set.
LEMMA AllInOrder ==
    ASSUME NEW S, IsFiniteSet(S), NEW s \in SetToSeqs(S)
    PROVE  s \in Seq(S) /\ ToSet(s) = S
<1> DEFINE k == Cardinality(S)
<1>1. k \in Nat /\ s \in [1..k -> S] /\ \A i, j \in 1..k : i # j => s[i] # s[j]
  BY FS_CardinalityType DEF SetToSeqs
<1>2. s \in Injection(1..k, S)
  BY <1>1 DEF Injection, IsInjective
<1>3. Cardinality(1..k) = k
  BY <1>1, FS_Interval
<1>4. s \in Surjection(1..k, S)
  BY <1>2, <1>3, FS_Injection
<1>5. s \in Seq(S) /\ DOMAIN s = 1..k
  BY <1>1
<1> QED
  BY <1>4, <1>5 DEF Surjection, ToSet

-----------------------------------------------------------------------------
(* Types, phases and the set of modules to analyze.                        *)

\* Before the workspace is opened nothing is analyzed.
LEMMA LocalAtFirst == Init => Local
<1> SUFFICES ASSUME Init PROVE Local
  OBVIOUS
<1>1. /\ DOMAIN content = Modules /\ \A m \in Modules : content[m] \in TextsOf(m)
      /\ pc = "start" /\ set = {} /\ visit = {} /\ order = <<>> /\ items = <<>> /\ remote = FALSE
      /\ gen \in [Modules -> Nat] /\ DOMAIN bound = Modules
      /\ DOMAIN recorded = Modules /\ \A m \in Modules : recorded[m] = {}
  BY DEF Init
<1>2. DOMAIN index = Modules /\ \A m \in Modules : index[m].dependents = {}
  BY DEF Init, NoIndex
<1>3. order \in Seq(set) /\ visit \in SUBSET set
  BY <1>1
<1>4. Types
  BY <1>1, <1>2, <1>3 DEF Types, Places
<1> QED
  BY <1>1, <1>4 DEF Local, Phases, Closed

\* Opening the workspace puts every module in the set (Workspace::initialize).
LEMMA InitializeLocal == Local /\ Initialize => Local'
<1> SUFFICES ASSUME Local, Initialize PROVE Local'
  OBVIOUS
<1> USE DEF Local, Initialize
<1>1. order = <<>> /\ items = <<>> /\ visit = {} /\ \A m \in Modules : recorded[m] = {}
  BY DEF Phases
<1>2. Types'
  BY <1>1 DEF Types, Places
<1> QED
  BY <1>1, <1>2 DEF Types, Phases, Closed

\* A change takes the place of the text and starts the collection.
LEMMA DidChangeLocal ==
    ASSUME Local, NEW m \in Modules, NEW text \in TextsOf(m), DidChange(m, text) PROVE Local'
<1> USE DEF Local, DidChange
<1>1. order = <<>> /\ items = <<>> /\ \A k \in Modules : recorded[k] = {}
  BY DEF Phases
<1>2. DOMAIN content' = Modules /\ \A k \in Modules : content'[k] \in TextsOf(k)
  BY DEF Types
<1>3. Types'
  BY <1>1, <1>2 DEF Types, Places
<1> QED
  BY <1>1, <1>3 DEF Phases, Closed

\* The collection ends when the set has the dependents of its modules.
LEMMA CollectLocal == Local /\ CollectDependents => Local'
<1> SUFFICES ASSUME Local, CollectDependents PROVE Local'
  OBVIOUS
<1>1. PICK m \in visit : /\ visit' = (visit \ {m}) \union (index[m].dependents \ set)
                         /\ set' = set \union index[m].dependents
  BY DEF CollectDependents
<1>2. /\ pc = "collect" /\ pc' \in {"collect", "generate"} /\ (pc' = "generate" => visit' = {})
      /\ UNCHANGED <<content, edits, gen, bound, order, items, recorded, reports, index, symbolDefs, published, remote>>
  BY DEF CollectDependents
<1>3. m \in Modules /\ index[m].dependents \in SUBSET Modules
  BY DEF Local, Types
<1>4. order = <<>> /\ items = <<>> /\ \A k \in Modules : recorded[k] = {}
  BY <1>2 DEF Local, Phases
<1>5. Types'
  BY <1>1, <1>2, <1>3, <1>4 DEF Local, Types, Places
<1>6. Phases'
  BY <1>2, <1>4 DEF Local, Phases
<1>7. Closed'
  <2> SUFFICES ASSUME NEW k \in set' \ visit' PROVE index[k].dependents \subseteq set'
    BY <1>2 DEF Closed
  <2>1. k = m \/ k \in set \ visit
    BY <1>1
  <2> QED
    BY <1>1, <2>1 DEF Local, Closed
<1> QED
  BY <1>5, <1>6, <1>7 DEF Local

\* New symbols are generated for the modules of the set.
LEMMA GenerateLocal == Local /\ Generate => Local'
<1> SUFFICES ASSUME Local, Generate PROVE Local'
  OBVIOUS
<1>1. IsFiniteSet(set) /\ order' \in SetToSeqs(set)
  BY WorkspaceAssumption, FS_Subset DEF Local, Types, Generate
<1>2. order' \in Seq(set)
  BY <1>1, AllInOrder
<1>3. visit = {} /\ items = <<>> /\ \A k \in Modules : recorded[k] = {}
  BY DEF Local, Phases, Generate
<1>4. Types'
  BY <1>2 DEF Local, Types, Places, Generate
<1> QED
  BY <1>3, <1>4 DEF Local, Phases, Closed, Generate

\* The steps that resolve imports.
LEMMA UsedTypes ==
    ASSUME Local, order # <<>>, NEW at, NEW s, recorded' = Used(Head(order), at, s)
    PROVE  /\ Head(order) \in set /\ Head(order) \in Modules
           /\ DOMAIN recorded' = Modules
           /\ \A m \in Modules : m # Head(order) => recorded'[m] = recorded[m]
           /\ recorded'[Head(order)] = recorded[Head(order)] \union {[at |-> at, symbol |-> s]}
<1>1. Head(order) \in set /\ Head(order) \in Modules /\ DOMAIN recorded = Modules
  BY HeadAndTail DEF Local, Types
<1> QED
  BY <1>1 DEF Used

\* The resolver turns to the next import of a module.
LEMMA NextImportLocal == Local /\ NextImport => Local'
<1> SUFFICES ASSUME Local, NextImport PROVE Local'
  OBVIOUS
<1>1. /\ pc = "resolve" /\ items = <<>> /\ order # <<>>
      /\ UNCHANGED <<pc, content, edits, gen, bound, set, visit, order, reports, index, symbolDefs, published, remote>>
  BY DEF NextImport
<1>2. \E at, s : recorded' = Used(Head(order), at, s)
  BY DEF NextImport, Enter
<1>3. DOMAIN recorded' = Modules /\ \A m \in Modules : m # Head(order) => recorded'[m] = recorded[m]
  BY <1>1, <1>2, UsedTypes
<1>4. Head(order) \in set
  BY <1>1, HeadAndTail DEF Local, Types
<1>5. Types'
  BY <1>1, <1>3 DEF Local, Types
<1> QED
  BY <1>1, <1>3, <1>4, <1>5 DEF Local, Phases, Closed

\* The resolver turns to the next module.
LEMMA NextModuleLocal == Local /\ NextModule => Local'
<1> SUFFICES ASSUME Local, NextModule PROVE Local'
  OBVIOUS
<1>1. /\ pc = "resolve" /\ items = <<>> /\ pc' \in {"resolve", "bodies"}
      /\ pc' = "bodies" => order' = <<>>
      /\ UNCHANGED <<content, edits, gen, bound, set, visit, items, recorded, reports, index, symbolDefs, published, remote>>
  BY DEF NextModule
<1>2. order' \in Seq(set)
  BY HeadAndTail DEF NextModule, Local, Types
<1>3. Types'
  BY <1>1, <1>2 DEF Local, Types, Places
<1> QED
  BY <1>1, <1>3 DEF Local, Phases, Closed

\* An import is bound, or looked up in the module it comes from.
LEMMA ResolveImportLocal == Local /\ ResolveImport => Local'
<1> SUFFICES ASSUME Local, ResolveImport PROVE Local'
  OBVIOUS
<1>1. /\ pc = "resolve" /\ items # <<>> /\ order # <<>>
      /\ UNCHANGED <<pc, content, edits, gen, set, visit, order, index, symbolDefs, published>>
  BY DEF ResolveImport, Local, Phases
<1>2. remote' \in BOOLEAN
  BY DEF ResolveImport, Local, Types
<1>3. (\E at, s : recorded' = Used(Head(order), at, s)) /\ DOMAIN bound' = Modules
  BY DEF ResolveImport, Bind, Enter, Local, Types
<1>4. DOMAIN recorded' = Modules /\ \A m \in Modules : m # Head(order) => recorded'[m] = recorded[m]
  BY <1>1, <1>3, UsedTypes
<1>5. Head(order) \in set
  BY <1>1, HeadAndTail DEF Local, Types
<1>6. Types'
  BY <1>1, <1>2, <1>3, <1>4 DEF Local, Types
<1> QED
  BY <1>1, <1>4, <1>5, <1>6 DEF Local, Phases, Closed

\* The bodies of the set are analyzed once its imports are bound.
LEMMA AnalyzeBodiesLocal == Local /\ AnalyzeBodies => Local'
<1> SUFFICES ASSUME Local, AnalyzeBodies PROVE Local'
  OBVIOUS
<1>1. /\ pc = "bodies" /\ pc' = "index"
      /\ UNCHANGED <<content, edits, gen, bound, set, visit, order, items, index, symbolDefs, published, remote>>
  BY DEF AnalyzeBodies
<1>2. DOMAIN recorded' = Modules /\ \A m \in Modules : m \notin set => recorded'[m] = recorded[m]
  BY DEF AnalyzeBodies
<1>3. Types'
  BY <1>1, <1>2 DEF Local, Types, Places
<1> QED
  BY <1>1, <1>2, <1>3 DEF Local, Phases, Closed

\* The reports of the set are sent to the editor.
LEMMA PublishLocal == Local /\ Publish => Local'
<1> SUFFICES ASSUME Local, Publish PROVE Local'
  OBVIOUS
<1>1. /\ pc = "publish" /\ pc' = "idle" /\ set' = {}
      /\ DOMAIN recorded' = Modules /\ \A m \in Modules : recorded'[m] = {}
      /\ UNCHANGED <<content, edits, gen, bound, visit, order, items, reports, index, symbolDefs, remote>>
  BY DEF Publish
<1>2. visit = {} /\ order = <<>> /\ items = <<>>
  BY <1>1 DEF Local, Phases
<1>3. Types'
  BY <1>1, <1>2 DEF Local, Types, Places
<1> QED
  BY <1>1, <1>2, <1>3 DEF Local, Phases, Closed

\* What BuildIndex makes of a module.
NewDefs(m) == IF m \in set THEN DefsOf(m) ELSE Erased[m].defs
NewUses(m, defs, keys) ==
    {[at |-> u.at, symbol |-> u.symbol, place |-> Definition(u.symbol, defs, keys)] : u \in recorded[m]}
AllDefs == [m \in Modules |-> NewDefs(m)]
NewDependents(m) ==
    {k \in Modules : \E u \in NewUses(k, AllDefs, symbolDefs') :
        \/ u.symbol = ModSymbol(m)
        \/ u.symbol \in DOMAIN symbolDefs' /\ symbolDefs'[u.symbol].mod = m}

\* What the index holds once it is built: of the set what was found in it, of
\* the other modules what is left when the set is erased, with what the set
\* uses of them.
LEMMA Built ==
    ASSUME Local, BuildIndex
    PROVE  /\ pc = "index" /\ pc' = "publish"
           /\ UNCHANGED <<content, edits, gen, bound, set, visit, order, items, recorded, reports, published, remote>>
           /\ DOMAIN index' = Modules
           /\ \A m \in Modules :
                 /\ index'[m].defs = NewDefs(m)
                 /\ index'[m].uses = Erased[m].uses \union NewUses(m, AllDefs, symbolDefs')
                 /\ index'[m].dependents = Erased[m].dependents \union NewDependents(m)
           /\ \A m \in Modules : m \notin set => Erased[m] = index[m]
           /\ \A m \in Modules : m \in set => Erased[m].uses = {} /\ Erased[m].dependents = {}
           /\ \A m \in Modules : NewDependents(m) \subseteq set
           /\ \A m \in Modules : m \notin set => NewUses(m, AllDefs, symbolDefs') = {}
<1>1. /\ pc = "index" /\ pc' = "publish"
      /\ UNCHANGED <<content, edits, gen, bound, set, visit, order, items, recorded, reports, published, remote>>
  BY DEF BuildIndex
<1>2. /\ DOMAIN index' = Modules
      /\ \A m \in Modules :
            /\ index'[m].defs = NewDefs(m)
            /\ index'[m].uses = Erased[m].uses \union NewUses(m, AllDefs, symbolDefs')
            /\ index'[m].dependents = Erased[m].dependents \union NewDependents(m)
  BY DEF BuildIndex, NewDefs, NewUses, AllDefs, NewDependents
<1>3. /\ \A m \in Modules : m \notin set => Erased[m] = index[m]
      /\ \A m \in Modules : m \in set => Erased[m].uses = {} /\ Erased[m].dependents = {}
  BY DEF Erased, NoIndex
<1>4. \A m \in Modules : m \notin set => NewUses(m, AllDefs, symbolDefs') = {}
  BY DEF Local, Phases, NewUses
<1>5. \A m \in Modules : NewDependents(m) \subseteq set
  BY <1>4 DEF NewDependents
<1> QED
  BY <1>1, <1>2, <1>3, <1>4, <1>5

\* Building the index keeps the types.
LEMMA BuildIndexLocal == Local /\ BuildIndex => Local'
<1> SUFFICES ASSUME Local, BuildIndex PROVE Local'
  OBVIOUS
<1>1. /\ pc = "index" /\ pc' = "publish"
      /\ UNCHANGED <<content, edits, gen, bound, set, visit, order, items, recorded, reports, published, remote>>
      /\ DOMAIN index' = Modules
  BY Built
<1>2. \A m \in Modules : index'[m].dependents \in SUBSET Modules
  BY Built DEF Local, Types
<1>3. \A m \in set : index'[m].dependents \subseteq set
  BY Built DEF Local, Types
<1>4. Types'
  BY <1>1, <1>2 DEF Local, Types, Places
<1> QED
  BY <1>1, <1>3, <1>4 DEF Local, Phases, Closed

\* Every step keeps the types, the phases and the closed set.
LEMMA LocalStep == Local /\ [Next]_vars => Local'
<1> SUFFICES ASSUME Local, [Next]_vars PROVE Local'
  OBVIOUS
<1>1. CASE UNCHANGED vars
  BY <1>1 DEF vars, Local, Types, Phases, Closed
<1> QED
  BY <1>1, InitializeLocal, DidChangeLocal, CollectLocal, GenerateLocal, NextImportLocal, NextModuleLocal,
     ResolveImportLocal, AnalyzeBodiesLocal, BuildIndexLocal, PublishLocal
  DEF Next, Analyze

-----------------------------------------------------------------------------
(* A module keeps what is known of it as long as neither its own text and  *)
(* bindings change nor those of the modules that it depends on.            *)

Same(k) == content'[k] = content[k] /\ gen'[k] = gen[k] /\ bound'[k] = bound[k]

\* What is known of a module that is in the index: its imports are bound, and
\* all it depends on lists it as a dependent.
LEMMA ListedFacts ==
    ASSUME Types, Bound, Indexed, NEW m \in Modules, Listed(m)
    PROVE  /\ DOMAIN bound[m] = DOMAIN Uses(m)
           /\ \A n \in DOMAIN Uses(m) :
                 /\ n \in Names /\ Uses(m)[n] \in Modules /\ Depends(m, Uses(m)[n])
                 /\ Resolved(m, n)
                 /\ bound[m][n] = LookUp(Uses(m)[n], n)
                 /\ \/ bound[m][n] = NoSymbol
                    \/ \E o \in Modules : Defines(o, n) /\ Depends(m, o) /\ bound[m][n] = Symbol(o, gen[o], n)
<1>1. Analyzed(m) /\ (m \in set => pc = "publish")
  BY DEF Listed, Analyzed, Resolving, Untouched
<1>2. BoundAt(m) /\ IndexedAt(m)
  BY <1>1 DEF Bound, Indexed
<1>3. DOMAIN bound[m] = DOMAIN Uses(m)
  BY <1>2 DEF BoundAt
<1>4. ASSUME NEW n \in DOMAIN Uses(m)
      PROVE  /\ n \in Names /\ Uses(m)[n] \in Modules /\ Depends(m, Uses(m)[n])
             /\ Resolved(m, n)
             /\ bound[m][n] = LookUp(Uses(m)[n], n)
             /\ Proper(bound[m][n], n)
             /\ bound[m][n] # NoSymbol => Depends(m, bound[m][n].mod)
  BY <1>1, <1>2, TextType DEF BoundAt, IndexedAt
<1>5. ASSUME NEW n \in DOMAIN Uses(m), bound[m][n] # NoSymbol
      PROVE  \E o \in Modules : Defines(o, n) /\ Depends(m, o) /\ bound[m][n] = Symbol(o, gen[o], n)
  <2>1. PICK o \in Modules : Defines(o, n) /\ bound[m][n] = Symbol(o, gen[o], n)
    BY <1>4, <1>5 DEF Proper
  <2>2. bound[m][n].mod = o
    BY <1>4, <2>1, SymbolFacts
  <2> QED
    BY <1>4, <1>5, <2>1, <2>2
<1> QED
  BY <1>3, <1>4, <1>5

\* A module whose text stays, with the texts it imports from, looks the same.
LEMMA UsesSame ==
    ASSUME NEW m \in Modules, Same(m), \A n \in DOMAIN Uses(m) : content'[Uses(m)[n]] = content[Uses(m)[n]]
    PROVE  /\ Uses(m)' = Uses(m)
           /\ \A n : Defines(m, n)' <=> Defines(m, n)
           /\ \A n : Line(m, n)' = Line(m, n)
           /\ \A n : LookUp(m, n)' = LookUp(m, n)
           /\ \A n \in DOMAIN Uses(m) : Mentioned(m, n)' = Mentioned(m, n)
           /\ AllUses(m)' = AllUses(m)
           /\ DefsOf(m)' = DefsOf(m)
<1>1. Uses(m)' = Uses(m)
  BY DEF Uses, Same
<1>2. \A n : Defines(m, n)' <=> Defines(m, n)
  BY DEF Defines, Same
<1>3. \A n : Line(m, n)' = Line(m, n)
  BY DEF Line, Same
<1>4. \A n : LookUp(m, n)' = LookUp(m, n)
  BY <1>2 DEF LookUp, Imports, Same
<1>5. ASSUME NEW n \in DOMAIN Uses(m) PROVE Mentioned(m, n)' = Mentioned(m, n)
  <2>1. Known(Uses(m)[n], n)' <=> Known(Uses(m)[n], n)
    BY <1>1 DEF Known, Defines, Imports
  <2> QED
    BY <1>1, <2>1 DEF Mentioned, Same
<1>6. FromUses(m, DOMAIN Uses(m))' = FromUses(m, DOMAIN Uses(m))
  BY <1>1 DEF FromUses
<1>7. UseUses(m, DOMAIN Uses(m))' = UseUses(m, DOMAIN Uses(m))
  BY <1>1, <1>5 DEF UseUses
<1>8. CallUses(m)' = CallUses(m)
  BY <1>4 DEF CallUses, Same
<1>9. AllUses(m)' = AllUses(m)
  BY <1>6, <1>7, <1>8 DEF AllUses
<1>10. DefsOf(m)' = DefsOf(m)
  BY DEF DefsOf, Same
<1> QED
  BY <1>1, <1>2, <1>3, <1>4, <1>5, <1>9, <1>10

\* The symbols that a module uses.
LEMMA SymbolsUsed ==
    ASSUME Types, NEW m \in Modules, NEW u \in AllUses(m)
    PROVE  \/ \E n \in DOMAIN Uses(m) : \/ u.symbol = ModSymbol(Uses(m)[n])
                                        \/ u.symbol = bound[m][n]
           \/ \E n \in Names : Defines(m, n) /\ u.symbol = Symbol(m, gen[m], n)
<1>1. CASE u \in FromUses(m, DOMAIN Uses(m))
  BY <1>1 DEF FromUses
<1>2. CASE u \in UseUses(m, DOMAIN Uses(m))
  BY <1>2 DEF UseUses, Mentioned
<1>3. CASE u \in CallUses(m)
  <2>1. PICK n \in content[m].calls : u.symbol = LookUp(m, n) /\ LookUp(m, n) # NoSymbol
    BY <1>3 DEF CallUses
  <2> QED
    BY <2>1, TextType DEF LookUp, Imports, Uses
<1> QED
  BY <1>1, <1>2, <1>3 DEF AllUses

\* A step that leaves a module and all it depends on alone keeps its bindings,
\* its part of the index and its keys.
LEMMA Kept ==
    ASSUME Local, Bound, Indexed, Keyed, NEW m \in Modules, Listed(m),
           \A k \in Modules : k = m \/ Depends(m, k) => Same(k),
           UNCHANGED <<index, symbolDefs>>
    PROVE  /\ Uses(m)' = Uses(m)
           /\ \A n \in DOMAIN Uses(m) : Uses(Uses(m)[n])' = Uses(Uses(m)[n]) /\ Resolved(m, n)'
           /\ BoundAt(m)' /\ IndexedAt(m)' /\ KeyedAt(m)'
<1> USE DEF Local
<1>s. Same(m)
  OBVIOUS
<1>t. m \in Modules /\ \A k \in Modules : Depends(m, k)' <=> Depends(m, k)
  BY DEF Depends
<1>1. /\ DOMAIN bound[m] = DOMAIN Uses(m)
      /\ \A n \in DOMAIN Uses(m) :
            /\ n \in Names /\ Uses(m)[n] \in Modules /\ Depends(m, Uses(m)[n])
            /\ Resolved(m, n)
            /\ bound[m][n] = LookUp(Uses(m)[n], n)
            /\ \/ bound[m][n] = NoSymbol
               \/ \E o \in Modules : Defines(o, n) /\ Depends(m, o) /\ bound[m][n] = Symbol(o, gen[o], n)
  BY ListedFacts
<1>2. /\ Uses(m)' = Uses(m)
      /\ \A n : Defines(m, n)' <=> Defines(m, n)
      /\ \A n : Line(m, n)' = Line(m, n)
      /\ AllUses(m)' = AllUses(m)
      /\ DefsOf(m)' = DefsOf(m)
  BY <1>1, <1>s, UsesSame DEF Same
<1>3. ASSUME NEW n \in DOMAIN Uses(m)
      PROVE  /\ Uses(Uses(m)[n])' = Uses(Uses(m)[n])
             /\ LookUp(Uses(m)[n], n)' = LookUp(Uses(m)[n], n)
             /\ Resolved(m, n)' /\ Proper(bound[m][n], n)'
  <2>1. Same(Uses(m)[n]) /\ bound'[m] = bound[m]
    BY <1>1, <1>s DEF Same
  <2>2. Uses(Uses(m)[n])' = Uses(Uses(m)[n]) /\ LookUp(Uses(m)[n], n)' = LookUp(Uses(m)[n], n)
    BY <1>2, <2>1 DEF Same, Uses, LookUp, Defines, Imports
  <2>3. Resolved(m, n)'
    BY <1>1, <2>1 DEF Resolved
  <2>4. Proper(bound[m][n], n)'
    BY <1>1, <2>1 DEF Proper, Same, Defines
  <2> QED
    BY <2>2, <2>3, <2>4
<1>4. BoundAt(m)'
  BY <1>1, <1>2, <1>3, <1>s DEF BoundAt, Same
<1>5. ASSUME NEW u \in AllUses(m) PROVE Where(u.symbol)' = Where(u.symbol)
  <2>1. \/ u.symbol.name = "module"
        \/ u.symbol = NoSymbol
        \/ \E n \in Names, o \in Modules : u.symbol = Symbol(o, gen[o], n) /\ (o = m \/ Depends(m, o))
    BY <1>1, SymbolsUsed, SymbolFacts
  <2>2. ASSUME NEW n \in Names, NEW o \in Modules, o = m \/ Depends(m, o), u.symbol = Symbol(o, gen[o], n)
        PROVE  Line(u.symbol.mod, u.symbol.name)' = Line(u.symbol.mod, u.symbol.name)
    BY <2>2, SymbolFacts DEF Line, Same
  <2> QED
    BY <2>1, <2>2 DEF Where
<1>6. IndexedAt(m)
  BY DEF Indexed
<1>7. IndexedAt(m)'
  <2>1. index'[m].defs = DefsOf(m)'
    BY <1>2, <1>6 DEF IndexedAt
  <2>2. index'[m].uses = {[at |-> u.at, symbol |-> u.symbol, place |-> Where(u.symbol)'] : u \in AllUses(m)}
    BY <1>5, <1>6 DEF IndexedAt
  <2>3. ASSUME NEW n \in DOMAIN Uses(m)
        PROVE  /\ Depends(m, Uses(m)[n])'
               /\ bound'[m][n] # NoSymbol => Depends(m, bound[m][n].mod)'
    BY <1>2, <1>6, <1>s, <2>3 DEF IndexedAt, Same, Depends
  <2> QED
    BY <1>2, <2>1, <2>2, <2>3 DEF IndexedAt
<1>8. KeyedAt(m)'
  BY <1>2, <1>s DEF Keyed, KeyedAt, Same
<1> QED
  BY <1>2, <1>3, <1>4, <1>7, <1>8

\* The imports of an untouched module stay bound, as the modules they come
\* from are untouched as well, or would have put the module in the set.
LEMMA UntouchedKept ==
    ASSUME Local, Local', Bound, Indexed, Keyed, UNCHANGED <<index, symbolDefs>>,
           \A k \in Modules \ set' : Same(k),
           \A m \in Modules : Untouched(m)' => Listed(m)
    PROVE  \A m \in Modules : Untouched(m)' =>
               /\ Analyzed(m)
               /\ Uses(m)' = Uses(m)
               /\ \A n \in DOMAIN Uses(m) :
                     Uses(Uses(m)[n])' = Uses(Uses(m)[n]) /\ Resolved(m, n)' /\ Resolved(m, n)
               /\ BoundAt(m)' /\ IndexedAt(m)' /\ KeyedAt(m)'
<1> SUFFICES ASSUME NEW m \in Modules, Untouched(m)'
             PROVE  /\ Analyzed(m)
                    /\ Uses(m)' = Uses(m)
                    /\ \A n \in DOMAIN Uses(m) :
                          Uses(Uses(m)[n])' = Uses(Uses(m)[n]) /\ Resolved(m, n)' /\ Resolved(m, n)
                    /\ BoundAt(m)' /\ IndexedAt(m)' /\ KeyedAt(m)'
  OBVIOUS
<1>1. Listed(m)
  OBVIOUS
<1>2. \A k \in Modules : k = m \/ Depends(m, k) => k \notin set'
  BY DEF Untouched, Depends
<1>3. \A k \in Modules : k = m \/ Depends(m, k) => Same(k)
  BY <1>2
<1>4. \A n \in DOMAIN Uses(m) : Resolved(m, n)
  BY <1>1, ListedFacts DEF Local
<1>5. Analyzed(m)
  BY <1>1 DEF Listed, Analyzed, Resolving
<1> QED
  BY <1>1, <1>3, <1>4, <1>5, Kept

\* Where no import is passed on that was not before, no circle is closed.
LEMMA GroundedKept ==
    ASSUME Grounded,
           \A m \in Modules : \A n \in Names : Passed(m, n)' => Passed(m, n) /\ Uses(m)'[n] = Uses(m)[n]
    PROVE  Grounded'
<1> SUFFICES ASSUME NEW n \in Names PROVE \E r \in [Modules -> Nat] : Ranks(r, n)'
  BY DEF Grounded
<1>1. PICK r \in [Modules -> Nat] : Ranks(r, n)
  BY DEF Grounded
<1>2. Ranks(r, n)'
  BY <1>1 DEF Ranks
<1> QED
  BY <1>2

\* The steps outside of the analysis.
LEMMA QuietStep ==
    ASSUME Local, Local', Remembered, UNCHANGED <<index, symbolDefs>>,
           \A k \in Modules \ set' : Same(k),
           \A m \in Modules : Untouched(m)' => Listed(m),
           ~Resolving'
    PROVE  Remembered'
<1>1. \A m \in Modules : Untouched(m)' =>
          /\ Analyzed(m)
          /\ Uses(m)' = Uses(m)
          /\ \A n \in DOMAIN Uses(m) :
                Uses(Uses(m)[n])' = Uses(Uses(m)[n]) /\ Resolved(m, n)' /\ Resolved(m, n)
          /\ BoundAt(m)' /\ IndexedAt(m)' /\ KeyedAt(m)'
  BY UntouchedKept DEF Remembered
<1>2. \A m \in Modules : (Analyzed(m)' => Untouched(m)') /\ (Listed(m)' => Untouched(m)')
  BY DEF Analyzed, Listed, Resolving
<1>3. Bound'
  BY <1>1, <1>2 DEF Bound
<1>4. Indexed'
  BY <1>1, <1>2 DEF Indexed
<1>5. Keyed'
  BY <1>1, <1>2 DEF Keyed, Remembered
<1>6. Grounded'
  <2>1. ASSUME NEW m \in Modules, NEW n \in Names, Passed(m, n)'
        PROVE  Passed(m, n) /\ Uses(m)'[n] = Uses(m)[n]
    BY <1>1, <1>2, <2>1 DEF Passed
  <2> QED
    BY <2>1, GroundedKept DEF Remembered
<1>7. items' = <<>> /\ pc' \notin {"resolve", "bodies", "index"}
  BY DEF Local, Phases, Resolving
<1>8. Item' /\ Behind' /\ Recorded'
  BY <1>7 DEF Item, Behind, Recorded, RecordedAt
<1> QED
  BY <1>3, <1>4, <1>5, <1>6, <1>8 DEF Remembered

\* Opening the workspace leaves no module untouched, so nothing is to be kept.
LEMMA InitializeRemembered == Local /\ Remembered /\ Initialize => Remembered'
<1> SUFFICES ASSUME Local, Remembered, Initialize PROVE Remembered'
  OBVIOUS
<1>1. Local'
  BY InitializeLocal
<1>2. set' = Modules /\ pc' = "generate" /\ UNCHANGED <<index, symbolDefs>>
  BY DEF Initialize
<1>3. \A m \in Modules : ~Untouched(m)'
  BY <1>2 DEF Untouched
<1> QED
  BY <1>1, <1>2, <1>3, QuietStep DEF Resolving

\* After a change the modules other than the one changed are as before.
LEMMA DidChangeRemembered ==
    ASSUME Local, Remembered, NEW m \in Modules, NEW text \in TextsOf(m), DidChange(m, text)
    PROVE  Remembered'
<1>1. Local'
  BY DidChangeLocal
<1>2. /\ pc = "idle" /\ pc' = "collect" /\ set' = {m} /\ content' = [content EXCEPT ![m] = text]
      /\ UNCHANGED <<gen, bound, index, symbolDefs>>
  BY DEF DidChange
<1>3. set = {}
  BY <1>2 DEF Local, Phases
<1>4. \A k \in Modules : Listed(k)
  BY <1>2, <1>3 DEF Listed, Untouched
<1>5. \A k \in Modules \ set' : Same(k)
  BY <1>2 DEF Same, Local, Types
<1> QED
  BY <1>1, <1>2, <1>4, <1>5, QuietStep DEF Resolving

\* Collecting dependents only makes modules of the set out of untouched ones.
LEMMA CollectRemembered == Local /\ Remembered /\ CollectDependents => Remembered'
<1> SUFFICES ASSUME Local, Remembered, CollectDependents PROVE Remembered'
  OBVIOUS
<1>1. Local'
  BY CollectLocal
<1>2. /\ pc = "collect" /\ pc' \in {"collect", "generate"} /\ set \subseteq set'
      /\ UNCHANGED <<content, gen, bound, index, symbolDefs>>
  BY DEF CollectDependents
<1>3. \A m \in Modules : Untouched(m)' => Listed(m)
  BY <1>2 DEF Untouched, Listed
<1>4. \A k \in Modules \ set' : Same(k)
  BY <1>2 DEF Same
<1> QED
  BY <1>1, <1>2, <1>3, <1>4, QuietStep DEF Resolving

\* With the reports sent every module is untouched and in the index.
LEMMA PublishRemembered == Local /\ Remembered /\ Publish => Remembered'
<1> SUFFICES ASSUME Local, Remembered, Publish PROVE Remembered'
  OBVIOUS
<1>1. Local'
  BY PublishLocal
<1>2. pc = "publish" /\ pc' = "idle" /\ UNCHANGED <<content, gen, bound, index, symbolDefs>>
  BY DEF Publish
<1>3. \A m \in Modules : Listed(m)
  BY <1>2 DEF Listed
<1>4. \A k \in Modules \ set' : Same(k)
  BY <1>2 DEF Same
<1> QED
  BY <1>1, <1>2, <1>3, <1>4, QuietStep DEF Resolving

\* Once the dependents are collected, the others are untouched.
LEMMA RestUntouched ==
    ASSUME Local, pc \notin {"start", "collect"}, NEW m \in Modules, m \notin set
    PROVE  Untouched(m)
BY DEF Local, Phases, Closed, Untouched

\* Generating the symbols of the set anew unbinds its imports only.
LEMMA GenerateRemembered == Local /\ Remembered /\ Generate => Remembered'
<1> SUFFICES ASSUME Local, Remembered, Generate PROVE Remembered'
  OBVIOUS
<1>l. Local'
  BY GenerateLocal
<1>1. /\ pc = "generate" /\ pc' = "resolve"
      /\ UNCHANGED <<content, set, visit, items, recorded, index, symbolDefs>>
  BY DEF Generate
<1>2. \A m \in Modules : m \in set => bound'[m] = [n \in DOMAIN Uses(m) |-> Unresolved]
  BY DEF Generate, Uses
<1>3. \A k \in Modules \ set' : Same(k)
  BY <1>1 DEF Generate, Same
<1>4. \A m \in Modules : Untouched(m)' => Listed(m)
  BY <1>1 DEF Untouched, Listed
<1>5. \A m \in Modules : Untouched(m)' =>
          /\ Analyzed(m)
          /\ Uses(m)' = Uses(m)
          /\ \A n \in DOMAIN Uses(m) :
                Uses(Uses(m)[n])' = Uses(Uses(m)[n]) /\ Resolved(m, n)' /\ Resolved(m, n)
          /\ BoundAt(m)' /\ IndexedAt(m)' /\ KeyedAt(m)'
  BY <1>l, <1>1, <1>3, <1>4, UntouchedKept DEF Remembered
<1>6. \A m \in Modules : m \notin set => Untouched(m)'
  BY <1>l, <1>1, RestUntouched DEF Untouched
<1>7. ASSUME NEW m \in Modules, m \in set
      PROVE  Uses(m)' = Uses(m) /\ \A n \in DOMAIN Uses(m) : ~Resolved(m, n)'
    BY <1>1, <1>2, <1>7 DEF Uses, Resolved
<1>8. Bound'
  <2>1. ASSUME NEW m \in Modules, m \in set PROVE BoundAt(m)'
    BY <1>1, <1>2, <1>7, <2>1 DEF BoundAt
  <2> QED
    BY <1>5, <1>6, <2>1 DEF Bound
<1>9. \A m \in Modules : Listed(m)' => Untouched(m)'
  BY <1>1 DEF Listed
<1>10. Indexed' /\ Keyed'
  BY <1>1, <1>5, <1>9 DEF Indexed, Keyed, Remembered
<1>11. Grounded'
  <2>1. ASSUME NEW m \in Modules, NEW n \in Names, Passed(m, n)'
        PROVE  Passed(m, n) /\ Uses(m)'[n] = Uses(m)[n]
    BY <1>5, <1>6, <1>7, <2>1 DEF Passed
  <2> QED
    BY <2>1, GroundedKept DEF Remembered
<1>12. items = <<>> /\ \A m \in set : recorded[m] = {}
  BY <1>1 DEF Local, Phases, Types
<1>13. Item' /\ Behind'
  <2>1. IsFiniteSet(set) /\ order' \in SetToSeqs(set)
    BY WorkspaceAssumption, FS_Subset DEF Local, Types, Generate
  <2>2. ToSet(order') = set
    BY <2>1, AllInOrder
  <2>3. ToSet(order)' = set
    BY <2>2 DEF ToSet
  <2> QED
    BY <1>1, <1>12, <2>3 DEF Item, Behind
<1>14. Recorded'
  <2> SUFFICES ASSUME NEW m \in set PROVE RecordedAt(m)'
    BY <1>1 DEF Recorded
  <2>1. m \in Modules
    BY DEF Local, Types
  <2>2. Entered(m)' = {} /\ Through(m)' = {}
    BY <1>1, <1>7, <1>12, <2>1 DEF Through, Entered, AtHand
  <2>3. FromUses(m, Entered(m))' = {} /\ UseUses(m, Through(m))' = {}
    BY <2>2 DEF FromUses, UseUses
  <2> QED
    BY <1>1, <1>12, <2>3 DEF RecordedAt
<1> QED
  BY <1>8, <1>10, <1>11, <1>13, <1>14 DEF Remembered

-----------------------------------------------------------------------------
(* The steps that resolve imports.                                         *)

\* What depends on the texts, the bindings and the index alone.
LEMMA ViewKept ==
    ASSUME UNCHANGED <<content, gen, bound, set, index, symbolDefs>>, pc' = pc
    PROVE  /\ \A m : (Untouched(m)' <=> Untouched(m)) /\ (Analyzed(m)' <=> Analyzed(m))
           /\ \A m : Uses(m)' = Uses(m) /\ AllUses(m)' = AllUses(m)
           /\ \A m, n : (Resolved(m, n)' <=> Resolved(m, n)) /\ Mentioned(m, n)' = Mentioned(m, n)
           /\ Bound => Bound'
           /\ Grounded => Grounded'
           /\ Indexed => Indexed'
           /\ Keyed => Keyed'
<1>1. \A m : (Untouched(m)' <=> Untouched(m)) /\ (Listed(m)' <=> Listed(m)) /\ (Analyzed(m)' <=> Analyzed(m))
  BY DEF Untouched, Listed, Analyzed, Resolving
<1>2. \A m : Uses(m)' = Uses(m)
  BY DEF Uses
<1>3. \A m, n : (Resolved(m, n)' <=> Resolved(m, n)) /\ (Defines(m, n)' <=> Defines(m, n)) /\ Line(m, n)' = Line(m, n)
  BY DEF Resolved, Defines, Line
<1>4. \A m, n : LookUp(m, n)' = LookUp(m, n) /\ Mentioned(m, n)' = Mentioned(m, n)
  BY <1>3 DEF LookUp, Imports, Mentioned, Known, Uses
<1>5. \A s, n : Proper(s, n)' <=> Proper(s, n)
  BY <1>3 DEF Proper
<1>6. \A s : Where(s)' = Where(s)
  BY <1>3 DEF Where
<1>7. ASSUME NEW m PROVE AllUses(m)' = AllUses(m)
  <2>1. FromUses(m, DOMAIN Uses(m))' = FromUses(m, DOMAIN Uses(m))
    BY <1>2 DEF FromUses
  <2>2. UseUses(m, DOMAIN Uses(m))' = UseUses(m, DOMAIN Uses(m))
    BY <1>2, <1>4 DEF UseUses
  <2>3. CallUses(m)' = CallUses(m)
    BY <1>4 DEF CallUses
  <2> QED
    BY <2>1, <2>2, <2>3 DEF AllUses
<1>8. \A m : DefsOf(m)' = DefsOf(m)
  BY DEF DefsOf
<1>9. Bound => Bound'
  BY <1>1, <1>2, <1>3, <1>4, <1>5 DEF Bound, BoundAt
<1>10. Grounded => Grounded'
  <2>1. \A m, n : Passed(m, n)' <=> Passed(m, n)
    BY <1>1, <1>2, <1>3 DEF Passed
  <2> QED
    BY <1>2, <2>1 DEF Grounded, Ranks
<1>11. Indexed => Indexed'
  <2>1. ASSUME NEW m, IndexedAt(m) PROVE IndexedAt(m)'
    BY <1>2, <1>6, <1>7, <1>8, <2>1 DEF IndexedAt, Depends
  <2> QED
    BY <1>1, <2>1 DEF Indexed
<1>12. Keyed => Keyed'
  BY <1>1, <1>3 DEF Keyed, KeyedAt
<1> QED
  BY <1>1, <1>2, <1>3, <1>4, <1>7, <1>9, <1>10, <1>11, <1>12

\* The uses of one more import are those of its module and of what it names.
LEMMA OneMore ==
    ASSUME NEW m, NEW names, NEW k
    PROVE  /\ FromUses(m, names \union {k}) =
                  FromUses(m, names) \union {[at |-> Ident(m, "from", k), symbol |-> ModSymbol(Uses(m)[k])]}
           /\ UseUses(m, names \union {k}) =
                  UseUses(m, names) \union {[at |-> Ident(m, "use", k), symbol |-> Mentioned(m, k)]}
BY DEF FromUses, UseUses

\* Taking up an import adds no binding, only the work at hand.
LEMMA NextImportRemembered == Local /\ Remembered /\ NextImport => Remembered'
<1> SUFFICES ASSUME Local, Remembered, NextImport PROVE Remembered'
  OBVIOUS
<1> DEFINE h == Head(order)
<1>1. /\ pc = "resolve" /\ items = <<>> /\ order # <<>>
      /\ UNCHANGED <<pc, content, gen, bound, set, order, index, symbolDefs>>
  BY DEF NextImport
<1>2. PICK k \in DOMAIN bound[h] : bound[h][k] = Unresolved /\ Enter(h, k)
  BY DEF NextImport
<1>3. h \in set /\ h \in Modules
  BY <1>1, HeadAndTail DEF Local, Types
<1>4. k \in DOMAIN Uses(h) /\ ~Resolved(h, k)
  BY <1>1, <1>2, <1>3 DEF Remembered, Bound, BoundAt, Analyzed, Resolving, Resolved
<1>5. items' = <<<<h, k>>>> /\ items' # <<>>
  BY <1>1, <1>2, OnePair DEF Enter
<1>6. /\ \A m \in Modules : m # h => recorded'[m] = recorded[m]
      /\ recorded'[h] = recorded[h] \union {[at |-> Ident(h, "from", k), symbol |-> ModSymbol(Uses(h)[k])]}
  BY <1>1, <1>2, UsedTypes DEF Enter, Uses
<1>7. /\ \A m : Uses(m)' = Uses(m)
      /\ \A m, n : (Resolved(m, n)' <=> Resolved(m, n)) /\ Mentioned(m, n)' = Mentioned(m, n)
      /\ Bound' /\ Grounded' /\ Indexed' /\ Keyed'
  BY <1>1, ViewKept DEF Remembered
<1>8. Item'
  BY <1>1, <1>4, <1>5, <1>7 DEF Item, AtHand
<1>9. Behind'
  BY <1>1, <1>7 DEF Behind, Remembered
<1>10. \A m, n : ~AtHand(m, n)
  BY <1>1 DEF AtHand
<1>11. \A m, n : AtHand(m, n)' <=> (m = h /\ n = k)
  BY <1>5 DEF AtHand
<1>12. Recorded'
  <2> SUFFICES ASSUME NEW m \in set
               PROVE  recorded'[m] = FromUses(m, Entered(m))' \union UseUses(m, Through(m))'
    BY <1>1 DEF Recorded, RecordedAt
  <2>1. recorded[m] = FromUses(m, Through(m)) \union UseUses(m, Through(m))
    <3>1. Entered(m) = Through(m)
      BY <1>10 DEF Through, Entered
    <3> QED
      BY <1>1, <3>1 DEF Remembered, Recorded, RecordedAt
  <2>2. UseUses(m, Through(m))' = UseUses(m, Through(m))
    BY <1>7 DEF Through, UseUses
  <2>3. Entered(m)' = Through(m) \union IF m = h THEN {k} ELSE {}
    BY <1>4, <1>7, <1>11 DEF Through, Entered
  <2>4. \A names : FromUses(m, names)' = FromUses(m, names)
    BY <1>7 DEF FromUses
  <2>5. FromUses(m, Entered(m))' = FromUses(m, Through(m) \union IF m = h THEN {k} ELSE {})
    BY <1>7, <2>3 DEF FromUses
  <2>6. m \in Modules
    BY DEF Local, Types
  <2>7. CASE m = h
    <3>1. FromUses(m, Through(m) \union {k}) =
              FromUses(m, Through(m)) \union {[at |-> Ident(m, "from", k), symbol |-> ModSymbol(Uses(m)[k])]}
      BY OneMore DEF FromUses
    <3>2. FromUses(m, Entered(m))' = FromUses(m, Through(m) \union {k})
      BY <2>5, <2>7
    <3> QED
      BY <1>6, <2>1, <2>2, <2>7, <3>1, <3>2
  <2>8. CASE m # h
    BY <1>6, <2>1, <2>2, <2>5, <2>6, <2>8
  <2> QED
    BY <2>7, <2>8
<1> QED
  BY <1>7, <1>8, <1>9, <1>12 DEF Remembered

\* From one phase of the analysis to the next.
LEMMA Onward ==
    ASSUME Local, Local', Remembered, UNCHANGED <<content, gen, bound, set>>,
           pc \in {"resolve", "bodies", "index"}, pc' \in {"bodies", "index", "publish"},
           \A m \in set : \A n \in DOMAIN Uses(m) : Resolved(m, n)
    PROVE  /\ \A m : Uses(m)' = Uses(m) /\ AllUses(m)' = AllUses(m)
           /\ \A m, n : /\ LookUp(m, n)' = LookUp(m, n) /\ Mentioned(m, n)' = Mentioned(m, n)
                        /\ (Defines(m, n)' <=> Defines(m, n)) /\ Line(m, n)' = Line(m, n)
           /\ Bound' /\ Grounded' /\ Item' /\ Behind'
<1>1. \A m : Uses(m)' = Uses(m)
  BY DEF Uses
<1>2. \A m, n : /\ (Resolved(m, n)' <=> Resolved(m, n)) /\ (Defines(m, n)' <=> Defines(m, n))
               /\ Line(m, n)' = Line(m, n)
  BY DEF Resolved, Defines, Line
<1>3. \A m, n : LookUp(m, n)' = LookUp(m, n) /\ Mentioned(m, n)' = Mentioned(m, n)
  BY <1>2 DEF LookUp, Imports, Mentioned, Known, Uses
<1>4. \A s, n : Proper(s, n)' <=> Proper(s, n)
  BY <1>2 DEF Proper
<1>5. ASSUME NEW m PROVE AllUses(m)' = AllUses(m)
  <2>1. FromUses(m, DOMAIN Uses(m))' = FromUses(m, DOMAIN Uses(m))
    BY <1>1 DEF FromUses
  <2>2. UseUses(m, DOMAIN Uses(m))' = UseUses(m, DOMAIN Uses(m))
    BY <1>1, <1>3 DEF UseUses
  <2>3. CallUses(m)' = CallUses(m)
    BY <1>3 DEF CallUses
  <2> QED
    BY <2>1, <2>2, <2>3 DEF AllUses
<1>6. \A m \in Modules : BoundAt(m)
  BY DEF Remembered, Bound, Analyzed, Resolving
<1>7. Bound'
  <2> SUFFICES ASSUME NEW m \in Modules PROVE BoundAt(m)'
    BY DEF Bound
  <2> QED
    BY <1>1, <1>2, <1>3, <1>4, <1>6 DEF BoundAt
<1>8. Grounded'
  <2>1. \A m \in Modules : \A n \in Names : Passed(m, n)' => Passed(m, n) /\ Uses(m)'[n] = Uses(m)[n]
    BY <1>1, <1>2 DEF Passed, Analyzed, Resolving
  <2> QED
    BY <2>1, GroundedKept DEF Remembered
<1>9. Item' /\ Behind'
  BY DEF Item, Behind, Local, Phases
<1> QED
  BY <1>1, <1>2, <1>3, <1>5, <1>7, <1>8, <1>9

\* A module is left behind when all of its imports are bound.
LEMMA NextModuleRemembered == Local /\ Remembered /\ NextModule => Remembered'
<1> SUFFICES ASSUME Local, Remembered, NextModule PROVE Remembered'
  OBVIOUS
<1>l. Local'
  BY NextModuleLocal
<1>1. /\ pc = "resolve" /\ items = <<>>
      /\ UNCHANGED <<content, gen, bound, set, items, recorded, index, symbolDefs>>
  BY DEF NextModule
<1>2. /\ \A m \in Modules : BoundAt(m)
      /\ \A m \in Modules : DOMAIN bound[m] = DOMAIN Uses(m)
  BY <1>1 DEF Remembered, Bound, BoundAt, Analyzed, Resolving
<1>3. \A m, n : ~AtHand(m, n) /\ ~AtHand(m, n)'
  BY <1>1 DEF AtHand
<1>4. CASE order = <<>>
  <2>1. pc' = "bodies" /\ order' = <<>>
    BY <1>4 DEF NextModule
  <2>2. \A m \in set : \A n \in DOMAIN Uses(m) : Resolved(m, n)
    BY <1>1, <1>4 DEF Remembered, Behind, ToSet
  <2>3. /\ \A m : Uses(m)' = Uses(m)
        /\ \A m, n : Mentioned(m, n)' = Mentioned(m, n)
        /\ Bound' /\ Grounded' /\ Item' /\ Behind'
    BY <1>l, <1>1, <2>1, <2>2, Onward
  <2>4. \A k \in Modules \ set' : Same(k)
    BY <1>1 DEF Same
  <2>5. \A m \in Modules : (Untouched(m)' => Listed(m)) /\ (Listed(m)' => Untouched(m)')
    BY <1>1, <2>1 DEF Untouched, Listed
  <2>6. \A m \in Modules : Untouched(m)' => IndexedAt(m)' /\ KeyedAt(m)'
    BY <1>l, <1>1, <2>4, <2>5, UntouchedKept DEF Remembered
  <2>7. Indexed' /\ Keyed'
    BY <1>1, <2>5, <2>6 DEF Indexed, Keyed, Remembered
  <2>8. Recorded'
    <3> SUFFICES ASSUME NEW m \in set
                 PROVE  recorded[m] = FromUses(m, DOMAIN Uses(m))' \union UseUses(m, DOMAIN Uses(m))'
      BY <1>1, <2>1 DEF Recorded, RecordedAt
    <3>1. Entered(m) = DOMAIN Uses(m) /\ Through(m) = DOMAIN Uses(m)
      BY <2>2 DEF Through, Entered
    <3>2. recorded[m] = FromUses(m, DOMAIN Uses(m)) \union UseUses(m, DOMAIN Uses(m))
      BY <1>1, <3>1 DEF Remembered, Recorded, RecordedAt
    <3>3. FromUses(m, DOMAIN Uses(m))' = FromUses(m, DOMAIN Uses(m))
      BY <2>3 DEF FromUses
    <3>4. UseUses(m, DOMAIN Uses(m))' = UseUses(m, DOMAIN Uses(m))
      BY <2>3 DEF UseUses
    <3> QED
      BY <3>2, <3>3, <3>4
  <2> QED
    BY <2>3, <2>7, <2>8 DEF Remembered
<1>5. CASE order # <<>>
  <2>1. pc' = pc /\ order' = Tail(order)
    BY <1>5 DEF NextModule
  <2>2. Head(order) \in Modules /\ \A n \in DOMAIN Uses(Head(order)) : Resolved(Head(order), n)
    <3>1. Head(order) \in Modules
      BY <1>5, HeadAndTail DEF Local, Types
    <3> QED
      BY <1>2, <1>5, <3>1 DEF NextModule, Resolved
  <2>3. /\ \A m : Uses(m)' = Uses(m)
        /\ \A m, n : (Resolved(m, n)' <=> Resolved(m, n)) /\ Mentioned(m, n)' = Mentioned(m, n)
        /\ Bound' /\ Grounded' /\ Indexed' /\ Keyed'
    BY <1>1, <2>1, ViewKept DEF Remembered
  <2>4. Item'
    BY <1>1 DEF Item
  <2>5. Behind'
    <3> SUFFICES ASSUME NEW m \in set, m \notin ToSet(order') PROVE \A n \in DOMAIN Uses(m) : Resolved(m, n)
      BY <1>1, <2>3 DEF Behind, ToSet
    <3>1. m = Head(order) \/ m \notin ToSet(order)
      BY <1>5, <2>1, HeadAndTail DEF Local, Types
    <3> QED
      BY <1>1, <2>2, <3>1 DEF Remembered, Behind
  <2>6. Recorded'
    <3> SUFFICES ASSUME NEW m \in set
                 PROVE  recorded[m] = FromUses(m, Entered(m))' \union UseUses(m, Through(m))'
      BY <1>1, <2>1 DEF Recorded, RecordedAt
    <3>1. Entered(m)' = Entered(m)
      BY <1>3, <2>3 DEF Entered
    <3>2. FromUses(m, Entered(m))' = FromUses(m, Entered(m))
      BY <2>3, <3>1 DEF FromUses
    <3>3. UseUses(m, Through(m))' = UseUses(m, Through(m))
      BY <2>3 DEF Through, UseUses
    <3> QED
      BY <1>1, <3>2, <3>3 DEF Remembered, Recorded, RecordedAt
  <2> QED
    BY <2>3, <2>4, <2>5, <2>6 DEF Remembered
<1> QED
  BY <1>4, <1>5

\* The bodies record the uses of the names that are called.
LEMMA AnalyzeBodiesRemembered == Local /\ Remembered /\ AnalyzeBodies => Remembered'
<1> SUFFICES ASSUME Local, Remembered, AnalyzeBodies PROVE Remembered'
  OBVIOUS
<1>l. Local'
  BY AnalyzeBodiesLocal
<1>1. pc = "bodies" /\ pc' = "index" /\ UNCHANGED <<content, gen, bound, set, index, symbolDefs>>
  BY DEF AnalyzeBodies
<1>2. set \subseteq Modules
  BY DEF Local, Types
<1>3. \A m \in set : \A n \in DOMAIN Uses(m) : Resolved(m, n)
  BY <1>1, <1>2 DEF Remembered, Bound, BoundAt, Analyzed, Resolving
<1>4. /\ \A m : AllUses(m)' = AllUses(m)
      /\ Bound' /\ Grounded' /\ Item' /\ Behind'
  BY <1>l, <1>1, <1>3, Onward
<1>5. \A k \in Modules \ set' : Same(k)
  BY <1>1 DEF Same
<1>6. \A m \in Modules : (Untouched(m)' => Listed(m)) /\ (Listed(m)' => Untouched(m)')
  BY <1>1 DEF Untouched, Listed
<1>7. \A m \in Modules : Untouched(m)' => IndexedAt(m)' /\ KeyedAt(m)'
  BY <1>l, <1>1, <1>5, <1>6, UntouchedKept DEF Remembered
<1>8. Indexed' /\ Keyed'
  BY <1>1, <1>6, <1>7 DEF Indexed, Keyed, Remembered
<1>9. Recorded'
  <2> SUFFICES ASSUME NEW m \in set PROVE recorded'[m] = AllUses(m)
    BY <1>1, <1>4 DEF Recorded, RecordedAt
  <2>1. recorded[m] = FromUses(m, DOMAIN Uses(m)) \union UseUses(m, DOMAIN Uses(m))
    BY <1>1 DEF Remembered, Recorded, RecordedAt
  <2>2. recorded'[m] = recorded[m] \union {[at |-> Ident(m, "call", n), symbol |-> LookUp(m, n)] :
                            n \in content[m].calls \ {k \in content[m].calls : LookUp(m, k) = NoSymbol}}
    BY <1>2 DEF AnalyzeBodies
  <2>3. content[m].calls \ {k \in content[m].calls : LookUp(m, k) = NoSymbol}
            = {k \in content[m].calls : LookUp(m, k) # NoSymbol}
    OBVIOUS
  <2> QED
    BY <2>1, <2>2, <2>3 DEF AllUses, CallUses
<1> QED
  BY <1>4, <1>8, <1>9 DEF Remembered

\* What the import at hand is bound to: what its name is bound to in the other
\* module, where it is not open.
Resolves(h, n) ==
    /\ h = Head(order) /\ ~Resolved(h, n) /\ items = <<<<h, n>>>> /\ items' = <<>>
    /\ Uses(h)[n] \in Modules /\ Uses(h)[n] # h
    /\ LookUp(Uses(h)[n], n) # Unresolved /\ Proper(LookUp(Uses(h)[n], n), n)
    /\ bound' = [bound EXCEPT ![h][n] = LookUp(Uses(h)[n], n)]
    /\ recorded' = Used(h, Ident(h, "use", n),
                        IF Known(Uses(h)[n], n) THEN LookUp(Uses(h)[n], n) ELSE ModSymbol(Uses(h)[n]))

\* A step of the resolver that leads to no other module binds one import.
LEMMA Resolution ==
    ASSUME Local, Remembered, ResolveImport, ~remote'
    PROVE  \E h \in set : \E n \in DOMAIN Uses(h) : Resolves(h, n)
<1>1. pc = "resolve" /\ items # <<>> /\ order # <<>>
  BY DEF ResolveImport, Local, Phases
<1> DEFINE h == Head(order)
<1>2. h \in set /\ h \in Modules
  BY <1>1, HeadAndTail DEF Local, Types
<1>3. PICK n \in DOMAIN Uses(h) : items = <<<<h, n>>>> /\ ~Resolved(h, n)
  BY <1>1 DEF Remembered, Item, AtHand
<1> DEFINE from == Uses(h)[n]
<1>4. from \in Modules /\ n \in Names /\ ~Defines(h, n)
  BY <1>2, TextType DEF Local
<1>5. Last(items)[1] = h /\ Last(items)[2] = n /\ Front(items) = <<>> /\ content[h].uses[n] = from
  BY <1>3, OnePair DEF Uses
<1>6. \/ Defines(from, n) /\ Bind(h, n, Symbol(from, gen[from], n), Symbol(from, gen[from], n))
      \/ Imports(from, n) /\ bound[from][n] # Unresolved /\ Bind(h, n, bound[from][n], bound[from][n])
      \/ ~Defines(from, n) /\ ~Imports(from, n) /\ Bind(h, n, NoSymbol, ModSymbol(from))
  BY <1>5 DEF ResolveImport
<1>7. Bind(h, n, LookUp(from, n), IF Known(from, n) THEN LookUp(from, n) ELSE ModSymbol(from))
      /\ LookUp(from, n) # Unresolved /\ Proper(LookUp(from, n), n)
  <2>1. CASE Defines(from, n) /\ Bind(h, n, Symbol(from, gen[from], n), Symbol(from, gen[from], n))
    <3>1. LookUp(from, n) = Symbol(from, gen[from], n) /\ Known(from, n)
      BY <2>1 DEF LookUp, Known
    <3> QED
      BY <1>4, <2>1, <3>1, SymbolFacts DEF Proper
  <2>2. CASE Imports(from, n) /\ bound[from][n] # Unresolved /\ Bind(h, n, bound[from][n], bound[from][n])
    <3>1. n \in DOMAIN Uses(from)
      BY <2>2 DEF Imports, Uses
    <3>2. ~Defines(from, n)
      BY <1>4, <3>1, TextType DEF Local
    <3>3. LookUp(from, n) = bound[from][n] /\ Known(from, n)
      BY <2>2, <3>2 DEF LookUp, Known
    <3>4. BoundAt(from)
      BY <1>1, <1>4 DEF Remembered, Bound, Analyzed, Resolving
    <3>5. Proper(bound[from][n], n)
      BY <2>2, <3>1, <3>4 DEF BoundAt, Resolved
    <3> QED
      BY <2>2, <3>3, <3>5
  <2>3. CASE ~Defines(from, n) /\ ~Imports(from, n) /\ Bind(h, n, NoSymbol, ModSymbol(from))
    <3>1. LookUp(from, n) = NoSymbol /\ ~Known(from, n)
      BY <2>3 DEF LookUp, Known
    <3> QED
      BY <2>3, <3>1, SymbolFacts DEF Proper
  <2> QED
    BY <1>6, <2>1, <2>2, <2>3
<1>8. from # h
  <2>1. LookUp(h, n) = Unresolved
    BY <1>3, <1>4 DEF LookUp, Imports, Uses, Resolved
  <2> QED
    BY <1>7, <2>1
<1> QED
  BY <1>2, <1>3, <1>4, <1>5, <1>7, <1>8 DEF Bind, Resolves

\* The import that is bound gets what its name stands for where it comes from;
\* ranks for it are found one above those of the module it comes from.
LEMMA ResolveImportRemembered == Local /\ Remembered /\ ResolveImport /\ ~remote' => Remembered'
<1> SUFFICES ASSUME Local, Remembered, ResolveImport, ~remote' PROVE Remembered'
  OBVIOUS
<1>l. Local'
  BY ResolveImportLocal
<1>1. /\ pc = "resolve" /\ pc' = "resolve" /\ order # <<>>
      /\ UNCHANGED <<content, gen, set, order, index, symbolDefs>>
  BY DEF ResolveImport, Local, Phases
<1>h. PICK h \in set : \E n \in DOMAIN Uses(h) : Resolves(h, n)
  BY Resolution
<1>n. PICK n \in DOMAIN Uses(h) : Resolves(h, n)
  BY <1>h
<1>2. /\ n \in DOMAIN Uses(h) /\ h \in set
      /\ h = Head(order) /\ ~Resolved(h, n) /\ items = <<<<h, n>>>> /\ items' = <<>>
      /\ Uses(h)[n] \in Modules /\ Uses(h)[n] # h
      /\ LookUp(Uses(h)[n], n) # Unresolved /\ Proper(LookUp(Uses(h)[n], n), n)
      /\ bound' = [bound EXCEPT ![h][n] = LookUp(Uses(h)[n], n)]
      /\ recorded' = Used(h, Ident(h, "use", n),
                        IF Known(Uses(h)[n], n) THEN LookUp(Uses(h)[n], n) ELSE ModSymbol(Uses(h)[n]))
  BY <1>n DEF Resolves
<1> DEFINE from == Uses(h)[n]
<1>3. PICK s : s = LookUp(from, n)
  OBVIOUS
<1>4. h \in Modules /\ DOMAIN bound = Modules /\ n \in Names
  BY <1>2, TextType DEF Local, Types
<1>5. \A m \in Modules : BoundAt(m) /\ DOMAIN bound[m] = DOMAIN Uses(m)
  BY <1>1 DEF Remembered, Bound, BoundAt, Analyzed, Resolving
<1>6. /\ bound'[h][n] = s /\ DOMAIN bound'[h] = DOMAIN bound[h]
      /\ \A m \in Modules : m # h => bound'[m] = bound[m]
      /\ \A k \in DOMAIN Uses(h) : k # n => bound'[h][k] = bound[h][k]
  BY <1>2, <1>3, <1>4, <1>5
<1>7. \A m : Uses(m)' = Uses(m)
  BY <1>1 DEF Uses
<1>8. \A m, k : Defines(m, k)' <=> Defines(m, k)
  BY <1>1 DEF Defines
<1>9. ASSUME NEW m \in Modules, NEW k, m # h \/ k # n PROVE LookUp(m, k)' = LookUp(m, k)
  <2>1. Imports(m, k) => bound'[m][k] = bound[m][k]
    BY <1>6, <1>9 DEF Imports, Uses
  <2> QED
    BY <1>1, <1>8, <2>1 DEF LookUp, Imports
<1>10. \A t, k : Proper(t, k)' <=> Proper(t, k)
  BY <1>1, <1>8 DEF Proper
<1>11. LookUp(h, n) = Unresolved
  <2>1. ~Defines(h, n)
    BY <1>4, TextType DEF Local
  <2> QED
    BY <1>2, <2>1 DEF LookUp, Imports, Uses, Resolved
<1>12. \A m \in Modules, k \in Names : Resolved(m, k) => Resolved(m, k)'
  <2>1. Resolved(h, n)'
    BY <1>2, <1>3, <1>6 DEF Resolved
  <2> SUFFICES ASSUME NEW m \in Modules, NEW k \in Names, Resolved(m, k), m # h \/ k # n PROVE Resolved(m, k)'
    BY <2>1
  <2>2. CASE m # h
    BY <1>6, <2>2 DEF Resolved
  <2>3. CASE k # n
    BY <1>2, <1>4, <2>3 DEF Resolved
  <2> QED
    BY <2>2, <2>3
<1>13. ASSUME NEW m \in Modules, NEW k \in DOMAIN Uses(m), m # h \/ k # n
       PROVE  /\ bound'[m][k] = bound[m][k] /\ (Resolved(m, k)' <=> Resolved(m, k))
              /\ Resolved(m, k) => ~(Uses(m)[k] = h /\ k = n)
  <2>1. bound'[m][k] = bound[m][k]
    BY <1>6, <1>13
  <2>2. ASSUME Resolved(m, k), Uses(m)[k] = h, k = n PROVE FALSE
    <3>1. bound[m][k] = LookUp(h, n)
      BY <1>5, <2>2 DEF BoundAt
    <3> QED
      BY <1>11, <2>2, <3>1 DEF Resolved
  <2> QED
    BY <2>1, <2>2 DEF Resolved
<1>14. Bound'
  <2> SUFFICES ASSUME NEW m \in Modules PROVE BoundAt(m)'
    BY DEF Bound
  <2>1. DOMAIN bound'[m] = DOMAIN Uses(m)
    BY <1>5, <1>6
  <2>2. ASSUME NEW k \in DOMAIN Uses(m)
        PROVE  \/ ~Resolved(m, k)' /\ m \in set
               \/ /\ Resolved(m, k)'
                  /\ bound'[m][k] = LookUp(Uses(m)[k], k)'
                  /\ Proper(bound[m][k], k)'
    <3>1. CASE m = h /\ k = n
      <4>1. Resolved(h, n)'
        BY <1>2, <1>3, <1>6 DEF Resolved
      <4>2. bound'[h][n] = LookUp(from, n)'
        BY <1>2, <1>3, <1>6, <1>7, <1>9
      <4>3. Proper(bound[h][n], n)'
        BY <1>2, <1>3, <1>6, <1>1, <1>8 DEF Proper
      <4>4. Resolved(m, k)' /\ Proper(bound[m][k], k)'
        BY <3>1, <4>1, <4>3 DEF Resolved, Proper
      <4>5. bound'[m][k] = LookUp(Uses(m)[k], k)'
        BY <3>1, <4>2 DEF LookUp, Uses, Defines, Imports
      <4> QED
        BY <4>4, <4>5
    <3>2. CASE m # h \/ k # n
      <4>1. \/ ~Resolved(m, k) /\ m \in set
            \/ /\ Resolved(m, k)
               /\ bound[m][k] = LookUp(Uses(m)[k], k)
               /\ Proper(bound[m][k], k)
        BY <1>5 DEF BoundAt
      <4>2. Uses(m)[k] \in Modules
        BY TextType DEF Local
      <4>3. Resolved(m, k) => LookUp(Uses(m)[k], k)' = LookUp(Uses(m)[k], k)
        BY <1>7, <1>9, <1>13, <3>2, <4>2
      <4>4. bound'[m][k] = bound[m][k] /\ (Resolved(m, k)' <=> Resolved(m, k))
        BY <1>13, <3>2
      <4>5. Proper(bound[m][k], k) => Proper(bound[m][k], k)'
        BY <1>1, <1>8, <4>4 DEF Proper
      <4> QED
        BY <4>1, <4>3, <4>4, <4>5
    <3> QED
      BY <3>1, <3>2
  <2> QED
    BY <1>1, <1>7, <2>1, <2>2 DEF BoundAt
<1>15. Grounded'
  <2> SUFFICES ASSUME NEW k \in Names PROVE \E r \in [Modules -> Nat] : Ranks(r, k)'
    BY DEF Grounded
  <2>1. PICK r \in [Modules -> Nat] : Ranks(r, k)
    BY DEF Remembered, Grounded
  <2>2. ASSUME NEW m \in Modules, Passed(m, k)', m # h \/ k # n
        PROVE  Passed(m, k) /\ ~(Uses(m)[k] = h /\ k = n)
    BY <1>1, <1>7, <1>13, <2>2 DEF Passed, Analyzed, Resolving
  <2>3. CASE k # n
    <3>1. Ranks(r, k)'
      BY <1>7, <2>1, <2>2, <2>3 DEF Ranks
    <3> QED
      BY <3>1
  <2>4. CASE k = n
    <3>1. PICK q \in [Modules -> Nat] : /\ q[h] = r[from] + 1 /\ r[from] \in Nat
                                        /\ \A m \in Modules : m # h => q[m] = r[m]
      <4>1. /\ [r EXCEPT ![h] = r[from] + 1] \in [Modules -> Nat]
            /\ [r EXCEPT ![h] = r[from] + 1][h] = r[from] + 1 /\ r[from] \in Nat
            /\ \A m \in Modules : m # h => [r EXCEPT ![h] = r[from] + 1][m] = r[m]
        BY <1>2, <1>4
      <4> QED
        BY <4>1
    <3>2. ASSUME NEW m \in Modules, Passed(m, n)' PROVE q[Uses(m)[n]] < q[m]
      <4>1. CASE m = h
        BY <1>2, <3>1, <4>1
      <4>2. CASE m # h
        <5>1. Passed(m, n) /\ Uses(m)[n] # h
          BY <2>2, <2>4, <3>2, <4>2
        <5>2. Uses(m)[n] \in Modules
          BY <5>1, TextType DEF Passed, Local
        <5>3. r[Uses(m)[n]] < r[m]
          BY <2>1, <2>4, <5>1 DEF Ranks
        <5> QED
          BY <3>1, <4>2, <5>1, <5>2, <5>3
      <4> QED
        BY <4>1, <4>2
    <3>3. Ranks(q, k)'
      BY <1>7, <2>4, <3>2 DEF Ranks
    <3> QED
      BY <3>3
  <2> QED
    BY <2>3, <2>4
<1>16. Indexed' /\ Keyed'
  <2>1. \A k \in Modules \ set' : Same(k)
    BY <1>1, <1>6 DEF Same
  <2>2. \A m \in Modules : (Untouched(m)' => Listed(m)) /\ (Listed(m)' => Untouched(m)')
    BY <1>1 DEF Untouched, Listed
  <2>3. \A m \in Modules : Untouched(m)' => IndexedAt(m)' /\ KeyedAt(m)'
    BY <1>l, <1>1, <2>1, <2>2, UntouchedKept DEF Remembered
  <2> QED
    BY <1>1, <2>2, <2>3 DEF Indexed, Keyed, Remembered
<1>17. Item' /\ Behind'
  <2>1. \A m \in set \ ToSet(order) : \A k \in DOMAIN Uses(m) : Resolved(m, k)
    BY <1>1 DEF Remembered, Behind
  <2>2. \A m \in set : m \in Modules /\ DOMAIN Uses(m) \subseteq Names
    BY TextType DEF Local, Types
  <2>3. ToSet(order)' = ToSet(order)
    BY <1>1 DEF ToSet
  <2> QED
    BY <1>1, <1>2, <1>7, <1>12, <2>1, <2>2, <2>3 DEF Item, Behind
<1>18. Recorded'
  <2> SUFFICES ASSUME NEW m \in set
               PROVE  recorded'[m] = FromUses(m, Entered(m))' \union UseUses(m, Through(m))'
    BY <1>1 DEF Recorded, RecordedAt
  <2>1. recorded[m] = FromUses(m, Entered(m)) \union UseUses(m, Through(m))
    BY <1>1 DEF Remembered, Recorded, RecordedAt
  <2>2. m \in Modules
    BY DEF Local, Types
  <2>3. /\ \A k : AtHand(m, k) <=> (m = h /\ k = n)
        /\ \A k : ~AtHand(m, k)'
    BY <1>2 DEF AtHand
  <2>4. Resolved(h, n)'
    BY <1>2, <1>3, <1>6 DEF Resolved
  <2>5. Entered(m)' = Entered(m)
    BY <1>2, <1>7, <1>13, <2>2, <2>3, <2>4 DEF Entered
  <2>6. FromUses(m, Entered(m))' = FromUses(m, Entered(m))
    BY <1>7, <2>5 DEF FromUses
  <2>7. /\ recorded'[h] = recorded[h] \union {[at |-> Ident(h, "use", n),
                              symbol |-> IF Known(from, n) THEN s ELSE ModSymbol(from)]}
        /\ m # h => recorded'[m] = recorded[m]
    BY <1>1, <1>2, <1>3, <2>2, UsedTypes
  <2>8. ASSUME NEW k \in DOMAIN Uses(m), m # h \/ k # n PROVE Mentioned(m, k)' = Mentioned(m, k)
    <3>1. Known(Uses(m)[k], k)' <=> Known(Uses(m)[k], k)
      BY <1>1, <1>7, <1>8 DEF Known, Imports
    <3> QED
      BY <1>7, <1>13, <2>2, <2>8, <3>1 DEF Mentioned
  <2>9. CASE m # h
    <3>1. Through(m)' = Through(m)
      BY <1>7, <1>13, <2>2, <2>9 DEF Through
    <3>2. UseUses(m, Through(m))' = UseUses(m, Through(m))
      BY <2>8, <2>9, <3>1 DEF UseUses, Through
    <3> QED
      BY <2>1, <2>6, <2>7, <2>9, <3>2
  <2>10. CASE m = h
    <3>1. Through(h)' = Through(h) \union {n}
      BY <1>2, <1>7, <1>13, <2>2, <2>4, <2>10 DEF Through
    <3>2. Mentioned(h, n)' = IF Known(from, n) THEN s ELSE ModSymbol(from)
      <4>1. Known(Uses(h)[n], n)' <=> Known(from, n)
        BY <1>1, <1>7, <1>8 DEF Known, Imports
      <4> QED
        BY <1>6, <1>7, <4>1 DEF Mentioned
    <3>3. UseUses(h, Through(h))' =
              UseUses(h, Through(h)) \union {[at |-> Ident(h, "use", n),
                              symbol |-> IF Known(from, n) THEN s ELSE ModSymbol(from)]}
      <4>1. UseUses(h, Through(h))' = {[at |-> Ident(h, "use", k), symbol |-> Mentioned(h, k)'] :
                                          k \in Through(h) \union {n}}
        BY <3>1 DEF UseUses
      <4>2. \A k \in Through(h) : Mentioned(h, k)' = Mentioned(h, k)
        BY <1>2, <2>8, <2>10 DEF Through
      <4> QED
        BY <3>2, <4>1, <4>2 DEF UseUses
    <3> QED
      BY <2>1, <2>6, <2>7, <2>10, <3>3
  <2> QED
    BY <2>9, <2>10
<1> QED
  BY <1>14, <1>15, <1>16, <1>17, <1>18 DEF Remembered

-----------------------------------------------------------------------------
(* The step that builds the index.                                         *)

\* The keys of declarations after the index is built: new ones for the set, the
\* old ones for the rest.
LEMMA KeyFacts ==
    ASSUME Types, BuildIndex
    PROVE  /\ \A s \in DOMAIN symbolDefs' : s \in DOMAIN symbolDefs \/ s.mod \in set
           /\ \A s : s.mod \notin set /\ s \in DOMAIN symbolDefs =>
                         s \in DOMAIN symbolDefs' /\ symbolDefs'[s] = symbolDefs[s]
           /\ \A m \in set, n \in Names : Defines(m, n) =>
                  /\ Symbol(m, gen[m], n) \in DOMAIN symbolDefs'
                  /\ symbolDefs'[Symbol(m, gen[m], n)] = [mod |-> m, pos |-> Line(m, n)]
<1>1. /\ DOMAIN symbolDefs' = DOMAIN Keys \union DOMAIN symbolDefs
      /\ \A s \in DOMAIN Keys : symbolDefs'[s] = Keys[s]
      /\ \A s \in DOMAIN symbolDefs : s \notin DOMAIN Keys => symbolDefs'[s] = symbolDefs[s]
  BY DEF BuildIndex
<1>2. \A s \in DOMAIN Keys : Keys[s] = [mod |-> s.mod, pos |-> Line(s.mod, s.name)]
  BY DEF Keys
<1>3. ASSUME NEW s \in DOMAIN Keys PROVE s.mod \in set
  <2>1. PICK p \in {q \in set \X Names : Defines(q[1], q[2])} : s = Symbol(p[1], gen[p[1]], p[2])
    BY DEF Keys
  <2> QED
    BY <2>1, SymbolFacts
<1>4. ASSUME NEW m \in set, NEW n \in Names, Defines(m, n)
      PROVE  /\ Symbol(m, gen[m], n) \in DOMAIN symbolDefs'
             /\ symbolDefs'[Symbol(m, gen[m], n)] = [mod |-> m, pos |-> Line(m, n)]
  <2>1. <<m, n>> \in {q \in set \X Names : Defines(q[1], q[2])}
    BY <1>4
  <2>2. Symbol(m, gen[m], n) \in DOMAIN Keys
    BY <2>1 DEF Keys
  <2>3. Symbol(m, gen[m], n).mod = m /\ Symbol(m, gen[m], n).name = n
    BY SymbolFacts
  <2> QED
    BY <1>1, <1>2, <2>2, <2>3
<1> QED
  BY <1>1, <1>3, <1>4

\* The index has what was found in the set and what it had of the rest.
LEMMA BuildIndexRemembered == Local /\ Remembered /\ BuildIndex => Remembered'
<1> SUFFICES ASSUME Local, Remembered, BuildIndex PROVE Remembered'
  OBVIOUS
<1>l. Local'
  BY BuildIndexLocal
<1>1. /\ pc = "index" /\ pc' = "publish"
      /\ UNCHANGED <<content, gen, bound, set>>
      /\ set \subseteq Modules
  BY Built DEF Local, Types
<1>2. \A m \in Modules : BoundAt(m)
  BY <1>1 DEF Remembered, Bound, Analyzed, Resolving
<1>3. \A m \in Modules : \A n \in DOMAIN Uses(m) :
          /\ Resolved(m, n) /\ bound[m][n] = LookUp(Uses(m)[n], n) /\ Proper(bound[m][n], n)
          /\ n \in Names /\ Uses(m)[n] \in Modules
  BY <1>1, <1>2, TextType DEF BoundAt, Local
<1>4. /\ \A m : Uses(m)' = Uses(m) /\ AllUses(m)' = AllUses(m)
      /\ \A m, n : (Defines(m, n)' <=> Defines(m, n)) /\ Line(m, n)' = Line(m, n)
      /\ Bound' /\ Grounded' /\ Item' /\ Behind'
  BY <1>l, <1>1, <1>3, Onward
<1>5. Recorded'
  BY <1>1 DEF Recorded, RecordedAt
<1>6. \A m \in Modules : m \notin set => IndexedAt(m) /\ KeyedAt(m) /\ \A k \in set : ~Depends(m, k)
  <2> SUFFICES ASSUME NEW m \in Modules, m \notin set
               PROVE  IndexedAt(m) /\ KeyedAt(m) /\ \A k \in set : ~Depends(m, k)
    OBVIOUS
  <2>1. Untouched(m)
    BY <1>1, RestUntouched
  <2> QED
    BY <1>1, <2>1 DEF Listed, Remembered, Indexed, Keyed, Untouched, Depends
<1>7. \A m \in Modules : \A n \in Names : Defines(m, n) =>
          /\ Symbol(m, gen[m], n) \in DOMAIN symbolDefs'
          /\ symbolDefs'[Symbol(m, gen[m], n)] = [mod |-> m, pos |-> Line(m, n)]
  <2> SUFFICES ASSUME NEW m \in Modules, NEW n \in Names, Defines(m, n)
               PROVE  /\ Symbol(m, gen[m], n) \in DOMAIN symbolDefs'
                      /\ symbolDefs'[Symbol(m, gen[m], n)] = [mod |-> m, pos |-> Line(m, n)]
    OBVIOUS
  <2>1. CASE m \in set
    BY <2>1, KeyFacts DEF Local
  <2>2. CASE m \notin set
    <3>1. /\ Symbol(m, gen[m], n) \in DOMAIN symbolDefs
          /\ symbolDefs[Symbol(m, gen[m], n)] = [mod |-> m, pos |-> Line(m, n)]
      BY <1>6, <2>2 DEF KeyedAt
    <3>2. Symbol(m, gen[m], n).mod = m
      BY SymbolFacts
    <3> QED
      BY <2>2, <3>1, <3>2, KeyFacts DEF Local
  <2> QED
    BY <2>1, <2>2
<1>8. \A s \in DOMAIN symbolDefs' : s.mod \in Modules
  BY <1>1, KeyFacts DEF Local, Remembered, Keyed
<1>9. Keyed'
  BY <1>1, <1>4, <1>7, <1>8 DEF Keyed, KeyedAt
<1>10. \A m \in Modules : AllDefs[m] = DefsOf(m)
  BY <1>6, Built DEF AllDefs, NewDefs, IndexedAt
<1>11. ASSUME NEW m \in Modules, NEW u \in AllUses(m)
       PROVE  Definition(u.symbol, AllDefs, symbolDefs') = Where(u.symbol)
  <2>1. \/ u.symbol.name = "module"
        \/ u.symbol = NoSymbol
        \/ \E o \in Modules, n \in Names : Defines(o, n) /\ u.symbol = Symbol(o, gen[o], n)
    BY <1>3, SymbolsUsed, SymbolFacts DEF Proper, Local
  <2>2. CASE u.symbol.name = "module"
    BY <2>2 DEF Definition, Where
  <2>3. CASE u.symbol = NoSymbol
    <3>1. u.symbol \notin DOMAIN symbolDefs' /\ u.symbol.name # "module"
      BY <1>8, <2>3, SymbolFacts
    <3> QED
      BY <2>3, <3>1 DEF Definition, Where
  <2>4. ASSUME NEW o \in Modules, NEW n \in Names, Defines(o, n), u.symbol = Symbol(o, gen[o], n)
        PROVE  Definition(u.symbol, AllDefs, symbolDefs') = Where(u.symbol)
    <3>1. u.symbol.name = n /\ u.symbol.mod = o /\ n # "module" /\ u.symbol # NoSymbol
      BY <2>4, SymbolFacts DEF Symbol
    <3>2. /\ u.symbol \in DOMAIN symbolDefs'
          /\ symbolDefs'[u.symbol].mod = o /\ symbolDefs'[u.symbol].pos = Line(o, n)
      <4>1. /\ Symbol(o, gen[o], n) \in DOMAIN symbolDefs'
            /\ symbolDefs'[Symbol(o, gen[o], n)] = [mod |-> o, pos |-> Line(o, n)]
        BY <1>7, <2>4
      <4> QED
        BY <2>4, <4>1
    <3>3. Line(o, n) \in DOMAIN content[o].defs
      BY <2>4, TextType DEF Local
    <3>4. AllDefs[o] = DefsOf(o) /\ Line(o, n) \in DOMAIN DefsOf(o)
          /\ DefsOf(o)[Line(o, n)].place = Place(o, Line(o, n))
      BY <1>10, <3>3 DEF DefsOf
    <3>5. Definition(u.symbol, AllDefs, symbolDefs') = Place(o, Line(o, n))
      BY <3>1, <3>2, <3>4 DEF Definition
    <3> QED
      BY <3>1, <3>5 DEF Where
  <2> QED
    BY <2>1, <2>2, <2>3, <2>4
<1>12. ASSUME NEW m \in set
       PROVE  NewUses(m, AllDefs, symbolDefs') =
                  {[at |-> u.at, symbol |-> u.symbol, place |-> Where(u.symbol)] : u \in AllUses(m)}
  <2>1. recorded[m] = AllUses(m) /\ m \in Modules
    BY <1>1 DEF Remembered, Recorded, RecordedAt
  <2> QED
    BY <1>11, <2>1 DEF NewUses
<1>13. \A m \in Modules : index'[m].uses =
            {[at |-> u.at, symbol |-> u.symbol, place |-> Where(u.symbol)] : u \in AllUses(m)}
  <2>1. ASSUME NEW m \in Modules, m \in set
        PROVE  index'[m].uses =
                  {[at |-> u.at, symbol |-> u.symbol, place |-> Where(u.symbol)] : u \in AllUses(m)}
    BY <1>12, <2>1, Built
  <2>2. ASSUME NEW m \in Modules, m \notin set
        PROVE  index'[m].uses =
                  {[at |-> u.at, symbol |-> u.symbol, place |-> Where(u.symbol)] : u \in AllUses(m)}
    BY <1>6, <2>2, Built DEF IndexedAt
  <2> QED
    BY <2>1, <2>2
<1>14. ASSUME NEW m \in Modules, NEW n \in DOMAIN Uses(m)
       PROVE  /\ Depends(m, Uses(m)[n])'
              /\ bound[m][n] # NoSymbol => Depends(m, bound[m][n].mod)'
  <2>1. CASE m \notin set
    <3>1. /\ Depends(m, Uses(m)[n])
          /\ bound[m][n] # NoSymbol => Depends(m, bound[m][n].mod)
      BY <1>6, <2>1 DEF IndexedAt
    <3>2. ASSUME NEW k \in Modules, Depends(m, k) PROVE Depends(m, k)'
      <4>1. k \notin set
        BY <1>6, <2>1, <3>2
      <4> QED
        BY <3>2, <4>1, Built DEF Depends
    <3>3. bound[m][n] # NoSymbol => bound[m][n].mod \in Modules
      BY <1>3, SymbolFacts DEF Proper
    <3>4. Uses(m)[n] \in Modules /\ Uses(m)' = Uses(m)
      BY <1>3, <1>4
    <3> QED
      BY <1>1, <3>1, <3>2, <3>3, <3>4 DEF Depends
  <2>2. CASE m \in set
    <3>1. ASSUME NEW u \in AllUses(m)
          PROVE  \E v \in NewUses(m, AllDefs, symbolDefs') : v.symbol = u.symbol
      <4>1. [at |-> u.at, symbol |-> u.symbol, place |-> Where(u.symbol)] \in NewUses(m, AllDefs, symbolDefs')
        BY <1>12, <2>2
      <4> QED
        BY <4>1
    <3>2. [at |-> Ident(m, "from", n), symbol |-> ModSymbol(Uses(m)[n])] \in AllUses(m)
      BY DEF AllUses, FromUses
    <3>3. [at |-> Ident(m, "use", n), symbol |-> Mentioned(m, n)] \in AllUses(m)
      BY DEF AllUses, UseUses
    <3>4. m \in NewDependents(Uses(m)[n])
      <4>1. \E v \in NewUses(m, AllDefs, symbolDefs') : v.symbol = ModSymbol(Uses(m)[n])
        BY <3>1, <3>2
      <4> QED
        BY <4>1 DEF NewDependents
    <3>5. ASSUME bound[m][n] # NoSymbol
          PROVE  bound[m][n].mod \in Modules /\ m \in NewDependents(bound[m][n].mod)
      <4>1. PICK o \in Modules : Defines(o, n) /\ bound[m][n] = Symbol(o, gen[o], n)
        BY <1>3, <3>5 DEF Proper
      <4>2. bound[m][n].mod = o /\ bound[m][n] \in DOMAIN symbolDefs' /\ symbolDefs'[bound[m][n]].mod = o
        <5>1. /\ Symbol(o, gen[o], n) \in DOMAIN symbolDefs'
              /\ symbolDefs'[Symbol(o, gen[o], n)] = [mod |-> o, pos |-> Line(o, n)]
          BY <1>3, <1>7, <4>1
        <5> QED
          BY <1>3, <4>1, <5>1, SymbolFacts
      <4>3. Mentioned(m, n) = bound[m][n]
        BY <1>3, <3>5 DEF Mentioned, LookUp, Known
      <4>4. \E v \in NewUses(m, AllDefs, symbolDefs') : v.symbol = bound[m][n]
        BY <3>1, <3>3, <4>3
      <4> QED
        BY <4>2, <4>4 DEF NewDependents
    <3>6. \A k \in Modules : m \in NewDependents(k) => Depends(m, k)'
      BY Built DEF Depends
    <3>7. Uses(m)[n] \in Modules /\ Uses(m)' = Uses(m)
      BY <1>3, <1>4
    <3> QED
      BY <1>1, <3>4, <3>5, <3>6, <3>7 DEF Depends
  <2> QED
    BY <2>1, <2>2
<1>15. Indexed'
  <2> SUFFICES ASSUME NEW m \in Modules PROVE IndexedAt(m)'
    BY DEF Indexed
  <2>1. index'[m].defs = DefsOf(m)'
    <3>1. DefsOf(m)' = DefsOf(m)
      BY <1>1 DEF DefsOf
    <3>2. index'[m].defs = AllDefs[m]
      BY Built DEF AllDefs
    <3> QED
      BY <1>10, <3>1, <3>2
  <2>2. \A s : Where(s)' = Where(s)
    BY <1>4 DEF Where
  <2>3. index'[m].uses = {[at |-> u.at, symbol |-> u.symbol, place |-> Where(u.symbol)'] : u \in AllUses(m)}
    BY <1>13, <2>2
  <2>4. AllUses(m)' = AllUses(m) /\ Uses(m)' = Uses(m) /\ bound' = bound
    BY <1>1, <1>4
  <2> QED
    BY <1>14, <2>1, <2>3, <2>4 DEF IndexedAt, Depends
<1> QED
  BY <1>4, <1>5, <1>9, <1>15 DEF Remembered

-----------------------------------------------------------------------------
(* The invariant, and what it says of the symbols in the index.            *)

\* At first there is nothing to be remembered.
LEMMA RememberedAtFirst == Init => Remembered
<1> SUFFICES ASSUME Init PROVE Remembered
  OBVIOUS
<1>1. pc = "start" /\ set = {} /\ items = <<>> /\ DOMAIN symbolDefs = {}
  BY DEF Init
<1>2. \A m \in Modules : ~Untouched(m) /\ ~Analyzed(m) /\ ~Listed(m)
  BY <1>1 DEF Untouched, Analyzed, Listed, Resolving
<1>3. Grounded
  <2>1. [m \in Modules |-> 0] \in [Modules -> Nat]
    OBVIOUS
  <2>2. \A n \in Names : Ranks([m \in Modules |-> 0], n)
    BY <1>2 DEF Ranks, Passed
  <2> QED
    BY <2>1, <2>2 DEF Grounded
<1>4. Bound /\ Indexed /\ Keyed
  BY <1>1, <1>2 DEF Bound, Indexed, Keyed
<1>5. Item /\ Behind /\ Recorded
  BY <1>1 DEF Item, Behind, Recorded
<1> QED
  BY <1>3, <1>4, <1>5 DEF Remembered

\* Every step that resolves no import of another module keeps what is
\* remembered.
LEMMA RememberedStep == Local /\ Remembered /\ [Next]_vars /\ ~remote' => Remembered'
<1> SUFFICES ASSUME Local, Remembered, [Next]_vars, ~remote' PROVE Remembered'
  OBVIOUS
<1>1. CASE UNCHANGED vars
  <2>1. /\ UNCHANGED <<content, gen, bound, set, index, symbolDefs>> /\ pc' = pc
        /\ UNCHANGED <<items, order, recorded>>
    BY <1>1 DEF vars
  <2>2. /\ \A m : Uses(m)' = Uses(m) /\ AllUses(m)' = AllUses(m)
        /\ \A m, n : (Resolved(m, n)' <=> Resolved(m, n)) /\ Mentioned(m, n)' = Mentioned(m, n)
        /\ Bound' /\ Grounded' /\ Indexed' /\ Keyed'
    BY <2>1, ViewKept DEF Remembered
  <2>3. \A m, n : AtHand(m, n)' <=> AtHand(m, n)
    BY <2>1 DEF AtHand
  <2>4. Item' /\ Behind'
    BY <2>1, <2>2, <2>3 DEF Remembered, Item, Behind, ToSet
  <2>5. Recorded'
    <3> SUFFICES ASSUME NEW m \in set PROVE RecordedAt(m)'
      BY <2>1 DEF Recorded
    <3>1. Entered(m)' = Entered(m) /\ Through(m)' = Through(m)
      BY <2>2, <2>3 DEF Entered, Through
    <3>2. FromUses(m, Entered(m))' = FromUses(m, Entered(m)) /\ UseUses(m, Through(m))' = UseUses(m, Through(m))
      BY <2>2, <3>1 DEF FromUses, UseUses
    <3>3. /\ FromUses(m, DOMAIN Uses(m))' = FromUses(m, DOMAIN Uses(m))
          /\ UseUses(m, DOMAIN Uses(m))' = UseUses(m, DOMAIN Uses(m))
      BY <2>2 DEF FromUses, UseUses
    <3> QED
      BY <2>1, <2>2, <3>2, <3>3 DEF RecordedAt, Remembered, Recorded
  <2> QED
    BY <2>2, <2>4, <2>5 DEF Remembered
<1> QED
  BY <1>1, InitializeRemembered, DidChangeRemembered, CollectRemembered, GenerateRemembered,
     NextImportRemembered, NextModuleRemembered, ResolveImportRemembered, AnalyzeBodiesRemembered,
     BuildIndexRemembered, PublishRemembered
  DEF Next, Analyze

\* Once an import was resolved in the course of another one, it was.
LEMMA RemoteStays == [Next]_vars /\ Local /\ ~remote' => ~remote
BY DEF Next, Analyze, vars, Initialize, DidChange, CollectDependents, Generate, NextImport, NextModule,
       ResolveImport, AnalyzeBodies, BuildIndex, Publish, Local, Types

\* The inductive invariant holds throughout.
LEMMA Invariance == Spec => []IInv
<1>1. Init => IInv
  BY LocalAtFirst, RememberedAtFirst DEF IInv
<1>2. IInv /\ [Next]_vars => IInv'
  BY LocalStep, RememberedStep, RemoteStays DEF IInv
<1> QED
  BY <1>1, <1>2, PTL DEF Spec

\* No part of the index is about a declaration of an older text, however the
\* modules were edited, as long as no import of one module was resolved in the
\* course of another one (Workspace::build_index, collect_dependents).
THEOREM SymbolsAlwaysCurrent == Spec => []SymbolsCurrent
<1>1. IInv => SymbolsCurrent
  <2> SUFFICES ASSUME IInv, pc = "idle", ~remote, NEW m \in Modules,
                      NEW r \in ToSet(index[m].defs) \union index[m].uses
               PROVE  r.symbol = NoSymbol \/ r.symbol.name = "module" \/ r.symbol.gen = gen[r.symbol.mod]
    BY DEF SymbolsCurrent, Answered, Current
  <2> USE DEF IInv, Local
  <2>1. Listed(m) /\ Remembered
    BY DEF Listed, Untouched, Phases
  <2>2. IndexedAt(m)
    BY <2>1 DEF Remembered, Indexed
  <2>3. \A n \in DOMAIN Uses(m) : bound[m][n] = NoSymbol
            \/ \E o \in Modules : Defines(o, n) /\ bound[m][n] = Symbol(o, gen[o], n)
    BY <2>1, ListedFacts DEF Remembered
  <2>4. \A n \in DOMAIN Uses(m) : n \in Names
    BY TextType
  <2>5. CASE r \in ToSet(index[m].defs)
    <3>1. PICK i \in DOMAIN content[m].defs : r.symbol = Symbol(m, gen[m], content[m].defs[i])
      BY <2>2, <2>5 DEF IndexedAt, DefsOf, ToSet
    <3> QED
      BY <3>1 DEF Symbol
  <2>6. CASE r \in index[m].uses
    <3>1. PICK u \in AllUses(m) : r.symbol = u.symbol
      BY <2>2, <2>6 DEF IndexedAt
    <3>2. \/ r.symbol = NoSymbol \/ \E o : r.symbol = ModSymbol(o)
          \/ \E o \in Modules, n \in Names : r.symbol = Symbol(o, gen[o], n)
      BY <2>3, <2>4, <3>1, SymbolsUsed
    <3> QED
      BY <3>2, SymbolFacts
  <2> QED
    BY <2>5, <2>6
<1> QED
  BY <1>1, Invariance, PTL

-----------------------------------------------------------------------------
(* Following the imports of a name.                                        *)

\* A non-empty set of natural numbers has a least one.
LEMMA LeastNumber ==
    ASSUME NEW S, S \subseteq Nat, S # {}
    PROVE  \E k \in S : \A l \in S : k <= l
<1> DEFINE R == {p \in Nat \X Nat : p[1] < p[2]}
<1>1. OpToRel(<, Nat) = R
  BY DEF OpToRel
<1>2. IsWellFoundedOn(R, Nat)
  BY <1>1, NatLessThanWellFounded
<1>3. \A l, k \in Nat : l < k => <<l, k>> \in R
  OBVIOUS
<1> HIDE DEF R
<1>4. PICK k \in S : \A l \in S : ~(<<l, k>> \in R)
  BY <1>2, WFMin, ZenonT(30)
<1>5. \A l \in S : ~(l < k)
  BY <1>3, <1>4
<1> QED
  BY <1>4, <1>5

Follow(n) ==
    CHOOSE f : f = [k \in 0..Cardinality(Modules) |->
        [o \in Modules |->
            IF Defines(o, n) THEN o
            ELSE IF Imports(o, n) /\ k > 0 THEN f[k - 1][content[o].uses[n]]
            ELSE "none"]]

\* Where a name comes from, as a function of the number of imports followed.
LEMMA OriginFollows ==
    ASSUME NEW m, NEW n
    PROVE  Origin(m, n) = Follow(n)[Cardinality(Modules)][m]
BY DEF Origin, Follow

\* Where the names lead after one more step.
Row(n, k, below) ==
    [o \in Modules |->
        IF Defines(o, n) THEN o
        ELSE IF Imports(o, n) /\ k > 0 THEN below[content[o].uses[n]]
        ELSE "none"]
Rows(f, n, last) == f = [k \in 0..last |-> Row(n, k, f[k - 1])]

\* The imports can be followed for any number of steps.
LEMMA RowsExist ==
    ASSUME NEW n, NEW last \in Nat
    PROVE  \E f : Rows(f, n, last)
<1> DEFINE S == {l \in Nat : ~\E f : Rows(f, n, l)}
<1>1. \A x, y : Row(n, 0, x) = Row(n, 0, y)
  BY DEF Row
<1>2. \E f : Rows(f, n, 0)
  <2> DEFINE f == [k \in 0..0 |-> Row(n, 0, "none")]
  <2>1. \A k \in 0..0 : k = 0
    OBVIOUS
  <2>2. f = [k \in 0..0 |-> Row(n, k, f[k - 1])]
    <3>1. \A k \in 0..0 : Row(n, 0, "none") = Row(n, k, f[k - 1])
      BY <1>1, <2>1
    <3> HIDE DEF f
    <3>2. f = [k \in 0..0 |-> Row(n, 0, "none")]
      BY DEF f
    <3> QED
      BY <3>1, <3>2
  <2> QED
    BY <2>2 DEF Rows
<1>3. ASSUME NEW l \in Nat, NEW g, Rows(g, n, l)
      PROVE  \E f : Rows(f, n, l + 1)
  <2>1. PICK f : f = [k \in 0..(l + 1) |-> IF k = l + 1 THEN Row(n, l + 1, g[l]) ELSE g[k]]
    OBVIOUS
  <2>2. \A k \in 0..l : f[k] = g[k] /\ g[k] = Row(n, k, g[k - 1])
    BY <1>3, <2>1 DEF Rows
  <2>3. ASSUME NEW k \in 0..(l + 1) PROVE f[k] = Row(n, k, f[k - 1])
    <3>1. CASE k = l + 1
      <4>1. f[k] = Row(n, l + 1, g[l]) /\ f[k - 1] = g[l]
        BY <2>1, <2>2, <3>1
      <4> QED
        BY <3>1, <4>1
    <3>2. CASE k = 0
      BY <1>1, <2>2, <3>2
    <3>3. CASE k # 0 /\ k # l + 1
      <4>1. k \in 0..l /\ k - 1 \in 0..l
        BY <3>3
      <4>2. f[k] = Row(n, k, g[k - 1]) /\ f[k - 1] = g[k - 1]
        BY <2>2, <4>1
      <4> QED
        BY <4>2
    <3> QED
      BY <3>1, <3>2, <3>3
  <2>4. f = [k \in 0..(l + 1) |-> f[k]]
    BY <2>1
  <2>5. Rows(f, n, l + 1)
    BY <2>3, <2>4 DEF Rows
  <2> QED
    BY <2>5
<1>4. S = {}
  <2> SUFFICES ASSUME S # {} PROVE FALSE
    OBVIOUS
  <2>1. PICK l \in S : \A j \in S : l <= j
    BY LeastNumber
  <2>2. l \in Nat \ {0}
    BY <1>2
  <2>3. \E g : Rows(g, n, l - 1)
    BY <2>1, <2>2
  <2>4. \E f : Rows(f, n, (l - 1) + 1)
    BY <1>3, <2>2, <2>3
  <2> QED
    BY <2>2, <2>4
<1> QED
  BY <1>4

\* The function has a value at each number of imports.
LEMMA FollowRows ==
    ASSUME NEW n
    PROVE  /\ Cardinality(Modules) \in Nat
           /\ \A k \in 0..Cardinality(Modules) : Follow(n)[k] = Row(n, k, Follow(n)[k - 1])
<1>1. Cardinality(Modules) \in Nat
  BY WorkspaceAssumption, FS_CardinalityType
<1>2. \E f : Rows(f, n, Cardinality(Modules))
  BY <1>1, RowsExist
<1>3. Follow(n) = CHOOSE f : Rows(f, n, Cardinality(Modules))
  BY DEF Follow, Rows, Row
<1>4. Rows(Follow(n), n, Cardinality(Modules))
  BY <1>2, <1>3
<1> QED
  BY <1>1, <1>4 DEF Rows

\* What is known of the texts and bindings when the server has answered.
Settled(n) ==
    \A m \in Modules : n \in DOMAIN Uses(m) =>
        Uses(m)[n] \in Modules /\ ~Defines(m, n) /\ bound[m][n] = LookUp(Uses(m)[n], n)

\* With every change answered, all modules are analyzed and in the index.
LEMMA AtIdle ==
    ASSUME IInv, Answered
    PROVE  /\ Types /\ Remembered
           /\ \A m \in Modules : Listed(m) /\ Analyzed(m) /\ IndexedAt(m)
           /\ \A m \in Modules : \A n \in DOMAIN Uses(m) : Resolved(m, n)
           /\ \A n : Settled(n)
<1>1. Types /\ Remembered /\ pc = "idle" /\ set = {}
  BY DEF IInv, Local, Answered, Phases
<1>2. \A m \in Modules : Listed(m) /\ Analyzed(m) /\ IndexedAt(m)
  BY <1>1 DEF Listed, Analyzed, Untouched, Remembered, Indexed
<1>3. \A m \in Modules : \A n \in DOMAIN Uses(m) : Resolved(m, n) /\ bound[m][n] = LookUp(Uses(m)[n], n)
  BY <1>1, <1>2, ListedFacts DEF Remembered
<1>4. \A n : Settled(n)
  BY <1>1, <1>3, TextType DEF Settled
<1> QED
  BY <1>1, <1>2, <1>3, <1>4

\* An import leads to a module that is closer to the declaration; none is
\* further away than there are modules.
LEMMA Depths ==
    ASSUME IInv, Answered, NEW n \in Names
    PROVE  \E q \in [Modules -> Nat] :
               /\ \A m \in Modules : q[m] < Cardinality(Modules)
               /\ \A m \in Modules : n \in DOMAIN Uses(m) => q[Uses(m)[n]] < q[m]
<1>1. PICK r \in [Modules -> Nat] : Ranks(r, n)
  BY AtIdle DEF Remembered, Grounded
<1>2. PICK p : p = [m \in Modules |-> IF n \in DOMAIN Uses(m) THEN r[m] + 1 ELSE 0]
  OBVIOUS
<1>3. \A m \in Modules : p[m] \in Nat
  BY <1>2
<1>4. ASSUME NEW m \in Modules, n \in DOMAIN Uses(m) PROVE Uses(m)[n] \in Modules /\ p[Uses(m)[n]] < p[m]
  <2>1. Uses(m)[n] \in Modules
    BY <1>4, AtIdle DEF Settled
  <2>2. n \in DOMAIN Uses(Uses(m)[n]) => r[Uses(m)[n]] < r[m]
    BY <1>1, <1>4, AtIdle DEF Ranks, Passed
  <2>3. r[m] \in Nat /\ r[Uses(m)[n]] \in Nat
    BY <2>1
  <2> QED
    BY <1>2, <1>4, <2>1, <2>2, <2>3
<1> DEFINE Below(m) == {k \in Modules : p[k] < p[m]}
<1>5. \A m \in Modules : /\ IsFiniteSet(Below(m)) /\ Cardinality(Below(m)) \in Nat
                         /\ Cardinality(Below(m)) < Cardinality(Modules)
  <2> SUFFICES ASSUME NEW m \in Modules
               PROVE  /\ IsFiniteSet(Below(m)) /\ Cardinality(Below(m)) \in Nat
                      /\ Cardinality(Below(m)) < Cardinality(Modules)
    OBVIOUS
  <2>1. Below(m) \in SUBSET Modules /\ m \notin Below(m)
    BY <1>3
  <2> HIDE DEF Below
  <2>2. /\ IsFiniteSet(Below(m)) /\ Cardinality(Below(m)) <= Cardinality(Modules)
        /\ Cardinality(Below(m)) # Cardinality(Modules)
    BY <2>1, WorkspaceAssumption, FS_Subset
  <2>3. Cardinality(Below(m)) \in Nat /\ Cardinality(Modules) \in Nat
    BY <2>2, WorkspaceAssumption, FS_CardinalityType
  <2> QED
    BY <2>2, <2>3
<1>6. \A m, k \in Modules : p[k] < p[m] => Cardinality(Below(k)) < Cardinality(Below(m))
  <2> SUFFICES ASSUME NEW m \in Modules, NEW k \in Modules, p[k] < p[m]
               PROVE  Cardinality(Below(k)) < Cardinality(Below(m))
    OBVIOUS
  <2>1. Below(k) \in SUBSET Below(m) /\ k \in Below(m) /\ k \notin Below(k)
    BY <1>3
  <2>2. IsFiniteSet(Below(m)) /\ Cardinality(Below(m)) \in Nat /\ Cardinality(Below(k)) \in Nat
    BY <1>5
  <2> HIDE DEF Below
  <2>3. Cardinality(Below(k)) <= Cardinality(Below(m)) /\ Cardinality(Below(k)) # Cardinality(Below(m))
    BY <2>1, <2>2, FS_Subset
  <2> QED
    BY <2>2, <2>3
<1> HIDE DEF Below
<1>7. PICK q : q = [m \in Modules |-> Cardinality(Below(m))]
  OBVIOUS
<1>8. q \in [Modules -> Nat] /\ \A m \in Modules : q[m] < Cardinality(Modules)
  BY <1>5, <1>7
<1>9. \A m \in Modules : n \in DOMAIN Uses(m) => q[Uses(m)[n]] < q[m]
  BY <1>4, <1>6, <1>7
<1> QED
  BY <1>8, <1>9

\* The origin of a name is that in the module it is imported from.
LEMMA OriginFacts ==
    ASSUME IInv, Answered, NEW n \in Names, NEW m \in Modules
    PROVE  Origin(m, n) = IF Defines(m, n) THEN m
                          ELSE IF n \in DOMAIN Uses(m) THEN Origin(Uses(m)[n], n) ELSE "none"
<1> DEFINE C == Cardinality(Modules)
           f == Follow(n)
<1>1. PICK q \in [Modules -> Nat] :
          /\ \A o \in Modules : q[o] < C
          /\ \A o \in Modules : n \in DOMAIN Uses(o) => q[Uses(o)[n]] < q[o]
  BY Depths
<1>2. C \in Nat /\ \A k \in 0..C : f[k] = Row(n, k, f[k - 1])
  BY FollowRows
<1> HIDE DEF C, f
<1>3. \A k \in 0..C : \A o \in Modules :
          f[k][o] = IF Defines(o, n) THEN o
                    ELSE IF n \in DOMAIN Uses(o) /\ k > 0 THEN f[k - 1][Uses(o)[n]] ELSE "none"
  BY <1>2 DEF Row, Imports, Uses
<1>4. \A o \in Modules : n \in DOMAIN Uses(o) => Uses(o)[n] \in Modules
  BY AtIdle DEF Settled
<1> DEFINE S == {k \in Nat : k < C /\ \E o \in Modules : q[o] <= k /\ f[k][o] # f[k + 1][o]}
<1>5. S = {}
  <2> SUFFICES ASSUME S # {} PROVE FALSE
    OBVIOUS
  <2>1. PICK k \in S : \A l \in S : k <= l
    BY LeastNumber
  <2>2. PICK o \in Modules : q[o] <= k /\ f[k][o] # f[k + 1][o]
    BY <2>1
  <2>3. k \in Nat /\ k \in 0..C /\ k + 1 \in 0..C /\ k + 1 > 0 /\ (k + 1) - 1 = k
    BY <1>2, <2>1
  <2>4. ~Defines(o, n) /\ n \in DOMAIN Uses(o)
    BY <1>3, <2>2, <2>3
  <2>5. q[Uses(o)[n]] < q[o] /\ Uses(o)[n] \in Modules /\ q[o] \in Nat /\ q[Uses(o)[n]] \in Nat
    BY <1>1, <1>4, <2>4
  <2>6. k > 0 /\ k - 1 \in Nat /\ k - 1 < C /\ q[Uses(o)[n]] <= k - 1 /\ (k - 1) + 1 = k
    <3>1. C \in Nat /\ k < C /\ q[o] <= k
      BY <1>2, <2>1, <2>2
    <3> HIDE DEF S
    <3> QED
      BY <2>3, <2>5, <3>1
  <2>7. f[k][o] = f[k - 1][Uses(o)[n]] /\ f[k + 1][o] = f[k][Uses(o)[n]]
    BY <1>3, <2>3, <2>4, <2>6
  <2>8. f[k - 1][Uses(o)[n]] # f[(k - 1) + 1][Uses(o)[n]]
    BY <2>2, <2>6, <2>7
  <2>9. k - 1 \in S
    BY <2>5, <2>6, <2>8
  <2> QED
    BY <2>1, <2>3, <2>9
<1>6. \A o \in Modules : C > 0 /\ f[C - 1][o] = f[C][o]
  <2> SUFFICES ASSUME NEW o \in Modules PROVE C > 0 /\ f[C - 1][o] = f[C][o]
    OBVIOUS
  <2>1. q[o] \in Nat /\ q[o] < C
    BY <1>1
  <2>2. C > 0 /\ C - 1 \in Nat /\ C - 1 < C /\ q[o] <= C - 1 /\ (C - 1) + 1 = C
    BY <1>2, <2>1
  <2>3. C - 1 \notin S
    BY <1>5
  <2> QED
    BY <2>2, <2>3
<1>7. \A o : Origin(o, n) = f[C][o]
  BY OriginFollows DEF f, C
<1>8. C \in 0..C
  BY <1>2
<1>9. f[C][m] = IF Defines(m, n) THEN m
                ELSE IF n \in DOMAIN Uses(m) THEN f[C][Uses(m)[n]] ELSE "none"
  BY <1>3, <1>4, <1>6, <1>8
<1> QED
  BY <1>7, <1>9

-----------------------------------------------------------------------------
(* The answers of the server.                                              *)

\* A name is bound to the declaration that its imports lead to.
LEMMA LookUpOrigin ==
    ASSUME IInv, Answered, NEW n \in Names, NEW m \in Modules
    PROVE  \/ /\ Origin(m, n) = "none" /\ LookUp(m, n) = NoSymbol
           \/ \E o \in Modules : /\ Origin(m, n) = o /\ Defines(o, n)
                                 /\ LookUp(m, n) = Symbol(o, gen[o], n)
<1> DEFINE Right(o) ==
               \/ /\ Origin(o, n) = "none" /\ LookUp(o, n) = NoSymbol
               \/ \E d \in Modules : /\ Origin(o, n) = d /\ Defines(d, n)
                                     /\ LookUp(o, n) = Symbol(d, gen[d], n)
<1>1. PICK q \in [Modules -> Nat] :
          \A o \in Modules : n \in DOMAIN Uses(o) => q[Uses(o)[n]] < q[o]
  BY Depths
<1>2. ASSUME NEW o \in Modules,
             n \in DOMAIN Uses(o) => Uses(o)[n] \in Modules /\ Right(Uses(o)[n])
      PROVE  Right(o)
  <2>1. CASE Defines(o, n)
    <3>1. Origin(o, n) = o /\ LookUp(o, n) = Symbol(o, gen[o], n)
      BY <2>1, OriginFacts DEF LookUp
    <3> QED
      BY <2>1, <3>1
  <2>2. CASE ~Defines(o, n) /\ n \in DOMAIN Uses(o)
    <3>1. Origin(o, n) = Origin(Uses(o)[n], n)
      BY <2>2, OriginFacts
    <3>2. LookUp(o, n) = LookUp(Uses(o)[n], n)
      BY <2>2, AtIdle DEF LookUp, Settled, Imports, Uses
    <3> QED
      BY <1>2, <2>2, <3>1, <3>2
  <2>3. CASE ~Defines(o, n) /\ n \notin DOMAIN Uses(o)
    <3>1. Origin(o, n) = "none"
      BY <2>3, OriginFacts
    <3>2. LookUp(o, n) = NoSymbol
      BY <2>3 DEF LookUp, Imports, Uses
    <3> QED
      BY <3>1, <3>2
  <2> QED
    BY <2>1, <2>2, <2>3
<1>3. \A o \in Modules : n \in DOMAIN Uses(o) => Uses(o)[n] \in Modules
  BY AtIdle DEF Settled
<1> HIDE DEF Right
<1> DEFINE S == {q[o] : o \in {k \in Modules : ~Right(k)}}
<1>4. S = {}
  <2> SUFFICES ASSUME S # {} PROVE FALSE
    OBVIOUS
  <2>0. S \subseteq Nat
    OBVIOUS
  <2>1. PICK l \in S : \A j \in S : l <= j
    <3> HIDE DEF S
    <3> QED
      BY <2>0, LeastNumber
  <2>2. PICK o \in Modules : ~Right(o) /\ q[o] = l
    BY <2>1
  <2>3. n \in DOMAIN Uses(o) /\ Uses(o)[n] \in Modules /\ ~Right(Uses(o)[n])
    BY <1>2, <1>3, <2>2
  <2>4. q[Uses(o)[n]] \in S /\ q[Uses(o)[n]] < l
    BY <1>1, <2>2, <2>3
  <2>5. q[Uses(o)[n]] \in Nat /\ l \in Nat
    BY <2>2, <2>3
  <2> QED
    BY <2>1, <2>4, <2>5
<1>5. Right(m)
  BY <1>4
<1> QED
  BY <1>5 DEF Right

\* So the index leads where the name is declared.
LEMMA WhereDeclared ==
    ASSUME IInv, Answered, NEW n \in Names, NEW m \in Modules
    PROVE  /\ Where(LookUp(m, n)) = Declared(m, n)
           /\ LookUp(m, n) = NoSymbol => Declared(m, n) = Nowhere
<1>1. CASE Origin(m, n) = "none" /\ LookUp(m, n) = NoSymbol
  BY <1>1, SymbolFacts DEF Where, Declared
<1>2. ASSUME NEW o \in Modules, Origin(m, n) = o, Defines(o, n), LookUp(m, n) = Symbol(o, gen[o], n)
      PROVE  Where(LookUp(m, n)) = Declared(m, n) /\ LookUp(m, n) # NoSymbol
  <2>1. o # "none"
    BY WorkspaceAssumption
  <2>2. Declared(m, n) = Place(o, Line(o, n))
    BY <1>2, <2>1 DEF Declared
  <2>3. /\ LookUp(m, n).name = n /\ n # "module" /\ LookUp(m, n).mod = o
        /\ LookUp(m, n) # NoSymbol
    BY <1>2, SymbolFacts DEF Symbol
  <2> QED
    BY <2>2, <2>3 DEF Where
<1> QED
  BY <1>1, <1>2, LookUpOrigin

\* The answers are about the identifiers of the module.
LEMMA AnswersAre ==
    ASSUME IInv, Answered, NEW m \in Modules
    PROVE  Answers(m) =
        {answer \in {<<Ident(m, "def", content[m].defs[i]), Place(m, i)>> : i \in DOMAIN content[m].defs}
                    \union {<<u.at, Where(u.symbol)>> : u \in AllUses(m)} : answer[2] # Nowhere}
<1> DEFINE defs == {<<Ident(m, "def", content[m].defs[i]), Place(m, i)>> : i \in DOMAIN content[m].defs}
           uses == {<<u.at, Where(u.symbol)>> : u \in AllUses(m)}
<1>1. IndexedAt(m)
  BY AtIdle
<1>2. \A r \in ToSet(index[m].defs) : <<r.at, r.place>> \in defs
  BY <1>1 DEF IndexedAt, DefsOf, ToSet
<1>3. \A i \in DOMAIN content[m].defs : \E r \in ToSet(index[m].defs) :
          r.at = Ident(m, "def", content[m].defs[i]) /\ r.place = Place(m, i)
  <2> SUFFICES ASSUME NEW i \in DOMAIN content[m].defs
               PROVE  \E r \in ToSet(index[m].defs) :
                          r.at = Ident(m, "def", content[m].defs[i]) /\ r.place = Place(m, i)
    OBVIOUS
  <2>1. /\ i \in DOMAIN index[m].defs
        /\ index[m].defs[i].at = Ident(m, "def", content[m].defs[i]) /\ index[m].defs[i].place = Place(m, i)
    BY <1>1 DEF IndexedAt, DefsOf
  <2> QED
    BY <2>1 DEF ToSet
<1>4. \A r \in index[m].uses : <<r.at, r.place>> \in uses
  BY <1>1 DEF IndexedAt
<1>5. ASSUME NEW u \in AllUses(m)
      PROVE  \E r \in index[m].uses : r.at = u.at /\ r.place = Where(u.symbol)
  <2>1. [at |-> u.at, symbol |-> u.symbol, place |-> Where(u.symbol)] \in index[m].uses
    BY <1>1 DEF IndexedAt
  <2> QED
    BY <2>1
<1>6. \A a \in Answers(m) : a \in defs \union uses /\ a[2] # Nowhere
  BY <1>2, <1>4 DEF Answers
<1>7. ASSUME NEW a \in defs \union uses, a[2] # Nowhere PROVE a \in Answers(m)
  <2>1. PICK r \in ToSet(index[m].defs) \union index[m].uses : a = <<r.at, r.place>>
    <3>1. CASE a \in defs
      BY <1>3, <3>1
    <3>2. CASE a \in uses
      BY <1>5, <3>2
    <3> QED
      BY <3>1, <3>2
  <2> QED
    BY <1>7, <2>1 DEF Answers
<1> HIDE DEF defs, uses
<1>8. Answers(m) = {a \in defs \union uses : a[2] # Nowhere}
  BY <1>6, <1>7
<1> QED
  BY <1>8 DEF defs, uses

\* With every change answered, the index says of the names of a module what a
\* fresh analysis of the texts would say.
LEMMA AnswersExpected ==
    ASSUME IInv, Answered, NEW m \in Modules
    PROVE  Answers(m) = Expected(m)
<1> DEFINE defs  == {<<Ident(m, "def", content[m].defs[i]), Place(m, i)>> : i \in DOMAIN content[m].defs}
           uses  == {<<u.at, Where(u.symbol)>> : u \in AllUses(m)}
           defsE == {<<Ident(m, "def", n), Place(m, Line(m, n))>> : n \in ToSet(content[m].defs)}
           callE == {<<Ident(m, "call", n), Declared(m, n)>> : n \in content[m].calls}
           fromE == {<<Ident(m, "from", n), Place(Uses(m)[n], 0)>> : n \in DOMAIN Uses(m)}
           useE  == {<<Ident(m, "use", n),
                       IF Known(Uses(m)[n], n) THEN Declared(m, n) ELSE Place(Uses(m)[n], 0)>> : n \in DOMAIN Uses(m)}
<1>1. /\ content[m].defs \in Seq(Names) /\ IsInjective(content[m].defs)
      /\ DOMAIN Uses(m) \subseteq Names
      /\ \A n \in DOMAIN Uses(m) : Uses(m)[n] \in Modules /\ ~Defines(m, n)
      /\ content[m].calls \subseteq Names
  BY AtIdle, TextType
<1>2. defs = defsE
  <2>1. \A i \in DOMAIN content[m].defs : Line(m, content[m].defs[i]) = i
    BY <1>1 DEF Line, IsInjective
  <2> QED
    BY <2>1 DEF ToSet
<1>3. ASSUME NEW n \in DOMAIN Uses(m)
      PROVE  Where(Mentioned(m, n)) = IF Known(Uses(m)[n], n) THEN Declared(m, n) ELSE Place(Uses(m)[n], 0)
  <2>1. n \in Names /\ Uses(m)[n] \in Modules /\ ~Defines(m, n)
    BY <1>1
  <2>2. LookUp(m, n) = bound[m][n]
    BY <2>1 DEF LookUp, Imports, Uses
  <2>3. Where(bound[m][n]) = Declared(m, n)
    BY <2>1, <2>2, WhereDeclared
  <2>4. Where(ModSymbol(Uses(m)[n])) = Place(Uses(m)[n], 0)
    BY SymbolFacts DEF Where
  <2> QED
    BY <2>3, <2>4 DEF Mentioned
<1>4. \A n \in content[m].calls : /\ Where(LookUp(m, n)) = Declared(m, n)
                                  /\ LookUp(m, n) = NoSymbol => Declared(m, n) = Nowhere
  BY <1>1, WhereDeclared
<1>5. \A n : Where(ModSymbol(Uses(m)[n])) = Place(Uses(m)[n], 0)
  BY SymbolFacts DEF Where
<1>6. ASSUME NEW a \in uses PROVE a \in callE \union fromE \union useE
  <2>1. PICK u \in AllUses(m) : a = <<u.at, Where(u.symbol)>>
    BY <1>6
  <2>2. CASE u \in FromUses(m, DOMAIN Uses(m))
    BY <1>5, <2>1, <2>2 DEF FromUses
  <2>3. CASE u \in UseUses(m, DOMAIN Uses(m))
    BY <1>3, <2>1, <2>3 DEF UseUses
  <2>4. CASE u \in CallUses(m)
    BY <1>4, <2>1, <2>4 DEF CallUses
  <2> QED
    BY <2>2, <2>3, <2>4 DEF AllUses
<1>7. ASSUME NEW a \in callE \union fromE \union useE, a[2] # Nowhere PROVE a \in uses
  <2>1. CASE a \in fromE
    <3>1. PICK n \in DOMAIN Uses(m) : a = <<Ident(m, "from", n), Place(Uses(m)[n], 0)>>
      BY <2>1
    <3>2. [at |-> Ident(m, "from", n), symbol |-> ModSymbol(Uses(m)[n])] \in AllUses(m)
      BY DEF AllUses, FromUses
    <3> QED
      BY <1>5, <3>1, <3>2
  <2>2. CASE a \in useE
    <3>1. PICK n \in DOMAIN Uses(m) : a = <<Ident(m, "use", n), Where(Mentioned(m, n))>>
      BY <1>3, <2>2
    <3>2. [at |-> Ident(m, "use", n), symbol |-> Mentioned(m, n)] \in AllUses(m)
      BY DEF AllUses, UseUses
    <3> QED
      BY <3>1, <3>2
  <2>3. CASE a \in callE
    <3>1. PICK n \in content[m].calls : a = <<Ident(m, "call", n), Declared(m, n)>>
      BY <2>3
    <3>2. LookUp(m, n) # NoSymbol /\ Where(LookUp(m, n)) = Declared(m, n)
      BY <1>4, <1>7, <3>1
    <3>3. [at |-> Ident(m, "call", n), symbol |-> LookUp(m, n)] \in AllUses(m)
      BY <3>2 DEF AllUses, CallUses
    <3> QED
      BY <3>1, <3>2, <3>3
  <2> QED
    BY <1>7, <2>1, <2>2, <2>3
<1>8. Answers(m) = {a \in defs \union uses : a[2] # Nowhere}
  BY AnswersAre
<1>9. Expected(m) = {a \in defsE \union callE \union fromE \union useE : a[2] # Nowhere}
  BY DEF Expected, Uses
<1> HIDE DEF defs, uses, defsE, callE, fromE, useE
<1>10. Answers(m) \subseteq Expected(m)
  BY <1>2, <1>6, <1>8, <1>9
<1>11. Expected(m) \subseteq Answers(m)
  BY <1>2, <1>7, <1>8, <1>9
<1> QED
  BY <1>10, <1>11

\* A request that comes after any number of edits is answered from the texts as
\* they are now, for any number of modules and all their texts, as long as no
\* import of one module was resolved in the course of another one
\* (Workspace::update, build_index, collect_dependents).
THEOREM IndexAlwaysFresh == Spec => []IndexFresh
<1>1. IInv => DefinitionsFresh
  BY AnswersExpected DEF DefinitionsFresh
<1> QED
  BY <1>1, Invariance, SymbolsAlwaysCurrent, PTL DEF IndexFresh

-----------------------------------------------------------------------------
(* The errors that the editor shows.  A module that no edit has reached    *)
(* keeps its part of the index and what was published of it, the reports   *)
(* of an analysis are those of the modules that take part in it, and a     *)
(* module whose text may have a syntax error takes part only when it was   *)
(* parsed.                                                                 *)

TextErrors(m) == {SyntaxError(k) : k \in {j \in {m} : content[j].broken}}
UseErrors(m, names) == {Report("unknown", Ident(m, "use", n)) : n \in {k \in names : ~Known(Uses(m)[k], k)}}
CallErrors(m) == {Report("unknown", Ident(m, "call", n)) : n \in {k \in content[m].calls : LookUp(m, k) = NoSymbol}}
AllErrors(m) == TextErrors(m) \union UseErrors(m, DOMAIN Uses(m)) \union CallErrors(m)

Shown == \A m \in Modules : Untouched(m) => index[m].reports = AllErrors(m) /\ published[m] = AllErrors(m)
Ready == pc = "publish" => \A m \in set : index[m].exists /\ index[m].reports = AllErrors(m)
Found ==
    /\ pc \in {"collect", "generate"} => reports = UNION {TextErrors(m) : m \in set}
    /\ pc \in {"resolve", "bodies"} => reports = UNION {TextErrors(m) \union UseErrors(m, Through(m)) : m \in set}
    /\ pc = "index" => reports = UNION {AllErrors(m) : m \in set}

\* Nothing that it does not declare itself is used by such a module.
Alone(m) == \A text \in TextsOf(m) : DOMAIN text.uses = {}
Separate == \A m, k \in Modules : Alone(m) /\ k # m => ~Depends(m, k)

Diagnosed == Shown /\ Ready /\ Found /\ Separate

\* The errors of a text depend on its bindings and on the texts it imports from.
LEMMA ErrorsSame ==
    ASSUME NEW m \in Modules, Same(m), \A n \in DOMAIN Uses(m) : content'[Uses(m)[n]] = content[Uses(m)[n]]
    PROVE  /\ TextErrors(m)' = TextErrors(m)
           /\ AllErrors(m)' = AllErrors(m)
           /\ \A names : names \subseteq DOMAIN Uses(m) => UseErrors(m, names)' = UseErrors(m, names)
<1>1. Uses(m)' = Uses(m) /\ \A n : LookUp(m, n)' = LookUp(m, n)
  BY UsesSame
<1>2. ASSUME NEW n \in DOMAIN Uses(m) PROVE Known(Uses(m)[n], n)' <=> Known(Uses(m)[n], n)
  BY <1>1 DEF Known, Defines, Imports
<1>3. TextErrors(m)' = TextErrors(m)
  BY DEF TextErrors, Same, SyntaxError
<1>4. ASSUME NEW names, names \subseteq DOMAIN Uses(m) PROVE UseErrors(m, names)' = UseErrors(m, names)
  BY <1>1, <1>2, <1>4 DEF UseErrors
<1>5. UseErrors(m, DOMAIN Uses(m))' = UseErrors(m, DOMAIN Uses(m))
  BY <1>1, <1>2 DEF UseErrors
<1>6. CallErrors(m)' = CallErrors(m)
  BY <1>1 DEF CallErrors, Same
<1> QED
  BY <1>3, <1>4, <1>5, <1>6 DEF AllErrors

\* A step that changes no text and no binding.
LEMMA ErrorsStay ==
    ASSUME UNCHANGED <<content, gen, bound>>
    PROVE  \A m \in Modules : /\ TextErrors(m)' = TextErrors(m)
                              /\ AllErrors(m)' = AllErrors(m)
                              /\ Through(m)' = Through(m)
                              /\ UseErrors(m, Through(m))' = UseErrors(m, Through(m))
<1> SUFFICES ASSUME NEW m \in Modules
             PROVE  /\ TextErrors(m)' = TextErrors(m)
                    /\ AllErrors(m)' = AllErrors(m)
                    /\ Through(m)' = Through(m)
                    /\ UseErrors(m, Through(m))' = UseErrors(m, Through(m))
  OBVIOUS
<1>1. Same(m)
  BY DEF Same
<1>2. TextErrors(m)' = TextErrors(m) /\ AllErrors(m)' = AllErrors(m)
  BY <1>1, ErrorsSame
<1>3. Through(m)' = Through(m)
  BY DEF Through, Uses, Resolved
<1>4. \A j, n : Known(j, n)' <=> Known(j, n)
  BY DEF Known, Defines, Imports
<1>5. UseErrors(m, Through(m))' = UseErrors(m, Through(m))
  BY <1>3, <1>4 DEF UseErrors, Uses
<1> QED
  BY <1>2, <1>3, <1>5

\* A step that leaves the untouched modules alone keeps their errors.
LEMMA ShownKept ==
    ASSUME Local, Remembered, Shown, UNCHANGED <<index, published>>, set' \in SUBSET Modules,
           \A k \in Modules \ set' : Same(k),
           \A m \in Modules : Untouched(m)' => Untouched(m)
    PROVE  Shown'
<1> SUFFICES ASSUME NEW m \in Modules, Untouched(m)'
             PROVE  index[m].reports = AllErrors(m)' /\ published[m] = AllErrors(m)'
  BY DEF Shown
<1>1. Untouched(m) /\ Listed(m)
  BY DEF Listed
<1>2. m \notin set' /\ \A k \in set' : ~Depends(m, k)
  BY DEF Untouched, Depends
<1>3. \A n \in DOMAIN Uses(m) : Uses(m)[n] \in Modules /\ Depends(m, Uses(m)[n])
  BY <1>1, ListedFacts DEF Local, Remembered
<1>4. Same(m) /\ \A n \in DOMAIN Uses(m) : content'[Uses(m)[n]] = content[Uses(m)[n]]
  BY <1>2, <1>3 DEF Same
<1>5. AllErrors(m)' = AllErrors(m)
  BY <1>4, ErrorsSame
<1> QED
  BY <1>1, <1>5 DEF Shown

\* Opening the workspace makes every module one to be analyzed.
LEMMA InitializeDiagnosed == Local /\ Diagnosed /\ Initialize => Diagnosed'
<1> SUFFICES ASSUME Local, Diagnosed, Initialize PROVE Diagnosed'
  OBVIOUS
<1>1. /\ pc' = "generate" /\ set' = Modules /\ reports' = {SyntaxError(m) : m \in {k \in Modules : content[k].broken}}
      /\ UNCHANGED <<content, index>>
  BY DEF Initialize
<1>2. Shown' /\ Ready'
  BY <1>1 DEF Shown, Untouched, Ready
<1>3. reports' = UNION {TextErrors(m)' : m \in Modules}
  BY <1>1 DEF TextErrors
<1>4. Found'
  BY <1>1, <1>3 DEF Found
<1>5. Separate'
  BY <1>1 DEF Diagnosed, Separate, Alone, Depends
<1> QED
  BY <1>2, <1>4, <1>5 DEF Diagnosed

\* A change concerns the errors of the module changed only.
LEMMA DidChangeDiagnosed ==
    ASSUME Local, Remembered, Diagnosed, NEW m \in Modules, NEW text \in TextsOf(m), DidChange(m, text)
    PROVE  Diagnosed'
<1>1. /\ pc = "idle" /\ pc' = "collect" /\ set' = {m} /\ content' = [content EXCEPT ![m] = text]
      /\ reports' = IF text.broken THEN {SyntaxError(m)} ELSE {}
      /\ UNCHANGED <<gen, bound, index, published>>
  BY DEF DidChange
<1>2. set = {} /\ DOMAIN content = Modules
  BY <1>1 DEF Local, Phases, Types
<1>3. \A k \in Modules : Untouched(k)' => Untouched(k)
  BY <1>1, <1>2 DEF Untouched
<1>4. \A k \in Modules \ set' : Same(k)
  BY <1>1, <1>2 DEF Same
<1>5. Shown'
  BY <1>1, <1>3, <1>4, ShownKept DEF Diagnosed
<1>6. content'[m] = text
  BY <1>1, <1>2
<1>7. TextErrors(m)' = reports'
  BY <1>1, <1>6 DEF TextErrors, SyntaxError
<1>8. Found'
  BY <1>1, <1>7 DEF Found
<1>9. Ready' /\ Separate'
  BY <1>1 DEF Ready, Diagnosed, Separate, Alone, Depends
<1> QED
  BY <1>5, <1>8, <1>9 DEF Diagnosed

\* A dependent that joins the set has no syntax error to lose.
LEMMA CollectDiagnosed ==
    ASSUME SoundTexts, Local, Remembered, Diagnosed, CollectDependents
    PROVE  Diagnosed'
<1>1. PICK m \in visit : set' = set \union index[m].dependents
  BY DEF CollectDependents
<1>2. /\ pc = "collect" /\ pc' \in {"collect", "generate"}
      /\ UNCHANGED <<content, gen, bound, index, published, reports>>
  BY DEF CollectDependents
<1>3. m \in set /\ m \in Modules /\ set' \in SUBSET Modules
  BY <1>1 DEF Local, Types
<1>4. \A k \in Modules : Untouched(k)' => Untouched(k)
  BY <1>1, <1>2 DEF Untouched
<1>5. Shown'
  BY <1>2, <1>3, <1>4, ShownKept DEF Diagnosed, Same
<1>6. ASSUME NEW k \in set' \ set PROVE TextErrors(k) = {}
  <2>1. k \in Modules /\ k # m /\ Depends(k, m)
    BY <1>1, <1>3 DEF Depends
  <2>2. ~Alone(k)
    BY <1>3, <2>1 DEF Diagnosed, Separate
  <2>3. ~content[k].broken
    BY <2>1, <2>2 DEF SoundTexts, Alone, Local, Types
  <2> QED
    BY <2>3 DEF TextErrors
<1>7. \A k \in Modules : TextErrors(k)' = TextErrors(k)
  BY <1>2, ErrorsStay
<1>8. reports = UNION {TextErrors(k) : k \in set}
  BY <1>2 DEF Diagnosed, Found
<1>9. reports = UNION {TextErrors(k) : k \in set'}
  BY <1>1, <1>6, <1>8
<1>10. reports = UNION {TextErrors(k)' : k \in set'}
  BY <1>3, <1>7, <1>9
<1>11. Found'
  BY <1>2, <1>10 DEF Found
<1>12. Ready' /\ Separate'
  BY <1>2 DEF Ready, Diagnosed, Separate, Alone, Depends
<1> QED
  BY <1>5, <1>11, <1>12 DEF Diagnosed

\* Generating the symbols reports nothing; the errors of the texts are there.
LEMMA GenerateDiagnosed ==
    ASSUME Local, Remembered, Diagnosed, Generate
    PROVE  Diagnosed'
<1>1. /\ pc = "generate" /\ pc' = "resolve"
      /\ UNCHANGED <<content, set, reports, index, published>>
      /\ \A m \in Modules : m \notin set => gen'[m] = gen[m] /\ bound'[m] = bound[m]
      /\ \A m \in Modules : m \in set => bound'[m] = [n \in DOMAIN Uses(m) |-> Unresolved]
  BY DEF Generate, Uses
<1>2. set \subseteq Modules
  BY DEF Local, Types
<1>3. Shown'
  <2>1. \A k \in Modules \ set' : Same(k)
    BY <1>1 DEF Same
  <2>2. \A m \in Modules : Untouched(m)' => Untouched(m)
    BY <1>1 DEF Untouched
  <2> QED
    BY <1>1, <1>2, <2>1, <2>2, ShownKept DEF Diagnosed
<1>4. ASSUME NEW m \in set PROVE TextErrors(m)' \union UseErrors(m, Through(m))' = TextErrors(m)
  <2>1. Through(m)' = {}
    BY <1>1, <1>2 DEF Through, Uses, Resolved
  <2>2. UseErrors(m, Through(m))' = {}
    BY <2>1 DEF UseErrors
  <2>3. TextErrors(m)' = TextErrors(m)
    BY <1>1 DEF TextErrors, SyntaxError
  <2> QED
    BY <2>2, <2>3
<1>5. reports = UNION {TextErrors(m) : m \in set}
  BY <1>1 DEF Diagnosed, Found
<1>6. reports = UNION {TextErrors(m)' \union UseErrors(m, Through(m))' : m \in set}
  BY <1>4, <1>5
<1>7. Found'
  BY <1>1, <1>6 DEF Found
<1>8. Ready' /\ Separate'
  BY <1>1 DEF Ready, Diagnosed, Separate, Alone, Depends
<1> QED
  BY <1>3, <1>7, <1>8 DEF Diagnosed

\* The steps that change no binding.
LEMMA LookingDiagnosed ==
    ASSUME Local, Remembered, Diagnosed, NextImport \/ NextModule
    PROVE  Diagnosed'
<1>1. /\ pc = "resolve" /\ pc' \in {"resolve", "bodies"}
      /\ UNCHANGED <<content, gen, bound, set, reports, index, published>>
  BY DEF NextImport, NextModule
<1>2. set \subseteq Modules
  BY DEF Local, Types
<1>3. Shown'
  <2>1. \A m \in Modules : Untouched(m)' => Untouched(m)
    BY <1>1 DEF Untouched
  <2> QED
    BY <1>1, <1>2, <2>1, ShownKept DEF Diagnosed, Same
<1>4. \A m \in Modules : TextErrors(m)' = TextErrors(m) /\ UseErrors(m, Through(m))' = UseErrors(m, Through(m))
  BY <1>1, ErrorsStay
<1>5. reports = UNION {TextErrors(m) \union UseErrors(m, Through(m)) : m \in set}
  BY <1>1 DEF Diagnosed, Found
<1>6. reports = UNION {TextErrors(m)' \union UseErrors(m, Through(m))' : m \in set}
  BY <1>2, <1>4, <1>5
<1>7. Found'
  BY <1>1, <1>6 DEF Found
<1>8. Ready' /\ Separate'
  BY <1>1 DEF Ready, Diagnosed, Separate, Alone, Depends
<1> QED
  BY <1>3, <1>7, <1>8 DEF Diagnosed

\* An import is reported where its name is unknown in the other module.
LEMMA ResolveImportDiagnosed ==
    ASSUME Local, Remembered, Diagnosed, ResolveImport, ~remote'
    PROVE  Diagnosed'
<1>1. /\ pc = "resolve" /\ pc' = "resolve"
      /\ UNCHANGED <<content, gen, set, index, published>>
  BY DEF ResolveImport
<1>h. PICK h \in set : \E n \in DOMAIN Uses(h) : Resolves(h, n)
  BY Resolution
<1>n. PICK n \in DOMAIN Uses(h) : Resolves(h, n)
  BY <1>h
<1>2. /\ ~Resolved(h, n) /\ items = <<<<h, n>>>>
      /\ LookUp(Uses(h)[n], n) # Unresolved
      /\ bound' = [bound EXCEPT ![h][n] = LookUp(Uses(h)[n], n)]
  BY <1>n DEF Resolves
<1>3. Last(items)[1] = h /\ Last(items)[2] = n /\ content[h].uses[n] = Uses(h)[n]
  BY <1>2, OnePair DEF Uses
<1>4. reports' = reports \union IF Known(Uses(h)[n], n) THEN {} ELSE {Report("unknown", Ident(h, "use", n))}
  BY <1>3 DEF ResolveImport, Known
<1>5. set \subseteq Modules /\ h \in Modules /\ DOMAIN bound = Modules
  BY DEF Local, Types
<1>6. \A m \in Modules : BoundAt(m) /\ DOMAIN bound[m] = DOMAIN Uses(m)
  BY <1>1 DEF Remembered, Bound, BoundAt, Analyzed, Resolving
<1>7. /\ \A m \in Modules : m # h => bound'[m] = bound[m]
      /\ bound'[h][n] = LookUp(Uses(h)[n], n)
      /\ \A k \in DOMAIN Uses(h) : k # n => bound'[h][k] = bound[h][k]
  BY <1>2, <1>5, <1>6
<1>8. Shown'
  <2>1. \A k \in Modules \ set' : Same(k)
    BY <1>1, <1>7 DEF Same
  <2>2. \A m \in Modules : Untouched(m)' => Untouched(m)
    BY <1>1 DEF Untouched
  <2> QED
    BY <1>1, <1>5, <2>1, <2>2, ShownKept DEF Diagnosed
<1>9. \A m \in Modules : TextErrors(m)' = TextErrors(m) /\ Uses(m)' = Uses(m)
  BY <1>1 DEF TextErrors, SyntaxError, Uses
<1>10. \A j, k : Known(j, k)' <=> Known(j, k)
  BY <1>1 DEF Known, Defines, Imports
<1>11. Through(h)' = Through(h) \union {n} /\ \A m \in Modules : m # h => Through(m)' = Through(m)
  BY <1>2, <1>7, <1>9, <1>5 DEF Through, Resolved
<1>12. \A m \in Modules : UseErrors(m, Through(m))' =
           UseErrors(m, Through(m)) \union
               IF m = h /\ ~Known(Uses(h)[n], n) THEN {Report("unknown", Ident(h, "use", n))} ELSE {}
  <2> SUFFICES ASSUME NEW m \in Modules
               PROVE  UseErrors(m, Through(m))' =
                          UseErrors(m, Through(m)) \union
                              IF m = h /\ ~Known(Uses(h)[n], n) THEN {Report("unknown", Ident(h, "use", n))} ELSE {}
    OBVIOUS
  <2>1. CASE m # h
    BY <1>9, <1>10, <1>11, <2>1 DEF UseErrors
  <2>2. CASE m = h
    <3>1. UseErrors(h, Through(h))' =
              {Report("unknown", Ident(h, "use", j)) : j \in {k \in Through(h) \union {n} : ~Known(Uses(h)[k], k)}}
      BY <1>5, <1>9, <1>10, <1>11 DEF UseErrors
    <3>2. CASE Known(Uses(h)[n], n)
      BY <2>2, <3>1, <3>2 DEF UseErrors
    <3>3. CASE ~Known(Uses(h)[n], n)
      <4>1. {k \in Through(h) \union {n} : ~Known(Uses(h)[k], k)}
                = {k \in Through(h) : ~Known(Uses(h)[k], k)} \union {n}
        BY <3>3
      <4>2. UseErrors(h, Through(h))' = UseErrors(h, Through(h)) \union {Report("unknown", Ident(h, "use", n))}
        BY <3>1, <4>1 DEF UseErrors
      <4> QED
        BY <2>2, <3>3, <4>2
    <3> QED
      BY <3>2, <3>3
  <2> QED
    BY <2>1, <2>2
<1>13. reports = UNION {TextErrors(m) \union UseErrors(m, Through(m)) : m \in set}
  BY <1>1 DEF Diagnosed, Found
<1>14. reports' = UNION {TextErrors(m)' \union UseErrors(m, Through(m))' : m \in set}
  BY <1>4, <1>5, <1>9, <1>12, <1>13
<1>15. Found'
  BY <1>1, <1>14 DEF Found
<1>16. Ready' /\ Separate'
  BY <1>1 DEF Ready, Diagnosed, Separate, Alone, Depends
<1> QED
  BY <1>8, <1>15, <1>16 DEF Diagnosed

\* The bodies add the calls of unknown names, and the reports are complete.
LEMMA AnalyzeBodiesDiagnosed ==
    ASSUME Local, Remembered, Diagnosed, AnalyzeBodies
    PROVE  Diagnosed'
<1>1. /\ pc = "bodies" /\ pc' = "index"
      /\ UNCHANGED <<content, gen, bound, set, index, published>>
  BY DEF AnalyzeBodies
<1>2. reports' = reports \union UNION {CallErrors(m) : m \in set}
  BY DEF AnalyzeBodies, CallErrors
<1>3. set \subseteq Modules
  BY DEF Local, Types
<1>4. Shown'
  <2>1. \A m \in Modules : Untouched(m)' => Untouched(m)
    BY <1>1 DEF Untouched
  <2> QED
    BY <1>1, <1>3, <2>1, ShownKept DEF Diagnosed, Same
<1>5. \A m \in set : Through(m) = DOMAIN Uses(m)
  BY <1>1, <1>3 DEF Through, Remembered, Bound, BoundAt, Analyzed, Resolving
<1>6. \A m \in set : AllErrors(m) = TextErrors(m) \union UseErrors(m, Through(m)) \union CallErrors(m)
  BY <1>5 DEF AllErrors
<1>7. reports = UNION {TextErrors(m) \union UseErrors(m, Through(m)) : m \in set}
  BY <1>1 DEF Diagnosed, Found
<1>8. reports' = UNION {AllErrors(m) : m \in set}
  BY <1>2, <1>6, <1>7
<1>9. \A m \in Modules : AllErrors(m)' = AllErrors(m)
  BY <1>1, ErrorsStay
<1>10. reports' = UNION {AllErrors(m)' : m \in set}
  BY <1>3, <1>8, <1>9
<1>11. Found'
  BY <1>1, <1>10 DEF Found
<1>12. Ready' /\ Separate'
  BY <1>1 DEF Ready, Diagnosed, Separate, Alone, Depends
<1> QED
  BY <1>4, <1>11, <1>12 DEF Diagnosed

\* An error is at an identifier of its own text.
LEMMA ErrorsAt == \A m : \A r \in AllErrors(m) : r.at.mod = m
<1> SUFFICES ASSUME NEW m, NEW r \in AllErrors(m) PROVE r.at.mod = m
  OBVIOUS
<1>1. r \in TextErrors(m) => r.at.mod = m
  BY DEF TextErrors, SyntaxError, Report, Ident
<1>2. r \in UseErrors(m, DOMAIN Uses(m)) => r.at.mod = m
  BY DEF UseErrors, Report, Ident
<1>3. r \in CallErrors(m) => r.at.mod = m
  BY DEF CallErrors, Report, Ident
<1> QED
  BY <1>1, <1>2, <1>3 DEF AllErrors

\* A text that is not empty has something in the index.
LEMMA SomethingListed ==
    ASSUME SoundTexts, Local, NEW m \in set, pc = "index", recorded[m] = AllUses(m)
    PROVE  DefsOf(m) # <<>> \/ recorded[m] # {} \/ AllErrors(m) # {}
<1>1. content[m].defs # <<>> \/ DOMAIN Uses(m) # {} \/ content[m].calls # {}
  BY DEF SoundTexts, Local, Types, Uses
<1>2. CASE content[m].defs # <<>>
  <2>1. m \in Modules /\ content[m].defs \in Seq(Names)
    BY TextType DEF Local, Types
  <2>2. Len(content[m].defs) # 0
    BY <1>2, <2>1
  <2>3. 1 \in DOMAIN content[m].defs
    BY <2>1, <2>2
  <2>4. 1 \in DOMAIN DefsOf(m)
    BY <2>3 DEF DefsOf
  <2> QED
    BY <2>4
<1>3. ASSUME NEW n \in DOMAIN Uses(m) PROVE recorded[m] # {}
  BY DEF AllUses, FromUses
<1>4. ASSUME NEW n \in content[m].calls PROVE recorded[m] # {} \/ AllErrors(m) # {}
  <2>1. CASE LookUp(m, n) = NoSymbol
    BY <2>1 DEF AllErrors, CallErrors
  <2>2. CASE LookUp(m, n) # NoSymbol
    BY <2>2 DEF AllUses, CallUses
  <2> QED
    BY <2>1, <2>2
<1> QED
  BY <1>1, <1>2, <1>3, <1>4

\* Each report gets into the index of the module it is about.
LEMMA BuildIndexDiagnosed ==
    ASSUME SoundTexts, Local, Remembered, Diagnosed, BuildIndex
    PROVE  Diagnosed'
<1>1. /\ pc = "index" /\ pc' = "publish"
      /\ UNCHANGED <<content, gen, bound, set, recorded, published>>
      /\ \A m \in Modules : index'[m].dependents = Erased[m].dependents \union NewDependents(m)
      /\ \A m \in Modules : m \notin set => Erased[m] = index[m]
      /\ \A m \in Modules : m \in set => Erased[m].dependents = {}
      /\ \A m \in Modules : NewDependents(m) \subseteq set
  BY Built
<1>2. set \subseteq Modules /\ DOMAIN content = Modules
  BY DEF Local, Types
<1>3. reports = UNION {AllErrors(m) : m \in set}
  BY <1>1 DEF Diagnosed, Found
<1> DEFINE mine(m) == {r \in reports : r.at.mod = m}
<1>4. \A m \in Modules : mine(m) = IF m \in set THEN AllErrors(m) ELSE {}
  BY <1>3, ErrorsAt
<1>5. \A m \in Modules :
          /\ index'[m].reports = Erased[m].reports \union mine(m)
          /\ NewDefs(m) # <<>> \/ recorded[m] # {} \/ mine(m) # {} => index'[m].exists
  BY DEF BuildIndex, NewDefs
<1>6. \A m \in set : Erased[m].reports = {}
  BY <1>2 DEF Erased, NoIndex
<1> HIDE DEF mine
<1>7. \A m \in Modules : index'[m].reports = IF m \in set THEN AllErrors(m) ELSE index[m].reports
  BY <1>1, <1>4, <1>5, <1>6
<1>8. \A m \in Modules : AllErrors(m)' = AllErrors(m)
  BY <1>1, ErrorsStay
<1>9. Shown'
  <2> SUFFICES ASSUME NEW m \in Modules, Untouched(m)'
               PROVE  index'[m].reports = AllErrors(m) /\ published[m] = AllErrors(m)
    BY <1>1, <1>8 DEF Shown
  <2>1. m \notin set
    BY <1>1 DEF Untouched
  <2>2. Untouched(m)
    BY <1>1, <2>1, RestUntouched
  <2> QED
    BY <1>7, <2>1, <2>2 DEF Diagnosed, Shown
<1>10. \A m \in set : index'[m].exists
  <2> SUFFICES ASSUME NEW m \in set PROVE index'[m].exists
    OBVIOUS
  <2>1. recorded[m] = AllUses(m)
    BY <1>1 DEF Remembered, Recorded, RecordedAt
  <2>2. DefsOf(m) # <<>> \/ recorded[m] # {} \/ AllErrors(m) # {}
    BY <1>1, <2>1, SomethingListed
  <2>3. NewDefs(m) = DefsOf(m) /\ mine(m) = AllErrors(m)
    BY <1>2, <1>4 DEF NewDefs
  <2> QED
    BY <1>2, <1>5, <2>2, <2>3
<1>11. Ready'
  BY <1>1, <1>2, <1>7, <1>8, <1>10 DEF Ready
<1>12. Found'
  BY <1>1 DEF Found
<1>13. Separate'
  <2> SUFFICES ASSUME NEW m \in Modules, NEW k \in Modules, Alone(m), k # m
               PROVE  m \notin index'[k].dependents
    BY DEF Separate, Alone, Depends
  <2>1. m \notin index[k].dependents
    BY DEF Diagnosed, Separate, Depends
  <2>2. m \notin NewDependents(k)
    <3> SUFFICES ASSUME m \in NewDependents(k) PROVE FALSE
      OBVIOUS
    <3>1. m \in set
      BY <1>1
    <3>2. recorded[m] = AllUses(m)
      BY <1>1, <3>1 DEF Remembered, Recorded, RecordedAt
    <3>3. DOMAIN Uses(m) = {}
      BY DEF Alone, Local, Types, Uses
    <3>4. PICK u \in AllUses(m) : u.symbol = ModSymbol(k)
                                  \/ (u.symbol \in DOMAIN symbolDefs' /\ symbolDefs'[u.symbol].mod = k)
      BY <3>2 DEF NewDependents, NewUses
    <3>5. PICK n \in Names : Defines(m, n) /\ u.symbol = Symbol(m, gen[m], n)
      BY <3>3, SymbolsUsed DEF Local
    <3>6. symbolDefs'[u.symbol] = [mod |-> m, pos |-> Line(m, n)]
      BY <3>1, <3>5, KeyFacts DEF Local
    <3>7. u.symbol # ModSymbol(k)
      BY <3>5, SymbolFacts
    <3> QED
      BY <3>4, <3>6, <3>7
  <2>3. CASE k \in set
    BY <1>1, <2>2, <2>3
  <2>4. CASE k \notin set
    BY <1>1, <2>1, <2>2, <2>4
  <2> QED
    BY <2>3, <2>4
<1> QED
  BY <1>9, <1>11, <1>12, <1>13 DEF Diagnosed

\* What is sent to the editor is what the index has.
LEMMA PublishDiagnosed ==
    ASSUME Local, Remembered, Diagnosed, Publish
    PROVE  Diagnosed'
<1>1. /\ pc = "publish" /\ pc' = "idle" /\ set' = {}
      /\ UNCHANGED <<content, gen, bound, index>>
      /\ \A m \in Modules : published'[m] = IF m \in set /\ index[m].exists THEN index[m].reports ELSE published[m]
  BY DEF Publish
<1>2. \A m \in set : index[m].exists /\ index[m].reports = AllErrors(m)
  BY <1>1 DEF Diagnosed, Ready
<1>3. \A m \in Modules : m \notin set => index[m].reports = AllErrors(m) /\ published[m] = AllErrors(m)
  BY <1>1, RestUntouched DEF Diagnosed, Shown
<1>4. \A m \in Modules : AllErrors(m)' = AllErrors(m)
  BY <1>1, ErrorsStay
<1>5. Shown'
  BY <1>1, <1>2, <1>3, <1>4 DEF Shown
<1>6. Ready' /\ Found'
  BY <1>1 DEF Ready, Found
<1>7. Separate'
  BY <1>1 DEF Diagnosed, Separate, Alone, Depends
<1> QED
  BY <1>5, <1>6, <1>7 DEF Diagnosed

\* At first no module is untouched.
LEMMA DiagnosedAtFirst == Init => Diagnosed
<1> SUFFICES ASSUME Init PROVE Diagnosed
  OBVIOUS
<1>1. pc = "start" /\ \A m \in Modules : index[m].dependents = {}
  BY DEF Init, NoIndex
<1> QED
  BY <1>1 DEF Diagnosed, Shown, Untouched, Ready, Found, Separate, Depends

\* Every step keeps the errors where they are shown.
LEMMA DiagnosedStep ==
    ASSUME SoundTexts, Local, Remembered, Diagnosed, [Next]_vars, ~remote'
    PROVE  Diagnosed'
<1>1. CASE UNCHANGED vars
  <2>1. UNCHANGED <<pc, content, gen, bound, set, reports, index, published>>
    BY <1>1 DEF vars
  <2>2. set \subseteq Modules
    BY DEF Local, Types
  <2>3. \A m \in Modules : /\ TextErrors(m)' = TextErrors(m) /\ AllErrors(m)' = AllErrors(m)
                           /\ UseErrors(m, Through(m))' = UseErrors(m, Through(m))
    BY <2>1, ErrorsStay
  <2>4. Shown' /\ Ready'
    BY <2>1, <2>2, <2>3 DEF Diagnosed, Shown, Ready, Untouched
  <2>5. pc \in {"collect", "generate"} => reports = UNION {TextErrors(m)' : m \in set}
    BY <2>2, <2>3 DEF Diagnosed, Found
  <2>6. pc \in {"resolve", "bodies"} => reports = UNION {TextErrors(m)' \union UseErrors(m, Through(m))' : m \in set}
    BY <2>2, <2>3 DEF Diagnosed, Found
  <2>7. pc = "index" => reports = UNION {AllErrors(m)' : m \in set}
    BY <2>2, <2>3 DEF Diagnosed, Found
  <2>8. Found'
    BY <2>1, <2>5, <2>6, <2>7 DEF Found
  <2>9. Separate'
    BY <2>1 DEF Diagnosed, Separate, Alone, Depends
  <2> QED
    BY <2>4, <2>8, <2>9 DEF Diagnosed
<1> QED
  BY <1>1, InitializeDiagnosed, DidChangeDiagnosed, CollectDiagnosed, GenerateDiagnosed, LookingDiagnosed,
     ResolveImportDiagnosed, AnalyzeBodiesDiagnosed, BuildIndexDiagnosed, PublishDiagnosed
  DEF Next, Analyze

\* The editor shows exactly the errors of the texts, also those of modules that
\* were not edited, for any number of modules, as long as no import of one
\* module was resolved in the course of another one and no text is one whose
\* errors are lost (Workspace::update, build_index, publish_diagnostics).
THEOREM DiagnosticsAlwaysFresh ==
    ASSUME SoundTexts
    PROVE  Spec => []DiagnosticsFresh
<1> DEFINE DInv == IInv /\ (~remote => Diagnosed)
<1>1. Init => DInv
  BY LocalAtFirst, RememberedAtFirst, DiagnosedAtFirst DEF IInv
<1>2. DInv /\ [Next]_vars => DInv'
  BY LocalStep, RememberedStep, RemoteStays, DiagnosedStep DEF IInv
<1>3. DInv => DiagnosticsFresh
  <2> SUFFICES ASSUME DInv, Answered, NEW m \in Modules PROVE published[m] = Errors(m)
    BY DEF DiagnosticsFresh
  <2>1. Untouched(m) /\ Types
    BY AtIdle DEF Answered, Listed
  <2>2. published[m] = AllErrors(m)
    BY <2>1 DEF Diagnosed, Shown, Answered
  <2>3. \A n \in content[m].calls : n \in Names
    BY <2>1, TextType
  <2>4. ASSUME NEW n \in content[m].calls PROVE LookUp(m, n) = NoSymbol <=> Origin(m, n) = "none"
    BY <2>3, LookUpOrigin, SymbolFacts, WorkspaceAssumption
  <2>5. CallErrors(m) = {Report("unknown", Ident(m, "call", n)) : n \in {k \in content[m].calls : Origin(m, k) = "none"}}
    BY <2>4 DEF CallErrors
  <2>6. UseErrors(m, DOMAIN Uses(m)) =
            {Report("unknown", Ident(m, "use", n)) : n \in {k \in DOMAIN content[m].uses : ~Known(content[m].uses[k], k)}}
    BY DEF UseErrors, Uses
  <2> QED
    BY <2>2, <2>5, <2>6 DEF AllErrors, TextErrors, Errors
<1> QED
  BY <1>1, <1>2, <1>3, PTL DEF Spec
==============================================================================
