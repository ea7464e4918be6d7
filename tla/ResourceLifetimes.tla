-------------------------- MODULE ResourceLifetimes --------------------------
(***************************************************************************)
(* The resource analyzer (src/src/banjo/sema/resource_analyzer.cpp): it    *)
(* walks over the body of a function, rejects programs that use a moved    *)
(* resource, and decides for every resource who destroys it.               *)
(*                                                                         *)
(* It keeps a stack of scopes.  A scope knows which resources of its block *)
(* are initialized (init) and which resources, of this block or of one     *)
(* around it, have been moved so far (moves).  The scopes of the branches  *)
(* of an if are merged when the whole statement has been walked over;      *)
(* until then they wait in the field pending.                              *)
(***************************************************************************)
EXTENDS Naturals, Sequences, FiniteSets, SequencesExt

-----------------------------------------------------------------------------
(***************************************************************************)
(* The bodies of functions as the resource analyzer and the generator of   *)
(* SSA code see them (src/src/banjo/sir/sir.hpp), reduced to what concerns *)
(* resources: locals that hold one, expressions that move one, look at one *)
(* or create a temporary one, blocks, branches, loops and early exits.     *)
(*                                                                         *)
(* A program is the sequence of its statements in the order of the source. *)
(* "if", "elif", "else", "loop" and "do" open a block; "elif", "else" and  *)
(* "end" close one.  Conditions are opaque: both branches may be taken.    *)
(*                                                                         *)
(*   var r        var r = create();          none   any other expression   *)
(*   if/elif/loop if e { ..., while e { ...  move r consume(r)             *)
(*   expr, return e;  return e;              use r  look(&r)               *)
(*   do           { ...                      temp   create().value         *)
(***************************************************************************)

CONSTANTS
    Resources,  \* the locals that hold a resource, and their fields that do
    Inside,     \* pairs <<r, s>>: r is a field of s, or of a field of s
    HasDeinit,  \* the resources whose type has a __deinit__ method
    Temp,       \* the temporary resource of a "temp" expression
    Families,   \* names of families of programs
    ExprsOf,    \* the kinds of statement the programs of a family are made of,
                \* each with the kinds of expression it may have
    NamesOf,    \* the resources the programs of a family may name
    MaxLen,     \* bound on the number of statements
    MaxLoops    \* bound on the number of loops around a statement, per family

Supers(r) == {s \in Resources : <<r, s>> \in Inside}
Subs(r) == {s \in Resources : <<s, r>> \in Inside}
Whole(r) == {r} \union Subs(r)
Locals == {r \in Resources : Supers(r) = {}}
Root(r) == CHOOSE s \in Locals : r \in Whole(s)

AllOps == {"var", "expr", "return", "break", "continue", "if", "elif", "else",
           "loop", "do", "end"}
AllExprs == {"none", "move", "use", "temp"}

ASSUME ProgramAssumption ==
    /\ Inside \subseteq Resources \X Resources
    /\ \A r \in Resources : r \notin Supers(r) /\ \E s \in Locals : r \in Whole(s)
    /\ \A r \in Resources : Subs(r) = {} => r \in HasDeinit
    /\ HasDeinit \subseteq Resources
    /\ Temp \notin Resources
    /\ \A fam \in Families :
        /\ DOMAIN ExprsOf[fam] \subseteq AllOps
        /\ \A op \in DOMAIN ExprsOf[fam] : ExprsOf[fam][op] \subseteq AllExprs
        /\ NamesOf[fam] \subseteq Resources
    /\ MaxLen \in Nat /\ MaxLoops \in [Families -> Nat]

\* The resource of a statement without one is Temp.
Statements == [op : AllOps, e : AllExprs, r : Resources \union {Temp}]

Opens(t) == t.op \in {"if", "elif", "else", "loop", "do"}
Closes(t) == t.op \in {"elif", "else", "end"}
Jumps(t) == t.op \in {"return", "break", "continue"}

\* The number of blocks that are open before statement i.
Depth(p, i) ==
    Cardinality({k \in 1..(i - 1) : Opens(p[k])}) - Cardinality({k \in 1..(i - 1) : Closes(p[k])})

\* A block is named by the statement that opens it, the body of the function
\* by 0.  The blocks that are open before statement i, and the innermost one.
OpenBlocks(p, i) ==
    {0} \union {k \in 1..(i - 1) :
        /\ Opens(p[k])
        /\ \A j \in (k + 1)..(i - 1) : Closes(p[j]) => Depth(p, j) # Depth(p, k + 1)}
Innermost(p, i) == CHOOSE k \in OpenBlocks(p, i) : \A j \in OpenBlocks(p, i) : j <= k

\* The statement that closes block k, and the end of its if or loop.
CloseOf(p, k) ==
    CHOOSE j \in (k + 1)..Len(p) :
        /\ Closes(p[j]) /\ Depth(p, j) = Depth(p, k + 1)
        /\ \A m \in (k + 1)..(j - 1) : Closes(p[m]) => Depth(p, m) # Depth(p, k + 1)
EndOf(p, k) ==
    CHOOSE j \in (k + 1)..Len(p) :
        /\ p[j].op = "end" /\ Depth(p, j) = Depth(p, k + 1)
        /\ \A m \in (k + 1)..(j - 1) : p[m].op = "end" => Depth(p, m) # Depth(p, k + 1)

\* The loop around statement i, if there is one.
LoopsAround(p, i) == {k \in OpenBlocks(p, i) \ {0} : p[k].op = "loop"}
LoopAround(p, i) == CHOOSE k \in LoopsAround(p, i) : \A j \in LoopsAround(p, i) : j <= k

Declared(p) == {p[i].r : i \in {j \in DOMAIN p : p[j].op = "var"}}
DeclOf(p, r) == CHOOSE i \in DOMAIN p : p[i].op = "var" /\ p[i].r = Root(r)
BlockOf(p, r) == Innermost(p, DeclOf(p, r))

\* The resources of a block: its locals with all their fields.
ResourcesOf(p, b) == {r \in Resources : Root(r) \in Declared(p) /\ BlockOf(p, r) = b}

\* The statements that may follow a program p of a family: a local is declared once and
\* named where it is visible, no block is empty, else follows if, a jump is
\* the last statement of a branch, of a loop or of the function, and there is
\* one temporary.
MayFollow(p, t, fam) ==
    LET i == Len(p) + 1
        inner == Innermost(p, i)
    IN  /\ Len(p) + Depth(Append(p, t), i + 1) < MaxLen
        /\ Closes(t) => Depth(p, i) > 0 /\ ~Opens(p[Len(p)])
        /\ t.op \in {"elif", "else"} => p[inner].op \in {"if", "elif"}
        /\ p # <<>> /\ Jumps(p[Len(p)]) => Closes(t)
        /\ Jumps(t) /\ inner # 0 => p[inner].op # "do"
        /\ t.op \in {"break", "continue"} => LoopsAround(p, i) # {}
        /\ t.op = "loop" => Cardinality(LoopsAround(p, i)) < MaxLoops[fam]
        /\ t.op = "var" => t.r \in Locals \ Declared(p)
        /\ t.e \in {"move", "use"} =>
               /\ t.r \in Resources /\ Root(t.r) \in Declared(p)
               /\ BlockOf(p, t.r) \in OpenBlocks(p, i) \ (IF Closes(t) THEN {inner} ELSE {})
        /\ t.e \in {"none", "temp"} /\ t.op # "var" => t.r = Temp
        /\ t.e = "temp" => \A j \in DOMAIN p : p[j].e # "temp"

-----------------------------------------------------------------------------

VARIABLES
    prog,       \* the program
    pc,         \* the next statement
    scopes,     \* the stack of scopes, the innermost one last
    ownership,  \* what has been decided for each resource
    ok          \* no error has been reported

avars == <<prog, pc, scopes, ownership, ok>>

InitStates == {"UNINITIALIZED", "INITIALIZED", "COND_INITIALIZED"}
Ownerships == {"OWNED", "MOVED", "MOVED_COND", "INIT_COND"}
MoveStates == [moved : BOOLEAN, conditional : BOOLEAN, partial : BOOLEAN]
Moved(conditional, partial) ==
    [moved |-> TRUE, conditional |-> conditional, partial |-> partial]
NotMoved == [moved |-> FALSE, conditional |-> FALSE, partial |-> FALSE]

\* A new scope: every resource of the block, its fields included, is not
\* initialized and not moved.
Scope(b, pending) ==
    [loop    |-> b # 0 /\ prog[b].op = "loop",
     block   |-> b,
     init    |-> [r \in ResourcesOf(prog, b) |-> "UNINITIALIZED"],
     moves   |-> [r \in ResourcesOf(prog, b) |-> NotMoved],
     pending |-> pending]

Top(s) == s[Len(s)]

\* The state of r in the innermost scope that has one.
FindMoveState(s, r) ==
    LET in == {k \in DOMAIN s : r \in DOMAIN s[k].moves}
    IN  s[CHOOSE k \in in : \A j \in in : j <= k].moves[r]

\* Using r is an error after it was moved; a partially moved resource may
\* still be the left side of a field access.
UseAfterMove(s, r, isFieldLhs) ==
    LET state == FindMoveState(s, r)
    IN  state.moved /\ ~(state.partial /\ isFieldLhs)

\* As MoveInLoop, but a loop directly in the block of r is missed.
MoveInLoopFar(s, r) ==
    \E k \in DOMAIN s :
        /\ ~s[k].loop
        /\ s[k].block = BlockOf(prog, r)
        /\ \E l \in (k + 2)..Len(s) : s[l].loop

\* Moving r is an error when there is a loop between here and the block of r.
\* Scopes of loops are skipped before their block is compared.
MoveInLoop(s, r) ==
    \E k \in DOMAIN s :
        /\ ~s[k].loop
        /\ s[k].block = BlockOf(prog, r)
        /\ \E l \in (k + 1)..Len(s) : s[l].loop

ExprFails(s, t) ==
    \/ \E q \in Supers(t.r) : UseAfterMove(s, q, TRUE)
    \/ t.e = "move" /\ Supers(t.r) \intersect HasDeinit # {}
    \/ UseAfterMove(s, t.r, FALSE)
    \/ t.e = "move" /\ MoveInLoop(s, t.r)

\* A move is recorded in the innermost scope, for the fields of the resource
\* and, as a partial move, for the resources it is a field of.
Move(moves, r, conditional) ==
    [q \in DOMAIN moves \union Whole(r) \union Supers(r) |->
        IF q = r THEN Moved(conditional, FALSE)
        ELSE IF q \in Whole(r) \union Supers(r) THEN Moved(conditional, TRUE)
        ELSE moves[q]]

\* An expression is analyzed in the innermost of the scopes s.  A failing one
\* is reported and changes nothing.
AnalyzeExpr(s, t, conditional) ==
    IF t.e = "move" /\ ~ExprFails(s, t)
    THEN [s EXCEPT ![Len(s)].moves = Move(@, t.r, conditional)]
    ELSE s
ExprOk(s, t) == t.e \in {"move", "use"} => ~ExprFails(s, t)

\* Resources that are not initialized at an early exit are initialized only
\* if it is not taken.
MarkUninit(scope) ==
    [scope EXCEPT !.init = [r \in DOMAIN @ |->
        IF @[r] = "UNINITIALIZED" THEN "COND_INITIALIZED" ELSE @[r]]]
\* A jump leaves the scopes from number k on.
MarkFrom(s, k) == [j \in DOMAIN s |-> IF j >= k THEN MarkUninit(s[j]) ELSE s[j]]
LoopScope(s) ==
    LET loops == {k \in DOMAIN s : s[k].loop}
    IN  CHOOSE k \in loops : \A j \in loops : j <= k

\* The end of a block decides the ownership of every resource whose state its
\* scope has.
Decide(scope, own) ==
    [r \in Resources |->
        IF r \notin DOMAIN scope.moves THEN own[r]
        ELSE IF r \in DOMAIN scope.init /\ scope.init[r] = "COND_INITIALIZED" THEN "INIT_COND"
        ELSE IF ~scope.moves[r].moved THEN "OWNED"
        ELSE IF scope.moves[r].conditional THEN "MOVED_COND" ELSE "MOVED"]

\* As Merge, but the states of the parent are replaced.
MergeReplace(parent, child, conditional) ==
    [r \in {q \in DOMAIN child : child[q].moved} |-> child[r]]
\* As Merge, but only the move of a whole resource becomes conditional.
MergeOuter(parent, child, conditional) ==
    [r \in DOMAIN parent \union {q \in DOMAIN child : child[q].moved} |->
        IF r \notin DOMAIN child \/ ~child[r].moved THEN parent[r]
        ELSE Moved(child[r].conditional \/ (conditional /\ ~child[r].partial), child[r].partial)]

\* The moves of a child scope become moves of its parent.
Merge(parent, child, conditional) ==
    [r \in DOMAIN parent \union {q \in DOMAIN child : child[q].moved} |->
        IF r \notin DOMAIN child \/ ~child[r].moved THEN parent[r]
        ELSE LET cond == conditional \/ child[r].conditional IN
            IF r \notin DOMAIN parent THEN [child[r] EXCEPT !.conditional = cond]
            ELSE IF parent[r].moved THEN [parent[r] EXCEPT !.conditional = @ /\ cond]
            ELSE Moved(cond, child[r].partial)]

MergeInto(s, children, conditional) ==
    [s EXCEPT ![Len(s)].moves =
        FoldLeft(LAMBDA parent, child : Merge(parent, child, conditional), @, children)]

Statement == prog[pc]

AnalyzeVar ==
    /\ Statement.op = "var"
    /\ scopes' = [scopes EXCEPT ![Len(scopes)].init = [r \in DOMAIN @ |->
            IF r \in Whole(Statement.r) /\ @[Statement.r] = "UNINITIALIZED"
            THEN "INITIALIZED" ELSE @[r]]]
    /\ UNCHANGED <<ownership, ok>>

AnalyzeExprStmt ==
    /\ Statement.op = "expr"
    /\ scopes' = AnalyzeExpr(scopes, Statement, FALSE)
    /\ ok' = (ok /\ ExprOk(scopes, Statement))
    /\ UNCHANGED ownership

AnalyzeReturn ==
    /\ Statement.op = "return"
    /\ scopes' = MarkFrom(AnalyzeExpr(scopes, Statement, FALSE), 1)
    /\ ok' = (ok /\ ExprOk(scopes, Statement))
    /\ UNCHANGED ownership

AnalyzeLoopJump ==
    /\ Statement.op \in {"break", "continue"}
    /\ scopes' = MarkFrom(scopes, LoopScope(scopes))
    /\ UNCHANGED <<ownership, ok>>

\* The first condition of an if is analyzed before its block, that of a loop
\* after it.
AnalyzeOpen ==
    /\ Statement.op \in {"if", "loop", "do"}
    /\ LET isIf == Statement.op = "if" IN
       /\ scopes' = Append(IF isIf THEN AnalyzeExpr(scopes, Statement, FALSE) ELSE scopes,
                           Scope(pc, <<>>))
       /\ ok' = (ok /\ (isIf => ExprOk(scopes, Statement)))
    /\ UNCHANGED ownership

\* The children of a statement: the branches that wait and the block that ends.
Children == Append(Top(scopes).pending, Top(scopes).moves)

AnalyzeElse ==
    /\ Statement.op \in {"elif", "else"}
    /\ scopes' = Append(AnalyzeExpr(Front(scopes), Statement, TRUE), Scope(pc, Children))
    /\ ok' = (ok /\ ExprOk(Front(scopes), Statement))
    /\ ownership' = Decide(Top(scopes), ownership)

AnalyzeEnd ==
    /\ Statement.op = "end"
    /\ LET head == prog[Top(scopes).block]
           cond == IF head.op = "loop" THEN head ELSE [head EXCEPT !.e = "none"]
       IN  /\ scopes' = MergeInto(AnalyzeExpr(Front(scopes), cond, FALSE), Children, head.op # "do")
           /\ ok' = (ok /\ ExprOk(Front(scopes), cond))
    /\ ownership' = Decide(Top(scopes), ownership)

\* analyze_block: one statement after the other.
AnalyzeStatement ==
    /\ pc <= Len(prog)
    /\ \/ AnalyzeVar \/ AnalyzeExprStmt \/ AnalyzeReturn \/ AnalyzeLoopJump
       \/ AnalyzeOpen \/ AnalyzeElse \/ AnalyzeEnd
    /\ pc' = pc + 1
    /\ UNCHANGED prog

AnalyzerTypeOK ==
    /\ prog \in Seq(Statements)
    /\ pc \in 1..(Len(prog) + 1)
    /\ \A k \in DOMAIN scopes :
        /\ DOMAIN scopes[k].init = ResourcesOf(prog, scopes[k].block)
        /\ \A r \in DOMAIN scopes[k].init : scopes[k].init[r] \in InitStates
        /\ DOMAIN scopes[k].init \subseteq DOMAIN scopes[k].moves
        /\ \A r \in DOMAIN scopes[k].moves : scopes[k].moves[r] \in MoveStates
    /\ ownership \in [Resources -> Ownerships]
    /\ ok \in BOOLEAN

-----------------------------------------------------------------------------
(***************************************************************************)
(* The code that destroys resources: the part of the generator of SSA code *)
(* (src/src/banjo/ssa_gen/block_ssa_generator.cpp, expr_ssa_generator.cpp) *)
(* that acts on the decisions of the analyzer, and the run of what it      *)
(* generates.                                                              *)
(*                                                                         *)
(* A behaviour writes a program, analyzes it and, if no error is reported, *)
(* runs it; every condition may go either way.  The state of a run is the  *)
(* value in the memory of each resource and the flags that the generated   *)
(* code keeps for the resources whose fate depends on the path taken.      *)
(***************************************************************************)
VARIABLES
    family, \* the family of the program
    phase,  \* "write", "analyze", "rejected", "run" or "done"
    jumped, \* the run came to statement pc by a jump and not from before it
    value,  \* what the memory of each resource holds
    flag    \* the deinit flag of each resource

vars == <<prog, pc, scopes, ownership, ok, family, phase, jumped, value, flag>>

All == Resources \union {Temp}
Values == {"uninit", "owned", "moved", "destroyed", "corrupt"}
HasFlag(r) == ownership[r] \in {"MOVED_COND", "INIT_COND"}

TypeOK ==
    /\ AnalyzerTypeOK
    /\ family \in Families
    /\ phase \in {"write", "analyze", "rejected", "run", "done"}
    /\ jumped \in BOOLEAN
    /\ value \in [All -> Values]
    /\ flag \in [Resources -> BOOLEAN]

Init ==
    /\ prog = <<>> /\ pc = 1
    /\ scopes = <<>>
    /\ ownership = [r \in Resources |-> "OWNED"]
    /\ ok = TRUE
    /\ family \in Families
    /\ phase = "write" /\ jumped = FALSE
    /\ value = [r \in All |-> "uninit"]
    /\ flag = [r \in Resources |-> FALSE]

Write ==
    /\ phase = "write"
    /\ \E op \in DOMAIN ExprsOf[family] :
       \E e \in ExprsOf[family][op], r \in NamesOf[family] \union {Temp} :
        /\ MayFollow(prog, [op |-> op, e |-> e, r |-> r], family)
        /\ prog' = Append(prog, [op |-> op, e |-> e, r |-> r])
    /\ UNCHANGED <<pc, scopes, ownership, ok, family, phase, jumped, value, flag>>

StartAnalysis ==
    /\ phase = "write"
    /\ prog # <<>> /\ Depth(prog, Len(prog) + 1) = 0
    /\ phase' = "analyze"
    /\ scopes' = <<Scope(0, <<>>)>>
    /\ UNCHANGED <<prog, pc, ownership, ok, family, jumped, value, flag>>

Analyze ==
    /\ phase = "analyze"
    /\ AnalyzeStatement
    /\ UNCHANGED <<family, phase, jumped, value, flag>>

\* Entering a block: its memory is fresh, and the flags get their first value.
Fresh(b, v) == [r \in All |-> IF r \in ResourcesOf(prog, b) THEN "uninit" ELSE v[r]]
FirstFlags(b, own, f) ==
    [r \in Resources |-> IF r \in ResourcesOf(prog, b) THEN own[r] = "MOVED_COND" ELSE f[r]]

\* The whole program has been analyzed.
FinishAnalysis ==
    /\ phase = "analyze" /\ pc > Len(prog)
    /\ ownership' = Decide(Top(scopes), ownership)
    /\ scopes' = <<>>
    /\ IF ok
       THEN /\ phase' = "run" /\ pc' = 1
            /\ flag' = FirstFlags(0, ownership', flag)
       ELSE /\ phase' = "rejected"
            /\ UNCHANGED <<pc, flag>>
    /\ UNCHANGED <<prog, ok, family, jumped, value>>

-----------------------------------------------------------------------------
(* What the generated code does. *)

\* A destructor that runs on memory without an owned value corrupts it.
Destroy(v, rs) ==
    [r \in All |-> IF r \notin rs THEN v[r]
                   ELSE IF v[r] = "owned" THEN "destroyed" ELSE "corrupt"]

\* The resources among rs that generate_deinit destroys.
Deinits(rs, f) ==
    {r \in rs \intersect HasDeinit : ownership[r] = "OWNED" \/ (HasFlag(r) /\ f[r])}

\* As BlockDeinit, but only for the innermost of the blocks.
BlockDeinitInner(blocks, v, f) ==
    Destroy(v, Deinits({r \in Resources : \E b \in blocks :
        r \in ResourcesOf(prog, b) /\ \A c \in blocks : c <= b}, f))
BlockDeinit(blocks, v, f) ==
    Destroy(v, Deinits({r \in Resources : \E b \in blocks : r \in ResourcesOf(prog, b)}, f))

\* The memory and the flags after the expression of statement t.
ValueAfter(t) ==
    [r \in All |-> IF t.e = "move" /\ r \in Whole(t.r) THEN "moved"
                   ELSE IF t.e = "temp" /\ r = Temp THEN "owned"
                   ELSE value[r]]
FlagAfter(t) ==
    [r \in Resources |->
        IF t.e = "move" /\ r \in Whole(t.r) /\ HasFlag(t.r) THEN FALSE ELSE flag[r]]

\* The destruction of a temporary is generated behind the first statement
\* that ends, in the order of the program, after the temporary was generated
\* and that is not a jump; then it is forgotten.
StatementEnds(i) == prog[i].op \in {"var", "expr", "end"}
DeferredAt(i) ==
    \E k \in 1..i :
        /\ prog[k].e = "temp"
        /\ StatementEnds(i)
        /\ \A j \in k..(i - 1) : ~StatementEnds(j)
Deferred(v) == IF DeferredAt(pc) THEN Destroy(v, {Temp}) ELSE v

GoTo(i, byJump) == pc' = i /\ jumped' = byJump

RunVar ==
    /\ Statement.op = "var"
    /\ value' = Deferred([r \in All |-> IF r \in Whole(Statement.r) THEN "owned" ELSE value[r]])
    /\ flag' = [r \in Resources |->
            flag[r] \/ (r \in Whole(Statement.r) /\ ownership[Statement.r] = "INIT_COND")]
    /\ GoTo(pc + 1, FALSE)
    /\ UNCHANGED phase

RunExpr ==
    /\ Statement.op = "expr"
    /\ value' = Deferred(ValueAfter(Statement))
    /\ flag' = FlagAfter(Statement)
    /\ GoTo(pc + 1, FALSE)
    /\ UNCHANGED phase

\* A branch: into the block, or to what follows it.
RunCondition ==
    /\ Statement.op \in {"if", "loop"} \/ (Statement.op = "elif" /\ jumped)
    /\ \/ /\ value' = Fresh(pc, ValueAfter(Statement))
          /\ flag' = FirstFlags(pc, ownership, FlagAfter(Statement))
          /\ GoTo(pc + 1, FALSE)
       \/ /\ value' = ValueAfter(Statement)
          /\ flag' = FlagAfter(Statement)
          /\ GoTo(CloseOf(prog, pc), TRUE)
    /\ UNCHANGED phase

RunEnter ==
    /\ Statement.op = "do" \/ (Statement.op = "else" /\ jumped)
    /\ value' = Fresh(pc, value)
    /\ flag' = FirstFlags(pc, ownership, flag)
    /\ GoTo(pc + 1, FALSE)
    /\ UNCHANGED phase

\* The end of a block that is reached from inside: a loop starts again, a
\* branch jumps behind its if statement.
RunBlockEnd ==
    /\ Closes(Statement) /\ ~jumped
    /\ LET block == Innermost(prog, pc) IN
       /\ value' = BlockDeinit({block}, value, flag)
       /\ CASE prog[block].op = "loop" -> GoTo(block, FALSE)
            [] Statement.op # "end" -> GoTo(EndOf(prog, pc), TRUE)
            [] OTHER -> GoTo(pc, TRUE)
    /\ UNCHANGED <<phase, flag>>

RunStatementEnd ==
    /\ Statement.op = "end" /\ jumped
    /\ value' = Deferred(value)
    /\ GoTo(pc + 1, FALSE)
    /\ UNCHANGED <<phase, flag>>

RunLoopJump ==
    /\ Statement.op \in {"break", "continue"}
    /\ LET loop == LoopAround(prog, pc) IN
       /\ value' = BlockDeinit({b \in OpenBlocks(prog, pc) : b >= loop}, value, flag)
       /\ IF Statement.op = "break" THEN GoTo(CloseOf(prog, loop), TRUE) ELSE GoTo(loop, FALSE)
    /\ UNCHANGED <<phase, flag>>

RunReturn ==
    /\ Statement.op = "return"
    /\ value' = BlockDeinit(OpenBlocks(prog, pc), ValueAfter(Statement), FlagAfter(Statement))
    /\ flag' = FlagAfter(Statement)
    /\ GoTo(Len(prog) + 1, FALSE)
    /\ phase' = "done"

RunStatement ==
    /\ phase = "run" /\ pc <= Len(prog)
    /\ \/ RunVar \/ RunExpr \/ RunCondition \/ RunEnter \/ RunBlockEnd \/ RunStatementEnd
       \/ RunLoopJump \/ RunReturn
    /\ UNCHANGED <<prog, scopes, ownership, ok, family>>

RunFunctionEnd ==
    /\ phase = "run" /\ pc > Len(prog)
    /\ value' = BlockDeinit({0}, value, flag)
    /\ phase' = "done"
    /\ UNCHANGED <<prog, pc, scopes, ownership, ok, family, jumped, flag>>

Next ==
    \/ Write \/ StartAnalysis \/ Analyze \/ FinishAnalysis
    \/ RunStatement \/ RunFunctionEnd

Spec == Init /\ [][Next]_vars

-----------------------------------------------------------------------------
(* Properties. *)

Reads(t) == IF t.e \in {"move", "use"} THEN Whole(t.r) ELSE {}

\* A program that is accepted never reads a resource that was moved away,
\* destroyed or not yet initialized: neither a second move in a later
\* iteration of a loop nor a use on some path escapes the analyzer.
ReadsOwned ==
    phase = "run" /\ pc <= Len(prog) /\ (Statement.op = "elif" => jumped)
        => \A r \in Reads(Statement) : value[r] = "owned"

\* A destructor runs only on a value that its resource owns: the flags and
\* the ownership, decided once for the whole program, are right on every path
\* through blocks, branches, loops and early exits.
DestroysOwned == \A r \in All : value[r] # "corrupt"

\* Whether a statement or the end of a block, whatever takes the value of a
\* resource finds it owned (analyze_resources, generate_deinit).
UsesOwned == ReadsOwned /\ DestroysOwned

\* A resource that was not moved away is destroyed when the run leaves its
\* block, and a temporary before the function ends.
NoLeak ==
    /\ phase \in {"run", "done"} => \A r \in HasDeinit :
        value[r] = "owned" => phase = "run" /\ BlockOf(prog, r) \in OpenBlocks(prog, pc)
    /\ phase = "done" => value[Temp] # "owned"

\* The generator looks up a flag only where it has made one: a resource that
\* needs a flag has no field without one.
FlagSlots ==
    phase = "run" => \A i \in DOMAIN prog :
        \/ prog[i].e = "move" /\ HasFlag(prog[i].r)
        \/ prog[i].op = "var" /\ ownership[prog[i].r] = "INIT_COND"
        => \A r \in Subs(prog[i].r) : HasFlag(r)
==============================================================================
