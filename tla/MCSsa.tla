------------------------------- MODULE MCSsa -------------------------------
(***************************************************************************)
(* The programs that TLC compiles: main reads two numbers into x and y,    *)
(* runs two statements, prints x and y and returns x.  The statements      *)
(* cover the forms of control flow, calls of a function with a branch, a   *)
(* loop or a call, and structs that are copied, split and overwritten.     *)
(* In place of the compilation of the smallest program TLC builds every    *)
(* control flow graph, for the analyses that the passes rely on.           *)
(***************************************************************************)
EXTENDS SsaPasses, ControlFlow

-----------------------------------------------------------------------------
(***************************************************************************)
(* Every control flow graph of up to four blocks, built one branch at a    *)
(* time: a block ends in no jump (a return), in one, or in a conditional   *)
(* branch, and nothing branches to the entry block.                        *)
(***************************************************************************)

CONSTANTS Blocks,   \* the blocks after the entry
          Entry

VARIABLE graph

Targets == {<<>>} \cup {<<b>> : b \in Blocks} \cup (Blocks \X Blocks)

NoBranches == [entry |-> Entry, succ |-> [b \in Blocks \cup {Entry} |-> <<>>]]
InitGraph == graph = NoBranches

\* A block that still returns gets its branch.
AddBranch == \E b \in Blocks \cup {Entry}, t \in Targets \ {<<>>} :
    /\ graph.succ[b] = <<>>
    /\ graph' = [graph EXCEPT !.succ[b] = t]

IdomsExact(idoms) ==
    /\ DOMAIN idoms = Reachable(graph)
    /\ \A b \in DOMAIN idoms \ {Entry} : idoms[b] = IdomDef(graph, b)
FrontiersExact(idoms) ==
    \A a \in DOMAIN idoms :
        /\ Frontier(graph, idoms, a) = FrontierDef(graph, a)
        /\ \A b \in DOMAIN idoms : Dominates(idoms, a, b) <=> Dom(graph, a, b)
LoopsExact(loops) ==
    /\ {<<l.tail, l.header>> : l \in loops}
         = {<<a, b>> \in Reachable(graph) \X Reachable(graph) :
               b \in Range(graph.succ[a]) /\ Dom(graph, b, a)}
    /\ \A l \in loops : l.body = NaturalLoop(graph, l.tail, l.header)
\* What the passes are told of a graph is what paths define, also in one that no
\* source loop has (irreducible): the immediate dominators that compute_idoms
\* builds, dominance and the frontiers, where StackToReg puts block parameters,
\* and the loops of LoopAnalyzer with their bodies, out of which LICM moves.
GraphsExact ==
    /\ IdomsExact(Idoms(graph))
    /\ FrontiersExact(Idoms(graph))
    /\ LoopsExact(Range(Loops(graph)))

-----------------------------------------------------------------------------

X == <<"var", "x">>
Y == <<"var", "y">>
Lit(n) == <<"int", n>>
Read == <<"read">>
Bin(op, a, b) == <<"bin", op, a, b>>
Cmp(a, op, b) == <<"cmp", op, a, b>>
And(a, b) == <<"and", a, b>>
Or(a, b) == <<"or", a, b>>
Not(a) == <<"not", a>>
Call(f, a) == <<"call", f, <<a>>>>
Set(x, e) == <<"assign", x, e>>
Show(e) == <<"print", e>>
If(c, s) == <<"if", c, s, <<>>>>
IfElse(c, s, t) == <<"if", c, s, t>>
While(c, s) == <<"loop", c, s, <<>>>>
For(c, s, latch) == <<"loop", c, s, latch>>
Break == <<"break">>
Continue == <<"continue">>
Return(e) == <<"return", e>>
Add(a, b) == Bin("add", a, b)

Straight == {
    Set("x", Add(Add(Lit(1), Lit(2)), X)),
    Set("y", Bin("mul", Bin("sub", X, Lit(0)), Lit(4))),
    Set("y", Bin("sdiv", X, Bin("sub", Y, Lit(1)))),
    Set("y", Or(And(Cmp(X, "lt", Lit(1)), Cmp(Read, "eq", Lit(2))), Not(Y)))}

Branches == {
    IfElse(Cmp(X, "lt", Y), <<Set("x", Y)>>, <<Set("x", Lit(2))>>),
    If(Or(Cmp(X, "gt", Lit(1)), And(Y, Not(Cmp(X, "eq", Y)))), <<Set("y", X), Show(Y)>>),
    If(Cmp(X, "eq", Lit(1)), <<Return(Y)>>),
    IfElse(Cmp(Y, "ge", Lit(1)), <<Set("y", Add(X, Lit(1)))>>, <<If(X, <<Set("x", Lit(0)), Set("y", Lit(5))>>)>>),
    IfElse(X, <<Return(Lit(3))>>, <<Show(Y)>>)}

Loops1 == {
    While(Cmp(Y, "gt", Lit(0)), <<Set("y", Bin("sub", Y, Lit(1))), Set("x", Add(X, Y))>>),
    While(Read, <<IfElse(Cmp(X, "eq", Lit(2)), <<Break>>, <<Set("x", Add(X, Lit(1))), Continue>>), Show(X)>>),
    For(Cmp(X, "lt", Lit(3)), <<If(Cmp(Read, "gt", Y), <<Continue>>), Show(X), Set("y", Bin("mul", Y, Lit(2)))>>,
        <<Set("x", Add(X, Lit(1)))>>),
    While(Read, <<While(Read, <<If(Y, <<Return(X)>>), Set("y", X)>>), Set("x", Add(Bin("mul", Y, Lit(3)), Lit(1)))>>)}

Calling == {
    Set("x", Call("pick", Y)),
    Set("y", Add(Call("twice", X), Call("pick", Add(X, Lit(1))))),
    While(Read, <<Set("y", Call("count", Y))>>),
    Show(Call("count", Lit(2)))}

Structs == {
    <<"assign", "p", <<"literal", X, Y>>>>,
    <<"assign_field", "p", 0, Add(<<"field", "p", 1>>, X)>>,
    Set("q", <<"var", "p">>),
    Set("y", <<"field", "q", 0>>),
    IfElse(Cmp(X, "lt", Y), <<Set("q", <<"literal", Y, Lit(7)>>)>>, <<<<"assign_field", "q", 1, X>>>>)}

Statements == Straight \cup Branches \cup Loops1 \cup Calling \cup Structs

One(n) == <<"literal", Lit(n), Lit(n + 1)>>
Main(s) == [params |-> <<>>, locals |-> <<<<"x", "int">>, <<"y", "int">>, <<"p", "pair">>, <<"q", "pair">>>>,
            body |-> <<Set("x", Read), Set("y", Read), Set("p", One(1)), Set("q", One(5))>> \o s
                     \o <<Show(Y), Show(<<"field", "p", 0>>), Show(<<"field", "q", 1>>), Return(X)>>]
\* A choice, two calls of it, and a loop that reads.
A == <<"var", "a">>
Pick == [params |-> <<"a">>, locals |-> <<>>,
         body |-> <<If(Cmp(A, "gt", Lit(1)), <<Return(Lit(1))>>), Return(Add(A, Lit(2)))>>]
Twice == [params |-> <<"a">>, locals |-> <<>>, body |-> <<Return(Call("pick", Call("pick", A)))>>]
Count == [params |-> <<"a">>, locals |-> <<<<"n", "int">>>>,
          body |-> <<Set("n", Lit(0)),
                     While(Cmp(Read, "gt", A), <<Show(A), Set("n", Add(<<"var", "n">>, Lit(1)))>>),
                     Return(<<"var", "n">>)>>]

Module(s) == [n \in {"main", "pick", "twice", "count"} |->
                 CASE n = "main" -> Main(s) [] n = "pick" -> Pick [] n = "twice" -> Twice [] n = "count" -> Count]

MCInputs == {<<>>, <<1, 2, 1, 0, 2, 3>>, <<2, 1, 1, 2, 1>>, <<0, 3, 2, 2, 0, 1>>}

AllPairs == {Module(<<s, t>>) : s \in Statements, t \in Statements}

\* Every statement before one of each form.
Second == {
    Set("y", Bin("mul", Bin("sub", X, Lit(0)), Lit(4))),
    IfElse(Cmp(X, "lt", Y), <<Set("x", Y)>>, <<Set("x", Lit(2))>>),
    If(Cmp(X, "eq", Lit(1)), <<Return(Y)>>),
    While(Cmp(Y, "gt", Lit(0)), <<Set("y", Bin("sub", Y, Lit(1))), Set("x", Add(X, Y))>>),
    For(Cmp(X, "lt", Lit(3)), <<If(Cmp(Read, "gt", Y), <<Continue>>), Show(X), Set("y", Bin("mul", Y, Lit(2)))>>,
        <<Set("x", Add(X, Lit(1)))>>),
    Set("y", Add(Call("twice", X), Call("pick", Add(X, Lit(1))))),
    Show(Call("count", Lit(2))),
    Set("q", <<"var", "p">>),
    <<"assign_field", "p", 0, Add(<<"field", "p", 1>>, X)>>}
Pairs == {Module(<<s, t>>) : s \in Statements, t \in Second}

\* Two variables of which the arms of a branch set one to the same value.
EqualArms == {Module(<<IfElse(Cmp(X, "lt", Lit(2)), <<Set("x", Lit(1)), Set("y", Lit(5))>>,
                                                     <<Set("x", Lit(3)), Set("y", Lit(5))>>)>>)}
\* A division in a loop, made only where the divisor is not zero.
GuardedDivision == {Module(<<While(Read, <<If(Y, <<Set("x", Bin("sdiv", Lit(6), Y))>>), Show(X)>>)>>)}
\* A negative number divided by a power of two.
NegativeDivision == {Module(<<Set("x", Bin("sdiv", <<"neg", Read>>, Lit(2)))>>)}
\* A struct that is overwritten with its own fields, exchanged.
ExchangedFields == {Module(<<<<"assign", "q", <<"literal", <<"field", "q", 1>>, <<"field", "q", 0>>>>>>>>)}

\* A program with nothing to optimize, beside which the graphs are built.
Smallest == [n \in {"main"} |-> [params |-> <<>>, locals |-> <<>>, body |-> <<Return(Lit(0))>>]]
PairsAndSmallest == Pairs \cup {Smallest}

CompileOrBuild == \/ graph = NoBranches /\ Next /\ UNCHANGED graph
                  \/ program = Smallest /\ module = NotGenerated /\ AddBranch /\ UNCHANGED vars
InitAll == Init /\ InitGraph
SpecAll == InitAll /\ [][CompileOrBuild]_<<vars, graph>>
=============================================================================
