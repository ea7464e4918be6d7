----------------------------- MODULE MCResources -----------------------------
(***************************************************************************)
(* Instances of ResourceLifetimes for TLC: the local p is a pair with the     *)
(* fields x and y, the locals a and b are single resources.  An instance   *)
(* is the set of all programs up to a length of some families; a family    *)
(* says which kinds of statement its programs are made of.                 *)
(***************************************************************************)
EXTENDS ResourceLifetimes, TLC

CONSTANTS a, b, p, x, y

PairInside == {<<x, p>>, <<y, p>>}

\* Nothing tells the two single resources, or the two fields, apart.
MCSymmetry == Permutations({a, b}) \union Permutations({x, y})

\* Statements that have no expression.
Plain == [op \in {"var", "do", "else", "end"} |-> {"none"}]

\* Moves in every kind of branch, in loops and in conditions.
MoveStatements ==
    Plain @@ ("expr" :> {"move", "use", "temp"}) @@ ("loop" :> {"none", "use"})
          @@ [op \in {"if", "elif"} |-> {"none", "move", "use"}]

\* Fields that are moved one by one, together or on some path only.
FieldStatements ==
    Plain @@ ("expr" :> {"move", "use"}) @@ ("if" :> {"none", "move"})

\* Early exits, before and after locals are initialized, without moves.
ExitStatements ==
    Plain @@ ("expr" :> {"use", "temp"}) @@ [op \in {"break", "continue"} |-> {"none"}]
          @@ [op \in {"if", "loop", "return"} |-> {"none", "use"}]

\* A move behind an early exit.
ReturnAndMove ==
    [op \in {"var", "if", "return", "end"} |-> {"none"}] @@ ("expr" :> {"move"})
ContinueAndMove ==
    [op \in {"var", "if", "loop", "continue", "end"} |-> {"none"}] @@ ("expr" :> {"move"})

\* Moves in a nested loop and in the condition of a loop.
LoopsAndMoves ==
    [op \in {"var", "loop", "end"} |-> {"none"}] @@ ("expr" :> {"move"})
LoopConditions ==
    [op \in {"var", "end"} |-> {"none"}] @@ ("expr" :> {"use"}) @@ ("loop" :> {"none", "move"})

\* A temporary in a condition and in the value of a return.
TempInCondition ==
    [op \in {"var", "end"} |-> {"none"}] @@ ("if" :> {"temp"}) @@ ("expr" :> {"use"})
TempInReturn ==
    [op \in {"var", "if", "end"} |-> {"none"}] @@ ("return" :> {"none", "temp"}) @@ ("expr" :> {"use"})

MCExprsOf ==
    ("moves" :> MoveStatements) @@ ("fields" :> FieldStatements) @@ ("exits" :> ExitStatements)
    @@ ("return" :> ReturnAndMove) @@ ("continue" :> ContinueAndMove)
    @@ ("nested" :> LoopsAndMoves) @@ ("condition" :> LoopConditions)
    @@ ("temp_if" :> TempInCondition) @@ ("temp_return" :> TempInReturn)

MCNamesOf ==
    [fam \in DOMAIN MCExprsOf |->
        IF fam = "fields" THEN {p, x, y} ELSE IF fam \in {"moves", "exits"} THEN {a, b} ELSE {a}]

MCMaxLoops == [fam \in Families |-> IF fam \in {"exits", "nested"} THEN 2 ELSE 1]
==============================================================================
