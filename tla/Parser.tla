------------------------------- MODULE Parser -------------------------------
(***************************************************************************)
(* Parser, ExprParser, StmtParser and DeclParser: recursive descent over   *)
(* the tokens of a file, with recovery behind what is not understood.      *)
(*   parser p:  tokens, the position, where the last recovery ended (0:    *)
(*              none), skip (skip_stmt_decl_recovery) and the positions    *)
(*              that were reported;                                        *)
(*   builder b: NodeBuilder: p, the node's own tokens, its children, and   *)
(*              whether all went well so far;                              *)
(*   result r:  ParseResult: p, the node, and whether it is valid.         *)
(* A node has a type, its own tokens and its children.  Completion (a      *)
(* token of its own where the cursor is) is left out.                      *)
(***************************************************************************)
EXTENDS Integers, Sequences, FiniteSets, SequencesExt

-----------------------------------------------------------------------------
(***************************************************************************)
(* Lexer: a text is read into tokens.  White space and comments are kept   *)
(* as attachments in front of the token they precede, as the formatter     *)
(* wants them.  A text is a sequence of words and single characters: a     *)
(* word stands for a run of letters, "1" and "2" for digits, and the       *)
(* comment sign "#" hides what follows up to the end of the line.          *)
(* Character and string literals are the words "'c'" and "\"s\"".          *)
(***************************************************************************)

CONSTANT OptionalSemicolons   \* Config::optional_semicolons: the end of a line ends a statement
ASSUME SemicolonAssumption == OptionalSemicolons \in BOOLEAN

Keywords == {"var", "const", "func", "i32", "bool", "except", "ref", "mut", "share", "as", "is", "if", "else",
             "switch", "try", "while", "for", "in", "break", "continue", "return", "struct", "self", "enum",
             "union", "case", "proto", "false", "true", "use", "pub", "native", "meta", "type"}
Symbols == {"+", "-", "*", "/", "%", "&", "|", "!", "^", "~", ">", "<", "=", "(", ")", "{", "}", "[", "]", ";",
            ":", ",", ".", "?", "@",
            "+=", "-=", "*=", "/=", "%=", "&=", "|=", "^=", ">=", "<=", "==", "!=", "->", "&&", "||", "<<", ">>",
            "<<=", ">>=", "..", "..."}
Blank == {" ", "\n"}
Digits == {"1", "2"}
Quoted == {"'c'", "\"s\""}
NumberWords == {"a", "b", "c", "f"}   \* words of letters that a number may hold
IsWord(c) == c \notin Symbols \cup Blank \cup Digits \cup Quoted \cup {"#"}

\* The atom of the text at a place, "" behind its end.
CharAt(text, i) == IF i <= Len(text) THEN text[i] ELSE ""

\* Where the run of atoms that starts at i and that Belongs holds for ends.
RunEnd(text, i, Belongs(_)) == Min({j \in i..Len(text) : ~Belongs(text[j])} \cup {Len(text) + 1}) - 1

\* read_number: a point belongs to the number unless another one follows it.
RECURSIVE NumberEnd(_, _)
NumberEnd(text, i) ==
    IF CharAt(text, i) \in Digits \cup NumberWords \/ (CharAt(text, i) = "." /\ CharAt(text, i + 1) # ".")
    THEN NumberEnd(text, i + 1) ELSE i - 1

\* read_punctuation: as many characters as make one symbol.
SymbolLength(text, i) ==
    CASE text[i] \o CharAt(text, i + 1) \o CharAt(text, i + 2) \in Symbols /\ CharAt(text, i + 2) # "" -> 3
      [] text[i] \o CharAt(text, i + 1) \in Symbols /\ CharAt(text, i + 1) # "" -> 2
      [] OTHER -> 1

\* Where the token, the white space or the comment that starts at i ends, and what it is.
ReadToken(text, i) ==
    CASE text[i] \in Blank -> [kind |-> "blank", end |-> RunEnd(text, i, LAMBDA c : c \in Blank)]
      [] text[i] = "#" -> [kind |-> "comment", end |-> RunEnd(text, i, LAMBDA c : c # "\n")]
      [] text[i] \in Digits -> [kind |-> "number", end |-> NumberEnd(text, i)]
      [] text[i] \in Quoted -> [kind |-> "literal", end |-> i]
      [] IsWord(text[i]) -> [kind |-> "word", end |-> RunEnd(text, i, LAMBDA c : IsWord(c) \/ c \in Digits)]
      [] OTHER -> [kind |-> "symbol", end |-> i + SymbolLength(text, i) - 1]

FinishLine(tokens) ==
    IF OptionalSemicolons /\ tokens # <<>> THEN [tokens EXCEPT ![Len(tokens)].endOfLine = TRUE] ELSE tokens

Attach(l, piece) == [l EXCEPT !.attached[Len(l.attached)] = Append(@, piece)]
FinishToken(l, kind, value) ==
    [l EXCEPT !.tokens = Append(@, [kind |-> kind, value |-> value, endOfLine |-> FALSE]),
              !.attached = Append(@, <<>>)]

RECURSIVE Lex(_, _, _)
Lex(text, i, l) ==
    IF i > Len(text) THEN l
    ELSE LET r == ReadToken(text, i)
             piece == SubSeq(text, i, r.end)
             glued == FoldLeft(LAMBDA s, c : s \o c, "", piece)
         IN Lex(text, r.end + 1,
                CASE r.kind = "blank" ->
                         Attach(IF Contains(piece, "\n") THEN [l EXCEPT !.tokens = FinishLine(@)] ELSE l, piece)
                  [] r.kind = "comment" -> Attach(l, piece)
                  [] r.kind = "word" -> FinishToken(l, IF glued \in Keywords THEN glued ELSE "name", piece)
                  [] r.kind = "symbol" -> FinishToken(l, glued, piece)
                  [] OTHER -> FinishToken(l, r.kind, piece))

\* Behind the last token comes a zone of tokens that say that the file ends.
EofZoneSize == 2
Eof == [kind |-> "eof", value |-> <<>>, endOfLine |-> FALSE]
Tokenize(text) ==
    LET l == Lex(text, 1, [tokens |-> <<>>, attached |-> <<<<>>>>])
    IN [l EXCEPT !.tokens = FinishLine(@) \o [i \in 1..EofZoneSize |-> Eof]]

-----------------------------------------------------------------------------

StartParser(tokens) == [tokens |-> tokens, pos |-> 1, recovered |-> 0, skip |-> FALSE, reports |-> {}]

\* TokenStream.  Reading behind the zone of end tokens is undefined; here it reads an end.
Peek(p, n) == IF p.pos + n <= Len(p.tokens) THEN p.tokens[p.pos + n].kind ELSE "eof"
Is(p, kind) == Peek(p, 0) = kind
AtLineEnd(p) == p.tokens[CASE p.pos = 1 -> Len(p.tokens) [] p.pos - 1 <= Len(p.tokens) -> p.pos - 1
                           [] OTHER -> Len(p.tokens)].endOfLine
Skip(p) == [p EXCEPT !.pos = @ + 1]
Report(p) == [p EXCEPT !.reports = @ \cup {p.pos}]

Leaf(type) == [type |-> type, own |-> <<>>, kids |-> <<>>]
New(p) == [p |-> p, own |-> <<>>, kids |-> <<>>, ok |-> TRUE]
Consume(b) == [b EXCEPT !.p = Skip(@), !.own = Append(@, b.p.pos)]
Into(b, type) == [b EXCEPT !.p = Skip(@), !.kids = Append(@, [Leaf(type) EXCEPT !.own = <<b.p.pos>>])]
AddLeaf(b, type) == [b EXCEPT !.kids = Append(@, Leaf(type))]
Complain(b) == [b EXCEPT !.p = Report(@)]
FailOver(b) ==   \* mutant: what is not expected is taken
    [Consume(Complain(b)) EXCEPT !.ok = FALSE]
Fail(b) == [Complain(b) EXCEPT !.ok = FALSE]
Add(b, r) == [b EXCEPT !.p = r.p, !.kids = Append(@, r.node)]
Built(b, type) == [p |-> b.p, node |-> [type |-> type, own |-> b.own, kids |-> b.kids], ok |-> b.ok]

\* The flags of an ExprParser: may a struct literal follow, is a type expected.
Plain == [literals |-> FALSE, type |-> FALSE]
Value == [literals |-> TRUE, type |-> FALSE]
TypeOnly == [literals |-> FALSE, type |-> TRUE]

(***************************************************************************)
(* A production is a sequence of steps.  A step that fails ends it.        *)
(***************************************************************************)
Eat == <<"eat">>                     \* any token
Take(type) == <<"take", type>>       \* any token, as a leaf
Name == <<"name">>                   \* an identifier, reported otherwise
Need(kind) == <<"need", kind>>       \* this token, reported otherwise
Sub(what) == <<"sub", what>>         \* a production; its failure is one
Keep(what) == <<"keep", what>>       \* a production whose validity is ignored
Blank0(type) == <<"leaf", type>>     \* a node without tokens

Expr(e) == <<"expr", e>>
Type == <<"expr", TypeOnly>>
Nested(e) == <<"nested expr", e>>    \* parse(): even where a type is expected, of every level
Block == <<"block">>
ReturnType == <<"return type">>
List(type, end, element) == <<"list", [type |-> type, end |-> end, element |-> element, close |-> TRUE]>>
Params(end) == List("params", end, <<"param">>)
Generics == List("generic params", "]", <<"generic param">>)
Entries(e) == List("entries", "}", <<"entry", e>>)
UseTree == <<"use tree">>
Child == <<"block child">>

RECURSIVE Parse(_, _)

Step(b, s) ==
    CASE ~b.ok -> b
      [] s[1] = "eat" -> Consume(b)
      [] s[1] = "take" -> Into(b, s[2])
      [] s[1] = "name" -> IF Is(b.p, "name") THEN Into(b, "name") ELSE Fail(b)
      [] s[1] = "need" -> IF Is(b.p, s[2]) THEN Consume(b) ELSE Fail(b)
      [] s[1] = "leaf" -> AddLeaf(b, s[2])
      [] s[1] = "sub" -> LET r == Parse(s[2], b.p) IN [Add(b, r) EXCEPT !.ok = r.ok]
      [] s[1] = "keep" -> Add(b, Parse(s[2], b.p))
Do(b, steps) == FoldLeft(Step, b, steps)

\* check_stmt_terminator
Terminated(b, type) ==
    IF ~b.ok \/ (AtLineEnd(b.p) /\ ~Is(b.p, ";")) THEN Built(b, type) ELSE Built(Step(b, Need(";")), type)

(***************************************************************************)
(* Recovery.                                                               *)
(***************************************************************************)
Resume == {"eof", "if", "while", "for", "break", "continue", "return", "var", "const", "func", "struct", "enum",
           "union", "pub", "native"}

\* From a brace to its partner, or to the end.
RECURSIVE Unbrace(_, _)
Unbrace(p, depth) ==
    LET q == Skip(p)
        d == CASE Is(q, "{") -> depth + 1 [] Is(q, "}") -> depth - 1 [] Is(q, "eof") -> 0 [] OTHER -> depth
    IN IF d = 0 THEN q ELSE Unbrace(q, d)
RECURSIVE SkipToResume(_)
SkipToResume(p) ==
    CASE Peek(p, 0) \in Resume -> p
      [] Is(p, "{") -> SkipToResume(Skip(Unbrace(p, 1)))
      [] OTHER -> SkipToResume(Skip(p))
Recover(p) ==
    IF Is(p, "eof") THEN p
    ELSE LET q == SkipToResume(IF p.pos = p.recovered THEN Skip(p) ELSE p) IN [q EXCEPT !.recovered = q.pos]

\* parse_and_append_block_child
Recovered(r) ==
    CASE r.p.skip -> [r.p EXCEPT !.skip = FALSE]
      [] ~r.ok -> Recover(r.p)
      [] OTHER -> r.p
AppendBlockChild(b) == LET r == Parse(Child, b.p) IN [b EXCEPT !.p = Recovered(r), !.kids = Append(@, r.node)]

RECURSIVE BlockFrom(_)
BlockFrom(b) == CASE Is(b.p, "}") -> Built(Consume(b), "block")
                  [] Is(b.p, "eof") -> Built(Fail(b), "block")
                  [] OTHER -> BlockFrom(AppendBlockChild(b))
ParseBlock(p) == LET b == Step(New(p), Need("{")) IN IF b.ok THEN BlockFrom(b) ELSE Built(b, "error")

(***************************************************************************)
(* Lists, parameters, attributes.                                          *)
(***************************************************************************)
RECURSIVE ListFrom(_, _, _)
ListFrom(b, l, valid) ==
    LET Close(c) == Built(IF l.close THEN Consume(c) ELSE c, l.type)
        r == Parse(l.element, b.p)
        c == Add(b, r)
        d == IF r.ok THEN c ELSE Consume(c)
    IN CASE Is(b.p, l.end) -> [Close(b) EXCEPT !.ok = valid]
         [] ~Is(b.p, l.end) /\ ~r.ok /\ ~Is(c.p, ",") -> Built([c EXCEPT !.ok = FALSE], l.type)
         [] OTHER ->
            CASE Is(d.p, l.end) -> Close(d)
              [] Is(d.p, ",") -> ListFrom(Consume(d), l, valid /\ r.ok)
              [] OTHER -> Built([d EXCEPT !.p = [Recover(Report(@)) EXCEPT !.skip = TRUE], !.ok = FALSE], l.type)
ParseList(p, l) == ListFrom(Consume(New(p)), l, TRUE)

ParseAttribute(p) ==
    IF Peek(p, 1) = "=" THEN Built(Do(New(p), <<Take("name"), Eat, Take("name")>>), "attribute value")
    ELSE [p |-> Skip(p), node |-> [Leaf("attribute tag") EXCEPT !.own = <<p.pos>>], ok |-> TRUE]
ParseAttributes(p) ==
    IF Is(p, "[") THEN ParseList(p, List("attributes", "]", <<"attribute">>)[2])
    ELSE Built(Add(New(p), ParseAttribute(p)), "attributes")
\* What follows is valid whatever happens in it.
AttributeWrapper(p, child) ==
    Built(Do(New(p), <<Eat, Keep(<<"attributes">>), Keep(child)>>), "attribute wrapper")

ParseParam(p) ==
    LET mut == Is(p, "mut")
        b == IF mut THEN Consume(New(p)) ELSE New(p)
        c == IF mut THEN Complain(b) ELSE b
        refMut == Is(c.p, "ref") /\ Peek(c.p, 1) = "mut"
        named == CASE Is(c.p, "ref") -> Do(c, (IF refMut THEN <<Eat, Eat>> ELSE <<Eat>>) \o <<Take("name"), Eat>>)
                   [] Peek(c.p, 1) = ":" /\ ~Is(c.p, "ref") -> Do(c, <<Take("name"), Eat>>)
                   [] OTHER -> AddLeaf(c, "empty")
        d == Step(named, Sub(Type))
        type == CASE Is(c.p, "ref") /\ ~mut /\ ~refMut -> "ref param"
                  [] Is(c.p, "ref") /\ (mut \/ refMut) -> "ref mut param"
                  [] OTHER -> "param"
    IN CASE Is(p, "@") -> AttributeWrapper(p, <<"param">>)
         [] Is(b.p, "self") -> Built(Into(b, "self"), IF mut THEN "ref mut param" ELSE "ref param")
         [] OTHER -> Built(IF ~d.ok /\ Is(d.p, ")") THEN Consume(d) ELSE d, type)

ParseReturnType(p) ==
    IF ~Is(p, "ref") THEN Parse(Type, p)
    ELSE IF Peek(p, 1) = "mut" THEN Built(Do(New(p), <<Eat, Eat, Keep(Type)>>), "ref mut return")
         ELSE Built(Do(New(p), <<Eat, Keep(Type)>>), "ref return")
\* The return type of a function, empty if there is no arrow.
OptionalReturn(b) == Do(b, IF Is(b.p, "->") THEN <<Eat, Keep(ReturnType)>> ELSE <<Blank0("empty")>>)

RECURSIVE Constraints(_)
Constraints(b) == LET c == Step(b, Keep(Type)) IN IF Is(c.p, "+") THEN Constraints(Consume(c)) ELSE c
ParseGenericParam(p) ==
    LET b == Into(New(p), "name")
        c == Consume(b)
    IN Built(CASE ~Is(b.p, ":") -> b
               [] Is(b.p, ":") /\ Is(c.p, "...") -> Into(c, "param sequence")
               [] OTHER -> Add(c, Built(Constraints(New(c.p)), "constraint")), "generic param")
\* What may stand in the brackets behind a name.
OptionalGenerics(b) == IF b.ok /\ Is(b.p, "[") THEN Step(b, Sub(Generics)) ELSE b

(***************************************************************************)
(* Expressions.                                                            *)
(***************************************************************************)
Levels == <<{".."}, {"||"}, {"&&"}, {"==", "!=", ">", "<", ">=", "<="}, {"|"}, {"^"}, {"&"}, {"<<", ">>"},
            {"+", "-"}, {"*", "/", "%"}, {"as", "is"}>>
UnaryOperators == {"-", "~", "&", "*", "!", "?", ".", "ref", "share", "try"}
Atoms == {"number", "literal", "name", "false", "true", "i32", "bool"}

RECURSIVE Level(_, _, _), Operands(_, _, _), Unary(_, _), Post(_, _), ArrayFrom(_, _, _)

\* parse_result_level
ResultLevel(e, p) ==
    LET r == Unary(e, p)
    IN IF r.ok /\ Is(r.p, "except") THEN Built(Do(Add(New(p), r), <<Eat, Sub(Type)>>), "result type") ELSE r
Level(n, e, p) == IF n > Len(Levels) THEN ResultLevel(e, p) ELSE Operands(n, e, Level(n + 1, e, p))
OperandsOfRight(n, e, r) ==   \* mutant: operators group from the right
    IF ~r.ok \/ Peek(r.p, 0) \notin Levels[n] THEN r
    ELSE LET b == Consume(Add(New(r.p), r))
             right == Level(n, e, b.p)
         IN Built([Add(b, right) EXCEPT !.ok = right.ok], "binary")
Operands(n, e, r) ==
    IF ~r.ok \/ Peek(r.p, 0) \notin Levels[n] THEN r
    ELSE LET b == Consume(Add(New(r.p), r))
             right == Level(n + 1, e, b.p)
         IN Operands(n, e, Built([Add(b, right) EXCEPT !.ok = right.ok], "binary"))
Unary(e, p) ==
    LET b == Consume(New(p))
        mut == Is(p, "ref") /\ Is(b.p, "mut")
        c == IF mut THEN Consume(b) ELSE b
        r == Unary(e, c.p)
    IN IF Peek(p, 0) \notin UnaryOperators THEN Post(e, Parse(<<"operand", e>>, p))
       ELSE Built([Add(c, r) EXCEPT !.ok = r.ok], IF mut THEN "ref mut" ELSE "unary")
\* parse_post_operand
Post(e, r) ==
    LET b == Add(New(r.p), r)
        Again(what, type) == Post(e, Built(Step(b, Sub(what)), type))
    IN CASE ~r.ok -> r
         [] Is(r.p, ".") -> Post(e, Built(Do(b, <<Eat, Sub(<<"operand", e>>)>>), "dot"))
         [] Is(r.p, "(") -> Again(List("args", ")", Expr(Value)), "call")
         [] Is(r.p, "[") -> Again(List("args", "]", Expr(Plain)), "bracket")
         [] Is(r.p, "{") /\ e.literals -> Again(Entries(e), "struct literal")
         [] OTHER -> r

ArrayFrom(b, type, e) ==
    LET r == Parse(Expr(Value), b.p)
        entry == Built(Do(Add(New(r.p), r), <<Eat, Keep(Expr(Value))>>), "map entry")
        c == CASE Is(r.p, ":") -> Add(b, entry)
               [] Is(r.p, ";") -> Step(Add(Consume([b EXCEPT !.p = r.p]), [r EXCEPT !.p = Skip(@)]), Sub(Nested(e)))
               [] OTHER -> Add(b, r)
        t == CASE Is(r.p, ":") -> "map" [] Is(r.p, ";") -> "static array" [] OTHER -> type
    IN CASE Is(b.p, "]") -> Built(Consume(b), type)
         [] ~Is(b.p, "]") /\ ~r.ok -> r
         [] OTHER -> CASE ~c.ok -> Built(c, "error")
                       [] Is(c.p, "]") -> Built(Consume(c), t)
                       [] Is(c.p, ",") -> ArrayFrom(Consume(c), t, e)
                       [] OTHER -> Built(Fail(c), t)

RECURSIVE Tuple(_)
Tuple(b) == CASE ~Is(b.p, ",") -> b
              [] Peek(b.p, 1) = ")" -> Consume(b)
              [] OTHER -> Tuple(Do(b, <<Eat, Keep(Expr(Value))>>))
ParseParen(p) ==
    LET b == Do(New(p), <<Eat, Keep(Expr(Value))>>)
    IN Built(Consume(Tuple(b)), IF Is(b.p, ",") THEN "tuple" ELSE "paren")

ParseClosure(e, p) ==
    LET b == OptionalReturn(Step(New(p), IF Is(p, "||") THEN Take("params") ELSE Sub(Params("|"))))
        head == Step(New(p), IF Is(p, "||") THEN Take("params") ELSE Sub(Params("|")))
    IN CASE ~head.ok -> Built(head, "error")
         [] head.ok /\ (~Is(b.p, "{") \/ e.type) -> Built(b, "closure type")
         [] OTHER -> Built(Step(b, Sub(Block)), "closure")
ParseFuncType(p) ==
    LET b == Consume(New(p))
        c == IF Is(b.p, "(") THEN Step(b, Sub(Params(")"))) ELSE Fail(b)
    IN Built(IF c.ok THEN OptionalReturn(c) ELSE c, "func type")
ParseMetaAccess(e, p) ==
    LET r == Parse(Nested(e), Skip(Skip(p)))
    IN Built([p |-> Skip(r.p), own |-> <<p.pos, p.pos + 1, r.p.pos>>, kids |-> <<r.node>>, ok |-> r.ok], "meta access")

ParseOperand(e, p) ==
    CASE Peek(p, 0) \in Atoms -> [p |-> Skip(p), node |-> [Leaf(Peek(p, 0)) EXCEPT !.own = <<p.pos>>], ok |-> TRUE]
      [] Is(p, "[") -> ArrayFrom(Consume(New(p)), "array", e)
      [] Is(p, "(") -> ParseParen(p)
      [] Is(p, "{") -> IF e.literals THEN Built(Step(New(p), Sub(Entries(e))), "typeless literal")
                       ELSE Built(Fail(New(p)), "error")
      [] Peek(p, 0) \in {"|", "||"} -> ParseClosure(e, p)
      [] Is(p, "func") -> ParseFuncType(p)
      [] Is(p, "self") -> IF Peek(p, 1) = "." /\ Peek(p, 2) = "type"
                          THEN Built(Do(New(p), <<Eat, Eat, Eat>>), "self type") ELSE Built(Consume(New(p)), "self")
      [] Is(p, "meta") -> ParseMetaAccess(e, p)
      [] OTHER -> Built(Fail(New(p)), "error")
ParseEntry(e, p) ==
    LET b == Step(New(p), Name)
    IN Built(IF b.ok /\ Is(b.p, ":") THEN Do(b, <<Eat, Keep(Expr(e))>>) ELSE b, "entry")

(***************************************************************************)
(* Statements.                                                             *)
(***************************************************************************)
Assignments == {"=", "+=", "-=", "*=", "/=", "%=", "&=", "|=", "^=", "<<=", ">>="}

ParseExprStmt(p) == Terminated(Step(New(p), Sub(Expr(Plain))), "expr stmt")
ParseExprOrAssign(p) ==
    LET r == Parse(Expr(Plain), p)
        b == Add(Consume(New(r.p)), [r EXCEPT !.p = Skip(@)])
    IN IF r.ok /\ Peek(r.p, 0) \in Assignments THEN Terminated(Step(b, Sub(Expr(Value))), "assign")
       ELSE Terminated([Add(New(p), r) EXCEPT !.ok = r.ok], "expr stmt")

\* parse_var and parse_ref
ParseVar(p) ==
    LET refMut == Is(p, "ref") /\ Peek(p, 1) = "mut"
        type == CASE Is(p, "var") -> "var" [] refMut -> "ref mut var" [] OTHER -> "ref var"
        b == Do(New(p), (IF refMut THEN <<Eat, Eat>> ELSE <<Eat>>) \o <<Name>>)
        typed == Do(b, <<Eat, Sub(Type)>>)
    IN CASE ~b.ok -> Built(b, "error")
         [] b.ok /\ Is(b.p, ":") -> Terminated(IF typed.ok /\ Is(typed.p, "=") THEN Do(typed, <<Eat, Sub(Expr(Value))>>)
                                               ELSE typed, type)
         [] b.ok /\ Is(b.p, "=") -> Terminated(Do(b, <<Eat, Sub(Expr(Value))>>), "typeless " \o type)
         [] OTHER -> Built(Fail(b), "error")

\* The branches behind the first one.  A wrong token behind else is reported and, unless
\* the if is one of meta, the statement counts as valid.
RECURSIVE Elses(_, _)
Elses(b, meta) ==
    LET elseIf == Do(New(b.p), <<Eat, Eat, Sub(Expr(Plain)), Keep(Block)>>)
        else == Do(New(b.p), <<Eat, Keep(Block)>>)
    IN CASE ~Is(b.p, "else") -> b
         [] Is(b.p, "else") /\ Peek(b.p, 1) = "if" ->
                LET c == [Add(b, Built(elseIf, "else if branch")) EXCEPT !.ok = elseIf.ok]
                IN IF c.ok THEN Elses(c, meta) ELSE c
         [] Is(b.p, "else") /\ Peek(b.p, 1) = "{" -> Elses(Add(b, Built(else, "else branch")), meta)
         [] OTHER -> [Complain([b EXCEPT !.p = Skip(@)]) EXCEPT !.ok = ~meta]
ParseIf(p) ==
    LET first == Do(New(p), <<Eat, Sub(Expr(Plain)), Sub(Block)>>)
        b == [Add(New(p), Built(first, "if branch")) EXCEPT !.ok = first.ok]
    IN Built(IF b.ok THEN Elses(b, FALSE) ELSE b, "if")
ParseMetaStmt(p) ==
    LET m == Consume(New(p))
        first == Do(New(m.p), <<Eat, Sub(Expr(Plain)), Keep(Block)>>)
        b == [Add(m, Built(first, "if branch")) EXCEPT !.ok = first.ok]
    IN IF Is(m.p, "for") THEN Built(Do(m, <<Eat, Name, Need("in"), Sub(Expr(Plain)), Keep(Block)>>), "meta for")
       ELSE Built(IF b.ok THEN Elses(b, TRUE) ELSE b, "meta if")

RECURSIVE Cases(_)
Cases(b) ==
    LET c == Consume(New(b.p))
        default == Built(Step([c EXCEPT !.p = Skip(@)], Keep(Block)), "default branch")
        case == Do(c, <<Take("name"), Eat, Sub(Type), Keep(Block)>>)
    IN CASE ~Is(b.p, "case") -> b
         [] Is(b.p, "case") /\ Is(c.p, "name") /\ c.p.tokens[c.p.pos].value = <<"_">> -> Cases(Add(b, default))
         [] OTHER -> LET d == [Add(b, Built(case, "case branch")) EXCEPT !.ok = case.ok]
                     IN IF d.ok THEN Cases(d) ELSE d
ParseSwitch(p) ==
    LET b == Do(New(p), <<Eat, Sub(Expr(Plain))>>)
        cases == Cases(Consume(New(b.p)))
    IN CASE ~b.ok -> Built(b, "error")
         [] b.ok /\ ~cases.ok -> Built(cases, "error")
         [] OTHER -> Built(Add(b, Built(Consume(cases), "cases")), "switch")

ParseTry(p) ==
    LET first == Do(New(p), <<Eat, Name, Need("in"), Sub(Expr(Plain)), Keep(Block)>>)
        b == [Add(New(p), Built(first, "try branch")) EXCEPT !.ok = first.ok]
        except == Do(New(b.p), <<Eat, Name, Eat, Sub(Type), Keep(Block)>>)
        else == Do(New(b.p), <<Eat, Keep(Block)>>)
    IN Built(CASE ~b.ok -> b
               [] b.ok /\ Is(b.p, "except") -> [Add(b, Built(except, "except branch")) EXCEPT !.ok = except.ok]
               [] b.ok /\ Is(b.p, "else") -> Add(b, Built(else, "else branch"))
               [] OTHER -> b, "try stmt")

ParseFor(p) ==
    LET refs == CASE Peek(p, 1) = "ref" /\ Peek(p, 2) = "mut" -> <<Eat, Eat>> [] Peek(p, 1) = "ref" -> <<Eat>>
                  [] OTHER -> <<>>
    IN Built(Do(New(p), <<Eat>> \o refs \o <<Name, Need("in"), Sub(Expr(Plain)), Keep(Block)>>), "for")

ParseReturn(p) ==
    LET b == Consume(New(p))
    IN Terminated(IF Is(b.p, ";") \/ AtLineEnd(b.p) THEN b ELSE Step(b, Sub(Expr(Value))), "return")

(***************************************************************************)
(* Declarations.                                                           *)
(***************************************************************************)
\* parse_func_head: wrong parameters do not keep the return type from being read.
FuncHead(b) ==
    LET g == OptionalGenerics(b)
        c == Step([g EXCEPT !.ok = TRUE], Sub(Params(")")))
        d == [c EXCEPT !.ok = TRUE]
        e == CASE Is(d.p, "->") -> Do(d, <<Eat, Sub(ReturnType)>>)
               [] Peek(d.p, 0) \in {"{", ";"} \/ (~Is(d.p, "->") /\ AtLineEnd(d.p)) -> AddLeaf(d, "empty")
               [] OTHER -> Fail(d)
    IN CASE ~g.ok -> g
         [] g.ok /\ ~Is(g.p, "(") -> Fail(g)
         [] OTHER -> [e EXCEPT !.ok = e.ok /\ c.ok]

\* What follows the head, which has a body unless a declaration ends with it.
FuncFrom(h, generic) ==
    LET type == IF generic THEN "generic func" ELSE "func"
    IN CASE ~h.ok -> Built(h, type)
         [] h.ok /\ Is(h.p, ";") /\ ~generic -> Built(Consume(h), "func decl")
         [] h.ok /\ ~Is(h.p, "{") /\ ~Is(h.p, ";") /\ AtLineEnd(h.p) /\ ~generic -> Built(h, "func decl")
         [] h.ok /\ Is(h.p, "{") -> Built(Step(h, Sub(Block)), type)
         [] OTHER -> Built(Fail(h), type)
ParseFunc(p, qualifiers) ==
    LET b == Do([New(p) EXCEPT !.kids = <<qualifiers>>], <<Eat, Name>>)
    IN IF b.ok THEN FuncFrom(FuncHead(b), Is(b.p, "[")) ELSE Built(b, "error")

\* Wrong tokens are reported, and the definition counts as valid.
ParseConst(p) ==
    LET b == Do(New(p), <<Eat, Name, Need(":")>>)
        c == Do(b, <<Keep(Type), Need("=")>>)
    IN IF c.ok THEN Terminated(Step(c, Keep(Expr(Value))), "const") ELSE Built([c EXCEPT !.ok = TRUE], "const")

ParseStruct(p) ==
    LET g == OptionalGenerics(Do(New(p), <<Eat, Name>>))
        impls == [List("impls", "{", Type)[2] EXCEPT !.close = FALSE]
        i == IF Is(g.p, ":") THEN Step(g, Sub(<<"list", impls>>)) ELSE Step(g, Blank0("impls"))
    IN Built(Step(i, Sub(Block)), IF \E k \in DOMAIN g.kids : g.kids[k].type = "generic params"
                                  THEN "generic struct" ELSE "struct")
ParseVariant(p) ==
    LET b == Into(New(p), "name")
    IN Built(IF Is(b.p, "=") THEN Do(b, <<Eat, Keep(Expr(Plain))>>) ELSE b, "variant")
ParseEnum(p) == Built(Do(New(p), <<Eat, Name, Keep(List("variants", "}", <<"variant">>))>>), "enum")
ParseUnion(p) == Built(Do(New(p), <<Eat, Name, Sub(Block)>>), "union")
\* Wrong fields are reported, and the case counts as valid.
ParseUnionCase(p) ==
    LET b == Do(New(p), <<Eat, Name>>)
        c == Step(b, Sub(Params(")")))
    IN CASE ~b.ok -> Built(b, "error")
         [] b.ok /\ ~Is(b.p, "(") -> Built(Fail(b), "error")
         [] b.ok /\ Is(b.p, "(") /\ ~c.ok -> Built([c EXCEPT !.ok = TRUE], "union case")
         [] OTHER -> Terminated(c, "union case")
ParseProto(p) ==
    LET g == OptionalGenerics(Do(New(p), <<Eat, Name>>))
    IN Built(Step(g, Sub(Block)), IF Len(g.kids) = 2 THEN "generic proto" ELSE "proto")
ParseTypeAlias(p) ==
    LET g == OptionalGenerics(Do(New(p), <<Eat, Name>>))
    IN Terminated(Do(g, <<Need("="), Sub(Type)>>), IF Len(g.kids) > 1 /\ g.kids[2].type = "generic params"
                                                   THEN "generic alias" ELSE "alias")

\* parse_use_tree_element
UseElement(p) ==
    LET b == Into(New(p), "name")
    IN CASE Is(p, "name") /\ Is(b.p, "as") -> Built(Do(b, <<Eat, Take("name")>>), "rebind")
         [] Is(p, "name") /\ ~Is(b.p, "as") -> [p |-> b.p, node |-> b.kids[1], ok |-> TRUE]
         [] Is(p, "{") -> ParseList(p, List("use list", "}", UseTree)[2])
         [] OTHER -> Built(Fail(New(p)), "error")
RECURSIVE UseFrom(_)
UseFrom(r) ==
    IF ~r.ok \/ ~Is(r.p, ".") THEN r
    ELSE LET b == Consume(Add(New(r.p), r))
             right == UseElement(b.p)
         IN UseFrom(Built([Add(b, right) EXCEPT !.ok = right.ok], "dot"))
ParseUse(p) == Terminated(Do(New(p), <<Eat, Sub(UseTree)>>), "use")

ParseNative(p) ==
    LET named == Do(New(p), <<Eat, Blank0("qualifiers"), Eat, Name>>)
        h == FuncHead(named)
    IN CASE Peek(p, 1) = "var" -> Terminated(Do(New(p), <<Eat, Eat, Take("name"), Eat, Keep(Type)>>), "native var")
         [] Peek(p, 1) = "func" -> IF named.ok THEN Terminated(h, "native func") ELSE Built(named, "error")
         [] OTHER -> [p |-> Skip(Report(Skip(p))), node |-> Leaf("error"), ok |-> FALSE]

RECURSIVE Qualifiers(_)
Qualifiers(b) == IF Is(b.p, "pub") THEN Qualifiers(Into(b, "qualifier")) ELSE b
Declarations == {"const", "struct", "enum", "union", "case", "proto", "type", "native", "use", "var"}
\* Only a function keeps its qualifiers.
ParsePub(p) ==
    LET q == Qualifiers(New(p))
    IN CASE Is(q.p, "func") -> ParseFunc(q.p, Built(q, "qualifiers").node)
         [] Peek(q.p, 0) \in Declarations -> Parse(Child, q.p)
         [] OTHER -> Built(Fail(New(q.p)), "error")

BlockChild(p) ==
    LET k == Peek(p, 0)
    IN CASE k \in {"var", "ref"} -> ParseVar(p)
         [] k = "const" -> ParseConst(p)
         [] k = "func" -> ParseFunc(p, Leaf("qualifiers"))
         [] k = "if" -> ParseIf(p)
         [] k = "switch" -> ParseSwitch(p)
         [] k = "try" -> IF Peek(p, 2) = "in" THEN ParseTry(p) ELSE ParseExprStmt(p)
         [] k = "while" -> Built(Do(New(p), <<Eat, Sub(Expr(Plain)), Keep(Block)>>), "while")
         [] k = "for" -> ParseFor(p)
         [] k \in {"break", "continue"} -> Terminated(Consume(New(p)), k)
         [] k = "return" -> ParseReturn(p)
         [] k = "pub" -> ParsePub(p)
         [] k = "struct" -> ParseStruct(p)
         [] k = "enum" -> ParseEnum(p)
         [] k = "union" -> ParseUnion(p)
         [] k = "proto" -> ParseProto(p)
         [] k = "type" -> ParseTypeAlias(p)
         [] k = "case" -> ParseUnionCase(p)
         [] k = "native" -> ParseNative(p)
         [] k = "use" -> ParseUse(p)
         [] k = "meta" -> IF Peek(p, 1) \in {"if", "for"} THEN ParseMetaStmt(p) ELSE ParseExprOrAssign(p)
         [] k = "{" -> ParseBlock(p)
         [] k = "@" -> AttributeWrapper(p, Child)
         [] OTHER -> ParseExprOrAssign(p)

Parse(what, p) ==
    CASE what[1] = "expr" -> IF what[2].type THEN ResultLevel(what[2], p) ELSE Level(1, what[2], p)
      [] what[1] = "nested expr" -> Level(1, what[2], p)
      [] what[1] = "operand" -> ParseOperand(what[2], p)
      [] what[1] = "block" -> ParseBlock(p)
      [] what[1] = "block child" -> BlockChild(p)
      [] what[1] = "return type" -> ParseReturnType(p)
      [] what[1] = "list" -> ParseList(p, what[2])
      [] what[1] = "attributes" -> ParseAttributes(p)
      [] what[1] = "param" -> ParseParam(p)
      [] what[1] = "generic param" -> ParseGenericParam(p)
      [] what[1] = "variant" -> ParseVariant(p)
      [] what[1] = "entry" -> ParseEntry(what[2], p)
      [] what[1] = "attribute" -> ParseAttribute(p)
      [] what[1] = "use tree" -> UseFrom(UseElement(p))
=============================================================================
