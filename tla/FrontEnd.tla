------------------------------ MODULE FrontEnd ------------------------------
(***************************************************************************)
(* banjo-format: a file is read into tokens, parsed one declaration or     *)
(* statement at a time and, if nothing was reported, written back          *)
(* formatted.  The formatted text then goes the same way once more.  The    *)
(* compiler and the language server make the semantic IR of the same tree. *)
(***************************************************************************)
EXTENDS Formatter, Sir

CONSTANTS Texts,      \* the texts a file may have
          Accepted    \* those of them that are programs
ASSUME TextsAssumption == Accepted \subseteq Texts

VARIABLES text,       \* the text of the file
          round,      \* 1 for the file as it was written, 2 for the formatted one
          stage,      \* what comes next: "lex", "parse", "format" or nothing ("done")
          lexed,      \* the tokens and what is attached to them
          parser,     \* the state of the parser
          children,   \* the children of the module's block
          turns,      \* how often parse_and_append_block_child was called for it
          written     \* the file as it was written: its text, tokens and children
vars == <<text, round, stage, lexed, parser, children, turns, written>>

Init == /\ text \in Texts
        /\ round = 1
        /\ stage = "lex"
        /\ lexed = [tokens |-> <<>>, attached |-> <<>>]
        /\ parser = StartParser(<<>>)
        /\ children = <<>>
        /\ turns = 0
        /\ written = [text |-> text, lexed |-> lexed, children |-> <<>>]

ReadTokens == /\ stage = "lex"
              /\ lexed' = Tokenize(text)
              /\ parser' = StartParser(lexed'.tokens)
              /\ children' = <<>>
              /\ turns' = 0
              /\ stage' = "parse"
              /\ UNCHANGED <<text, round, written>>

\* One turn of the loop of parse_top_level_block.
ParseChildOnly ==   \* mutant: a child that failed is not recovered from
    /\ stage = "parse"
    /\ ~Is(parser, "eof")
    /\ \E r \in {Parse(Child, parser)} :
          /\ parser' = r.p
          /\ children' = Append(children, r.node)
          /\ turns' = turns + 1
    /\ UNCHANGED <<text, round, stage, lexed, written>>
ParseChild == /\ stage = "parse"
              /\ ~Is(parser, "eof")
              /\ \E r \in {Parse(Child, parser)} :
                    /\ parser' = Recovered(r)
                    /\ children' = Append(children, r.node)
                    /\ turns' = turns + 1
              /\ UNCHANGED <<text, round, stage, lexed, written>>

FinishModule == /\ stage = "parse"
                /\ Is(parser, "eof")
                /\ stage' = IF parser.reports = {} THEN "format" ELSE "done"
                /\ UNCHANGED <<text, round, lexed, parser, children, turns, written>>

FormatText == /\ stage = "format"
              /\ text' = FormatModule(lexed, children)
              /\ round' = 2
              /\ stage' = IF round = 1 THEN "lex" ELSE "done"
              /\ written' = IF round = 1 THEN [text |-> text, lexed |-> lexed, children |-> children] ELSE written
              /\ UNCHANGED <<lexed, parser, children, turns>>

\* The tool is one thread that stops when the file is written or something was reported.
Next == ReadTokens \/ ParseChild \/ FinishModule \/ FormatText
Spec == Init /\ [][Next]_vars

(***************************************************************************)
(* The tree of a file.                                                     *)
(***************************************************************************)
RECURSIVE NodesOf(_), OwnTokens(_), Shape(_, _)
NodesOf(n) == {n} \cup UNION {NodesOf(n.kids[i]) : i \in DOMAIN n.kids}
OwnTokens(n) == n.own \o FlattenSeq([i \in DOMAIN n.kids |-> OwnTokens(n.kids[i])])
Shape(l, n) ==
    LET kids == [i \in DOMAIN n.kids |-> Shape(l, n.kids[i])]
    IN [type |-> n.type, own |-> [i \in DOMAIN n.own |-> l.tokens[n.own[i]].value],
        kids |-> IF n.type = "use list" THEN <<"any order", Range(kids)>> ELSE <<"in order", kids>>]
Shapes(l, nodes) == [i \in DOMAIN nodes |-> Shape(l, nodes[i])]
Comments(l) == LET all == SelectSeq(FlattenSeq(l.attached), IsComment) IN [i \in DOMAIN all |-> CommentText(all[i])]
SameElements(s, t) ==
    \A x \in Range(s) \cup Range(t) : Cardinality({i \in DOMAIN s : s[i] = x}) = Cardinality({i \in DOMAIN t : t[i] = x})

Kind(i) == lexed.tokens[i].kind
\* A qualifier of what is no function and the name of a default branch have no node.
Dropped == {i \in DOMAIN lexed.tokens : Kind(i) \in {"pub", "eof"} \/ lexed.tokens[i].value = <<"_">>}
Partner == ("(" :> ")") @@ ("[" :> "]") @@ ("{" :> "}")
Rank(n) == IF n.type = "binary" THEN CHOOSE k \in DOMAIN Levels : Kind(n.own[1]) \in Levels[k] ELSE Len(Levels) + 1

\* Every token belongs to one node, a node's tokens are one stretch of the file, and a
\* bracket is closed by its partner.
TokensOwned ==
    LET all == FlattenSeq([i \in DOMAIN children |-> OwnTokens(children[i])])
    IN /\ IsInjective(all)
       /\ DOMAIN lexed.tokens \ Dropped \subseteq Range(all)
       /\ \A c \in Range(children) : \A n \in NodesOf(c) :
              LET tokens == TokensOf(n)
              IN /\ tokens # {} => (Min(tokens)..Max(tokens)) \ Dropped \subseteq tokens
                 /\ \A i \in DOMAIN n.own : Kind(n.own[i]) \in DOMAIN Partner =>
                        \E j \in DOMAIN n.own : j > i /\ Kind(n.own[j]) = Partner[Kind(n.own[i])]
\* An operator binds its operands as its level says, and from the left.
Grouped ==
    \A c \in Range(children) : \A n \in NodesOf(c) :
        n.type = "binary" => Rank(n.kids[1]) >= Rank(n) /\ Rank(n.kids[2]) > Rank(n)

(***************************************************************************)
(* The semantic IR of a file.  placed is the set of the nodes of the tree  *)
(* with their places, but those of attributes, and sir the IR made of it.  *)
(***************************************************************************)
RECURSIVE Placed(_, _)
Placed(n, at) ==
    {[at |-> at, type |-> n.type]}
    \cup UNION {Placed(n.kids[i], Append(at, i)) : i \in {i \in DOMAIN n.kids : n.kids[i].type # "attributes"}}
Within(at, outer) == IsPrefix(outer, at)
IsSubject(n) == n.type \in {"name", "number", "literal", "true", "false", "i32", "bool", "block"}
IsError(m) == m.kind = "Error" \/ m.plain = <<"[error]">>

\* What is written is in the IR, or within what is an error there.
NothingLost(placed, sir) ==
    \A n \in {n \in placed : IsSubject(n)} :
        \E m \in sir : m.at[3] = n.at \/ (IsError(m) /\ Within(n.at, m.at[3]))
\* The scope of a node is within that of the innermost block around it.
ScopesNested(placed, sir) ==
    \A m \in {m \in sir : m.table # NoTable} :
        LET at == m.table.at[3]
            around == {n.at : n \in {n \in placed : n.type = "block" /\ Within(at, n.at) /\ n.at # at}}
        IN m.table.parent = IF around = {} THEN <<>>
                            ELSE Address(CHOOSE b \in around : \A a \in around : Within(b, a), "SymbolTable")
\* A function has the generic parameters of itself and of the definitions it is in.
GenericsInherited(placed, sir) ==
    \A f \in {m \in sir : m.kind \in {"FuncDef", "FuncDecl"}} :
        LET lists == {n.at : n \in {n \in placed : n.type = "generic params" /\ Within(f.at[3], Front(n.at))}}
        IN {g.at[3] : g \in Range(f.parts.generic_params)}
               = {n.at : n \in {n \in placed : n.at # <<>> /\ Front(n.at) \in lists}}

\* A clone has all its original has, but in nodes and tables of its own: only names,
\* attributes and generic parameters are shared.  Its tables are within each other as
\* those of the original are, the outermost ones are within the table outer, or where those
\* of the original are if that is <<>>.
RECURSIVE Corresponds(_, _, _, _)
Corresponds(o, c, tables, outer) ==
    IF c.at = o.at THEN o.kind \in {"Ident", "RawAttribute", "GenericParam"} /\ c = o
    ELSE /\ c.kind = o.kind /\ c.plain = o.plain
         /\ c.table.parent = CASE o.table.parent \in tables -> Copied(o.table.parent)
                               [] o.table # NoTable /\ o.table.parent \notin tables /\ outer # <<>> -> outer
                               [] OTHER -> o.table.parent
         /\ c.table = NoTable \/ c.table.at \notin tables
         /\ c.table.symbols = o.table.symbols
         /\ DOMAIN c.parts = DOMAIN o.parts
         /\ \A f \in DOMAIN o.parts :
                /\ Len(c.parts[f]) = Len(o.parts[f])
                /\ \A i \in DOMAIN o.parts[f] : Corresponds(o.parts[f][i], c.parts[f][i], tables, outer)
Cloned(original, clone, outer) ==
    Corresponds(original, clone, {m.table.at : m \in SirNodes(original)} \ {<<>>}, outer)

\* The structs and the protos they name, and what a struct gets of a proto: every method
\* it lacks that the proto has a default for, once, found under its name.  From a copy on
\* names are looked up in what is around the original: the cloner's own table has none.
Named(impl) == IF impl.kind = "BracketExpr" THEN impl.parts.lhs[1].plain ELSE impl.plain
Implementations(sir) ==
    {<<s, p>> \in {m \in sir : m.kind = "StructDef"} \X {m \in sir : m.kind = "ProtoDef"} :
        \E impl \in Range(s.parts.impls) : Named(impl) = NameOf(p)}
DefaultsInserted(s, p) ==
    LET own == s.parts.block[1].parts.decls
        block == AnalyzeProtoImpl(s, p).parts.block[1]
        inserted == SubSeq(block.parts.decls, Len(own) + 1, Len(block.parts.decls))
        defaults == {Collected(f) : f \in {f \in Range(Methods(p)) : f.kind = "FuncDef" /\ NameOf(f) \notin Members(s)}}
    IN /\ IsPrefix(own, block.parts.decls)
       /\ \A f \in defaults : Cardinality({i \in DOMAIN inserted : NameOf(inserted[i]) = NameOf(f)}) = 1
       /\ \A clone \in Range(inserted) : \E f \in defaults :
              /\ NameOf(clone) = NameOf(f) /\ <<NameOf(f), clone.at>> \in block.table.symbols
              /\ Cloned(OfProto(f, p), clone, ClonerTable(f).at)
              /\ ClonerTable(f).parent = f.parts.block[1].table.parent /\ ClonerTable(f).symbols = {}
IteratedRanges(sir) == {s.parts.range[1] : s \in {m \in sir : m.kind = "ForStmt" /\ m.parts.range[1].kind # "RangeExpr"}}

(***************************************************************************)
(* Properties.                                                             *)
(***************************************************************************)
TypeOK == /\ text \in Seq(STRING)
          /\ round \in {1, 2}
          /\ stage \in {"lex", "parse", "format", "done"}

\* A program is read without a report (Parser::parse_module), and a file that is read
\* without one has its tokens in the tree, each in one place, with every bracket closed
\* and every operator over its own operands.
TreeFaithful ==
    /\ stage = "done" /\ text \in Accepted => parser.reports = {}
    /\ stage = "format" => TokensOwned /\ Grouped

\* The parser stays within the tokens and the zone behind them: TokenStream looks up a
\* position without asking whether there is one.
StaysInZone == stage # "lex" => parser.pos <= Len(lexed.tokens)

\* The formatted file has the tree and the comments of the file as it was written, and
\* formatting it again changes nothing (Formatter::format).
FormattingKeeps ==
    round = 2 =>
        /\ stage \in {"format", "done"} =>
              /\ parser.reports = {}
              /\ Shapes(lexed, children) = Shapes(written.lexed, written.children)
              /\ SameElements(Comments(lexed), Comments(written.lexed))
        /\ stage = "done" => text = FormatModule(written.lexed, written.children)

\* Whatever the file holds, it is read to its end: every turn of the loop of
\* parse_top_level_block takes at least one token (recover and skip_stmt_decl_recovery).
EveryTurnAdvances == turns < parser.pos

\* The semantic IR has all that the tree of the file has, in the scopes it is written in
\* and with the generic parameters that are visible there (SIRGenerator::generate), and
\* a struct gets a whole copy, apart from the original and in its scope, of each default method
\* it lacks (analyze_proto_impl), as a loop does of a range that is read once more (Cloner).
SirFaithful ==
    stage = "format" /\ round = 1 =>
        \E sir \in {SirNodes(GenerateModule(lexed.tokens, children))},
           placed \in {Placed([type |-> "block", own |-> <<>>, kids |-> children], <<>>)} :
              /\ NothingLost(placed, sir)
              /\ ScopesNested(placed, sir)
              /\ GenericsInherited(placed, sir)
              /\ \A i \in Implementations(sir) : DefaultsInserted(CollectedStruct(i[1]), i[2])
              /\ \A r \in IteratedRanges(sir) : Cloned(r, Clone(r, <<>>), <<>>)

-----------------------------------------------------------------------------
(***************************************************************************)
(* Small files for FrontEnd: one program for every construct, each with    *)
(* one gap laid out in another way, or with one token removed, put in, or  *)
(* everything behind it cut off.                                           *)
(***************************************************************************)

Names == <<"a", "b", "c", "f">>

\* Declarations.
Declared == {
    <<"func", "f", "(", ")", "{", "}", "\n", "func", "a", "(", "b", ":", "i32", ",", "ref", "mut", "c", ":", "a", ")",
      "->", "ref", "b", "{", "}">>,
    <<"pub", "func", "f", "[", "a", ":", "b", "+", "c", "]", "(", "mut", "self", ")", "{", "return", ";", "}">>,
    <<"const", "a", ":", "i32", "=", "1", "\n", "const", "b", ":", "i32", "=", "2", ";", "\n", "pub", "var", "c", ":", "i32">>,
    <<"struct", "a", "{", "var", "b", ":", "i32", "\n", "const", "c", ":", "bool", "=", "true", ";", "}", "\n",
      "struct", "b", "[", "c", "]", ":", "a", ",", "b", "{", "}">>,
    <<"enum", "a", "{", "b", "=", "1", ",", "c", ",", "}">>,
    <<"union", "a", "{", "case", "b", "(", "c", ":", "i32", ")", "\n", "case", "c", "(", ")", ";", "}">>,
    <<"proto", "a", "{", "func", "f", "(", "self", ")", ";", "}", "\n", "type", "b", "=", "?", "a", "except", "c">>,
    <<"native", "func", "f", "(", ")", "->", "meta", "(", "a", "is", "b", ")", ".", "c", "\n",
      "native", "var", "b", ":", "[", "i32", ";", "2", "+", "b", "]">>,
    <<"proto", "a", "[", "b", ":", "...", "]", "{", "}", "\n", "type", "c", "[", "a", "]", "=", "|", "a", ":", "b", "|", "->", "bool">>,
    <<"use", "a", ".", "{", "c", ",", "b", ".", "f", "}", ";", "use", "b", "as", "c">>,
    <<"@", "[", "a", "=", "b", ",", "c", "]", "func", "f", "(", "@", "a", "b", ":", "func", "(", "c", ")", ")", "{", "}">>,
    <<"struct", "a", "[", "b", "]", "{", "proto", "c", "[", "a", "]", "{", "func", "f", "[", "c", "]", "(", "self", ")",
      "{", "for", "b", "in", "f", "(", "||", "{", "if", "a", "{", "}", "}", ")", "{", "}", "}", "}", "\n",
      "struct", "b", ":", "c", "[", "a", "]", "{", "}", "}">>
}
\* Statements, each of them the body of a function or of the default method of a proto that
\* one struct relies on and another one has a method for.
Stated == {
    <<"var", "a", ":", "i32", "=", "1", "+", "2", "*", "b", "-", "c", ";", "ref", "mut", "b", "=", "a">>,
    <<"if", "a", "==", "b", "{", "b", "=", "1", ";", "}", "else", "if", "!", "c", "{", "}", "else", "{", "break", ";", "}">>,
    <<"switch", "a", "{", "case", "b", ":", "c", "{", "}", "}">>,
    <<"try", "a", "in", "f", "(", ")", "{", "}", "except", "b", ":", "c", "{", "}">>,
    <<"try", "a", "in", "try", "f", "(", "self", ".", "type", ")", "{", "}", "else", "{", "b", "=", "share", ".", "c", "\n", "}">>,
    <<"var", "a", ":", "|", "b", ":", "i32", "|", "=", "ref", "mut", "c", "\n", "return", "'c'">>,
    <<"while", "a", "&&", "b", "||", "c", "{", "continue", ";", "}">>,
    <<"for", "ref", "a", "in", "1", "..", "b", "{", "}">>,
    <<"meta", "if", "a", "{", "}", "else", "{", "}", "\n", "meta", "for", "a", "in", "b", "{", "}">>,
    <<"a", ".", "b", "[", "1", "]", "<<=", "f", "(", "1", ",", "2", ")", ".", "c", ";", "return", "a", "as", "i32">>,
    <<"a", "=", "b", "{", "c", ":", "1", ",", "f", "}", "\n", "a", "=", "{", "b", ":", "[", "1", ",", "2", ",", "]", "}">>,
    <<"a", "=", "[", "b", ":", "1", ",", "c", ":", "(", "2", ",", "f", ")", "]", ";", "f", "(", "-", "(", "a", ")", ")">>,
    <<"a", "=", "|", "b", ":", "i32", "|", "->", "bool", "{", "return", "false", ";", "}", "\n", "b", "=", "||", "{", "a", "=", "1", "\n", "}">>,
    <<"a", "=", "&", "b", "is", "c", "\n", "meta", "(", "a", ")", ".", "b", "\n", "{", "}">>
}
InFunction(s) == <<"func", "f", "(", ")", "{", "\n">> \o s \o <<"\n", "}">>
InProto(s) ==
    <<"proto", "a", "{", "func", "f", "(", "self", ")", "{", "\n">> \o s \o <<"\n", "}", "}", "\n",
      "struct", "b", ":", "a", "{", "}", "\n", "struct", "c", ":", "a", "{", "func", "f", "(", "self", ")", "{", "}", "}">>
Programs == Declared \cup {InFunction(s) : s \in Stated}

\* A text: the tokens with the gaps between them.  Line breaks stand in the program itself.
Join(s, Gap(_)) == FlattenSeq([i \in DOMAIN s |-> IF s[i] = "\n" THEN <<"\n">> ELSE <<s[i]>> \o Gap(i)])
Spread(s) == Join(s, LAMBDA i : <<" ">>)
GapForms == {<<"\n">>, <<"\n", " ", "\n", "\n">>, <<"#", "a", "\n">>, <<"\n", "#", " ", "b", " ", "\n", "#", "c", "\n", "\n">>}
LaidOut(s) == {Join(s, LAMBDA i : IF i = k THEN form ELSE <<" ">>) : k \in DOMAIN s, form \in GapForms}

\* Texts that need not be programs.  The parser takes some tokens as they come, without a
\* look at what they are: behind the heads that EndsUnchecked lists, in an enumeration,
\* and where a parenthesis should be closed.
EndsUnchecked(s) == \/ Last(s) \in {"ref", "mut", "meta", "case"}
                    \/ Len(s) > 1 /\ s[Len(s) - 1] \in {"enum", "switch", "native"}
CutOff(s) == {Spread(t) : t \in {SubSeq(s, 1, k) : k \in {k \in DOMAIN s : ~EndsUnchecked(SubSeq(s, 1, k))}}}
Without(s) == {Spread(RemoveAt(s, k)) : k \in DOMAIN s}
With(s, token) == {Spread(InsertAt(s, k, token)) : k \in DOMAIN s}
Inserted == {",", ";", "=", ":", "{", "}", "[", ")", "->", "a", "func", "else"}
Written == {Spread(s) : s \in Programs} \cup {Spread(InProto(s)) : s \in Stated}
Checked == {s \in Programs : s[1] # "enum"}
AllTexts == Written
    \cup UNION {LaidOut(s) : s \in Programs}
    \cup UNION {Without(s) \cup CutOff(s) : s \in Programs}
    \cup UNION {With(s, token) : s \in Checked, token \in Inserted}

\* What the parser takes without a look: a parenthesis closed by a brace, an enumeration cut
\* off in its head; an element behind the length of an array, that is in no type; and what the
\* formatter glues together.
Unclosed == {Spread(<<"const", "a", ":", "i32", "=", "(", "2", ";">>)}
Headless == {Spread(<<"enum", "a">>)}
Overlong == {Spread(<<"native", "var", "b", ":", "[", "i32", ";", "2", ",", "b", "]">>)}
Glued == {Spread(<<"const", "a", ":", "b", "=", "1", "..", ".", "b">>), Spread(<<"const", "a", ":", "b", "=", "&", "&", "a">>), Spread(<<"type", "a", "=", "|", "|">>)}
=============================================================================
