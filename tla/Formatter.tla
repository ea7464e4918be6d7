----------------------------- MODULE Formatter -----------------------------
(***************************************************************************)
(* Formatter: walks the tree of a file and says, for every token, which    *)
(* white space is to follow it; comments stay, between the same tokens.    *)
(*   f.lexed: the tokens and what is attached in front of them;            *)
(*   f.words, f.gaps: the new text of every token and in front of it.      *)
(* The white space is "none", "space", "indent", "allow empty" (indent, or *)
(* an empty line if there was one), "empty line" and "indent out".         *)
(* The edits of the code are applied at once: no two of them overlap, and  *)
(* two at one place are applied in the order they were made.               *)
(***************************************************************************)
EXTENDS Parser

CONSTANT Alphabet   \* the names that may stand in a use list, in the order of compare
ASSUME AlphabetAssumption == Alphabet \in Seq(STRING)

Original(l) == [lexed |-> l, words |-> [i \in DOMAIN l.tokens |-> l.tokens[i].value],
                gaps |-> [i \in DOMAIN l.attached |-> FlattenSeq(l.attached[i])]]
NewText(f, i, j) == f.words[i] \o FlattenSeq([k \in 1..(j - i) |-> f.gaps[i + k] \o f.words[i + k]])
TextOf(f) == LET n == Len(f.gaps) IN f.gaps[1] \o NewText(f, 1, n)

(***************************************************************************)
(* White space.                                                            *)
(***************************************************************************)
LineBreaks(piece) == Len(SelectSeq(piece, LAMBDA c : c = "\n"))
IsComment(piece) == piece[1] = "#"
BuildIndent(indent) == [k \in 1..4 * indent |-> " "]
WhitespaceAsString(w, indent) ==
    CASE w = "none" -> <<>>
      [] w = "space" -> <<" ">>
      [] w \in {"indent", "allow empty"} -> <<"\n">> \o BuildIndent(indent)
      [] w = "indent out" -> <<"\n">> \o BuildIndent(indent - 1)
      [] w = "empty line" -> <<"\n", "\n">> \o BuildIndent(indent)

\* format_comment_text: a space behind the sign, none at the end.
CommentText(piece) ==
    LET kept == Max({k \in DOMAIN piece : piece[k] # " "})
    IN <<"#">> \o (IF Len(piece) >= 2 /\ piece[2] # " " THEN <<" ">> ELSE <<>>) \o SubSeq(piece, 2, kept)
FormatCommentsInLine(pieces, w, indent) ==   \* mutant: the line of a comment is not ended
    FlattenSeq([i \in DOMAIN pieces |-> IF IsComment(pieces[i]) THEN CommentText(pieces[i]) ELSE WhitespaceAsString(w, indent)])
FormatComments(pieces, w, indent) ==
    LET New1(i) ==
            IF IsComment(pieces[i]) THEN (IF i = 1 THEN <<" ", " ">> ELSE <<>>) \o CommentText(pieces[i])
            ELSE CASE LineBreaks(pieces[i]) = 0 /\ i < Len(pieces) -> <<" ", " ">>
                   [] w = "indent out" /\ i = Len(pieces) -> WhitespaceAsString(w, indent)
                   [] OTHER -> [k \in 1..Min({LineBreaks(pieces[i]), 2}) |-> "\n"] \o BuildIndent(indent)
    IN FlattenSeq([i \in DOMAIN pieces |-> New1(i)])

\* ensure_whitespace_after
Ensure(f, token, w, indent) ==
    LET pieces == f.lexed.attached[token + 1]
        blank == Len(pieces) > 0 /\ ~IsComment(pieces[1])
        wanted == IF w = "allow empty" /\ blank /\ LineBreaks(pieces[1]) >= 2 THEN "empty line" ELSE w
    IN [f EXCEPT !.gaps[token + 1] = IF pieces = <<>> \/ (Len(pieces) = 1 /\ blank)
                                     THEN WhitespaceAsString(wanted, indent)
                                     ELSE FormatComments(pieces, wanted, indent)]
FollowedByComment(f, token) == \E i \in DOMAIN f.lexed.attached[token + 1] : IsComment(f.lexed.attached[token + 1][i])

(***************************************************************************)
(* What follows the tokens of a node and its children.  An empty child has *)
(* no layout, and neither has the default branch of a switch.              *)
(***************************************************************************)
S == "space"
N == "none"
All(s, w) == [i \in DOMAIN s |-> w]
Lay(own, kids) == [own |-> own, kids |-> kids]
\* The children one behind the other, with a space between.
Chain(n, w) == [i \in DOMAIN n.kids |-> IF i < Len(n.kids) THEN S ELSE w]
\* format_before_terminator: the child behind the kids is the last, count tokens come before a semicolon.
Ended(n, count, kids, w) ==
    IF Len(n.own) = count + 1 THEN Lay([i \in 1..count |-> S] \o <<w>>, Append(kids, N))
    ELSE Lay([i \in 1..count |-> S], Append(kids, w))

OperatorOf(f, n) == f.lexed.tokens[n.own[1]].kind
Children(n) == Len(n.kids)
Native(n) == IF n.type \in {"native func", "native var", "ref mut var"} THEN 1 ELSE 0
Returning(n) == n.kids[Children(n)].type # "empty"

FuncLayout(n, w) ==
    CASE n.type = "func" -> Lay(All(n.own, S), <<S, N, S, S, w>>)
      [] n.type = "generic func" -> Lay(All(n.own, S), <<S, N, N, S, S, w>>)
      [] n.type \in {"func decl", "native func"} ->
             IF Returning(n) THEN Ended(n, Native(n) + 2, <<S, N, S>>, w) ELSE Ended(n, Native(n) + 1, <<S, N>>, w)
TypeDefLayout(n, w) ==
    CASE n.type = "const" -> Ended(n, 3, <<N, S>>, w)
      [] n.type = "struct" -> Lay(<<S>>, <<IF n.kids[2].own = <<>> THEN S ELSE N, S, w>>)
      [] n.type = "generic struct" -> Lay(<<S>>, <<N, IF n.kids[3].own = <<>> THEN S ELSE N, S, w>>)
      [] n.type \in {"enum", "union", "proto"} -> Lay(<<S>>, <<S, w>>)
      [] n.type = "generic proto" -> Lay(<<S>>, <<N, S, w>>)
      [] n.type = "variant" -> IF Children(n) = 1 THEN Lay(<<>>, <<w>>) ELSE Lay(<<S>>, <<S, w>>)
      [] n.type = "union case" -> Ended(n, 1, <<N>>, w)
NameLayout(n, w) ==
    CASE n.type = "alias" -> Ended(n, 2, <<S>>, w)
      [] n.type = "generic alias" -> Ended(n, 2, <<N, S>>, w)
      [] n.type = "use" -> Ended(n, 1, <<>>, w)
      [] n.type = "rebind" -> Lay(<<S>>, <<S, w>>)
VarLayout(n, w) ==
    CASE n.type \in {"var", "ref var", "ref mut var", "native var"} ->
             IF Children(n) = 3 THEN Ended(n, Native(n) + 3, <<N, S>>, w) ELSE Ended(n, Native(n) + 2, <<N>>, w)
      [] n.type \in {"typeless var", "typeless ref var"} -> Ended(n, 2, <<S>>, w)
      [] n.type = "typeless ref mut var" -> Ended(n, 3, <<S>>, w)
StmtLayout(n, w) ==
    CASE n.type = "expr stmt" -> IF n.own = <<>> THEN Lay(<<>>, <<w>>) ELSE Lay(<<w>>, <<N>>)
      [] n.type = "assign" -> Ended(n, 1, <<S>>, w)
      [] n.type = "return" /\ Children(n) = 1 -> Ended(n, 1, <<>>, w)
      [] OTHER -> Lay(IF Len(n.own) = 2 THEN <<N, w>> ELSE <<w>>, <<>>)
ControlLayout(n, w) ==
    CASE n.type \in {"case branch", "except branch"} -> Lay(<<S, S>>, <<N, S, w>>)
      [] OTHER -> Lay(All(n.own, S), Chain(n, w))
ExprLayout(f, n, w) ==
    CASE n.type = "paren" -> Lay(<<N, w>>, <<N>>)
      [] n.type = "struct literal" -> Lay(<<>>, <<S, w>>)
      [] n.type = "typeless literal" -> Lay(<<>>, <<w>>)
      [] n.type = "closure" -> Lay(All(n.own, S), <<S, S, w>>)
      [] n.type = "self type" -> Lay(<<N, N, w>>, <<>>)
      [] n.type = "dot" -> Lay(<<N>>, <<N, w>>)
      [] n.type \in {"binary", "result type"} ->
             IF OperatorOf(f, n) = ".." THEN Lay(<<N>>, <<N, w>>) ELSE Lay(<<S>>, <<S, w>>)
      [] n.type = "unary" -> Lay(<<IF OperatorOf(f, n) \in {"ref", "share", "try"} THEN S ELSE N>>, <<w>>)
      [] n.type \in {"call", "bracket"} -> Lay(<<>>, <<N, w>>)
      [] n.type = "ref mut" -> Lay(<<S, S>>, <<w>>)
TypeLayout(n, w) ==
    LET own == IF n.type = "func type" THEN <<N>> ELSE <<>>
    IN CASE n.type = "static array" -> Lay(<<N, S, w>>, <<N, N>>)
         [] n.type = "meta access" -> Lay(<<N, N, w>>, <<N>>)
         [] OTHER -> IF Returning(n) THEN Lay(Append(own, S), <<S, w>>) ELSE Lay(own, <<w, w>>)
ParamLayout(n, w) ==
    CASE n.type = "params" -> Lay(<<w>>, <<>>)
      [] n.type = "param" -> IF n.kids[1].type = "empty" THEN Lay(<<>>, <<N, w>>) ELSE Lay(<<S>>, <<N, w>>)
      [] n.type \in {"ref param", "ref mut param"} -> Lay(All(n.own, S), IF Children(n) = 1 THEN <<w>> ELSE <<N, w>>)
      [] n.type = "constraint" -> Lay(All(n.own, S), Chain(n, w))
      [] n.type \in {"ref return", "ref mut return"} -> Lay(All(n.own, S), <<w>>)
      [] n.type \in {"map entry", "entry", "generic param"} ->
             IF Children(n) = 1 THEN Lay(<<>>, <<w>>) ELSE Lay(<<S>>, <<N, w>>)
AttributeLayout(n, w) ==
    CASE n.type = "impls" -> Lay(All(n.own, S), [i \in DOMAIN n.kids |-> IF i < Children(n) THEN N ELSE w])
      [] n.type = "qualifiers" -> Lay(<<>>, Chain(n, w))
      [] n.type = "attribute wrapper" ->
             Lay(<<N>>, <<IF n.kids[2].type \in {"param", "ref param", "ref mut param"} THEN S ELSE "indent", w>>)
      [] n.type = "attributes" -> Lay(<<>>, <<w>>)
      [] n.type = "attribute value" -> Lay(<<N>>, <<N, w>>)

\* format_node
Layout(f, n, w) ==
    CASE n.type \in Atoms \cup {"self", "qualifier", "attribute tag", "param sequence"} -> Lay(<<w>>, <<>>)
      [] n.type \in {"func", "generic func", "func decl", "native func"} -> FuncLayout(n, w)
      [] n.type \in {"const", "struct", "generic struct", "enum", "variant", "union", "union case", "proto",
                     "generic proto"} -> TypeDefLayout(n, w)
      [] n.type \in {"alias", "generic alias", "use", "rebind"} -> NameLayout(n, w)
      [] n.type \in {"var", "ref var", "ref mut var", "native var", "typeless var", "typeless ref var",
                     "typeless ref mut var"} -> VarLayout(n, w)
      [] n.type \in {"expr stmt", "assign", "return", "break", "continue"} -> StmtLayout(n, w)
      [] n.type \in {"if", "if branch", "else if branch", "else branch", "switch", "case branch", "try stmt", "try branch",
                     "except branch", "while", "for", "meta if", "meta for"} -> ControlLayout(n, w)
      [] n.type \in {"paren", "struct literal", "typeless literal", "closure", "self type", "dot", "binary", "result type",
                     "unary", "call", "bracket", "ref mut"} -> ExprLayout(f, n, w)
      [] n.type \in {"static array", "func type", "closure type", "meta access"} -> TypeLayout(n, w)
      [] n.type \in {"params", "param", "ref param", "ref mut param", "constraint", "ref return", "ref mut return",
                     "map entry", "entry", "generic param"} -> ParamLayout(n, w)
      [] n.type \in {"impls", "qualifiers", "attribute wrapper", "attributes", "attribute value"} -> AttributeLayout(n, w)

\* An empty line follows a declaration, or the last one of its kind in a row.
AlwaysApart == {"func", "generic func", "struct", "generic struct", "enum", "union", "proto", "generic proto"}
Apart(type, next, global) ==
    \/ type \in AlwaysApart
    \/ type \in {"func decl", "native func", "native var", "const", "use"} /\ next # type
    \/ type = "var" /\ global /\ next # type
    \/ type \in {"alias", "generic alias"} /\ next # "alias"
Spaced(w, n, c) ==
    IF w \in {"indent", "allow empty"} /\ c.next # "none" /\ Apart(n.type, c.next, c.global) THEN "empty line" ELSE w

(***************************************************************************)
(* Use lists are sorted.                                                   *)
(***************************************************************************)
RECURSIVE TokensOf(_)
TokensOf(n) == Range(n.own) \cup UNION {TokensOf(n.kids[i]) : i \in DOMAIN n.kids}
\* ordering_string, as a place in the alphabet; 0 is the empty string.
OrderingString(f, n) ==
    LET Place(m) == IF m.type = "name" THEN CHOOSE i \in DOMAIN Alphabet : <<Alphabet[i]>> = f.lexed.tokens[m.own[1]].value
                    ELSE 0
    IN IF n.type \in {"rebind", "dot"} THEN Place(n.kids[1]) ELSE Place(n)
SortedChildren(f, n) ==
    LET Before(i, j) == LET a == OrderingString(f, n.kids[i])
                            b == OrderingString(f, n.kids[j])
                        IN a < b \/ (a = b /\ i < j)
    IN IF n.type = "use list" THEN SetToSortSeq(DOMAIN n.kids, Before) ELSE [i \in DOMAIN n.kids |-> i]
\* The child's text gives way to another one.
Replace(f, child, text) ==
    LET first == Min(TokensOf(child))
        last == Max(TokensOf(child))
    IN [f EXCEPT !.words = [i \in DOMAIN @ |-> CASE i = first -> text [] i \in (first + 1)..last -> <<>> [] OTHER -> @[i]],
                 !.gaps = [i \in DOMAIN @ |-> IF i \in (first + 1)..last THEN <<>> ELSE @[i]]]

(***************************************************************************)
(* The walk.  c: the indentation, whether var declares a global, and the   *)
(* type of the next sibling.                                               *)
(***************************************************************************)
RECURSIVE Format(_, _, _, _)
NextType(n, i) == IF i < Len(n.kids) THEN n.kids[i + 1].type ELSE "none"
OfChild(c, n, i) == [indent |-> c.indent, next |-> NextType(n, i),
                     global |-> c.global /\ n.type \notin {"func", "generic func", "closure"}]
EnsureEach(f, own, spaces, indent) ==
    FoldLeft(LAMBDA g, i : Ensure(g, own[i], spaces[i], indent), f, [i \in 1..Len(spaces) |-> i])
FormatEach(f, n, spaces, c) ==
    FoldLeft(LAMBDA g, i : Format(g, n.kids[i], spaces[i], OfChild(c, n, i)), f, [i \in 1..Len(spaces) |-> i])

FormatBlock(f, n, w, c) ==
    LET inner == [c EXCEPT !.indent = @ + 1]
        opened == CASE n.kids # <<>> -> "indent" [] FollowedByComment(f, n.own[1]) -> "indent out" [] OTHER -> N
        spaces == [i \in DOMAIN n.kids |-> IF i < Len(n.kids) THEN "allow empty" ELSE "indent out"]
    IN Ensure(FormatEach(Ensure(f, n.own[1], opened, inner.indent), n, spaces, inner), n.own[2], w, c.indent)

\* A list is laid out on lines of its own if a comma ends it or a comment begins it.
FormatList(f, n, w, c, enclosing) ==
    LET k == Len(n.own)
        multiline == f.lexed.tokens[n.own[k] - 1].kind = "," \/ FollowedByComment(f, n.own[1])
        inner == IF multiline THEN c.indent + 1 ELSE c.indent
        spaces == IF multiline THEN [i \in 1..(k - 1) |-> IF i < k - 1 THEN "indent" ELSE "indent out"]
                  ELSE [i \in 1..(k - 1) |-> IF i > 1 \/ (enclosing /\ n.kids # <<>>) THEN S ELSE N]
        After(i) == IF ~multiline /\ enclosing /\ i = Len(n.kids) THEN S ELSE N
        order == SortedChildren(f, n)
        ofKid == [c EXCEPT !.indent = inner]
        FormatKid(g, i) ==
            IF order[i] = i THEN Format(g, n.kids[i], After(i), OfChild(ofKid, n, i))
            ELSE LET other == n.kids[order[i]]
                     alone == Format(Original(f.lexed), other, N, OfChild(ofKid, n, order[i]))
                     text == NewText(alone, Min(TokensOf(other)), Max(TokensOf(other)))
                 IN Ensure(Replace(g, n.kids[i], text), Max(TokensOf(n.kids[i])), After(i), inner)
    IN Ensure(FoldLeft(FormatKid, EnsureEach(f, n.own, spaces, inner), [i \in DOMAIN n.kids |-> i]), n.own[k], w, c.indent)

Lists == {"array", "map", "tuple", "args", "generic params", "use list", "variants", "entries", "params", "attributes"}
Format(f, n, w, c) ==
    CASE n.type = "empty" -> f
      [] n.type \in {"block", "cases"} -> FormatBlock(f, n, w, c)
      [] n.type \in Lists /\ Len(n.own) >= 2 -> FormatList(f, n, w, c, n.type \in {"variants", "entries"})
      [] OTHER -> LET l == Layout(f, n, Spaced(w, n, c))
                  IN FormatEach(EnsureEach(f, n.own, l.own, c.indent), n, l.kids, c)

\* format_mod: no white space at the start of the file.
FormatStart(f) ==
    LET pieces == f.lexed.attached[1]
        kept == IF pieces # <<>> /\ ~IsComment(pieces[1]) THEN Tail(pieces) ELSE pieces
    IN [f EXCEPT !.gaps[1] = FlattenSeq([i \in DOMAIN kept |-> IF IsComment(kept[i]) THEN CommentText(kept[i]) ELSE kept[i]])]
FormatModule(l, children) ==
    LET block == [type |-> "module", own |-> <<>>, kids |-> children]
    IN TextOf(FormatEach(FormatStart(Original(l)), block, All(children, "allow empty"), [indent |-> 0, global |-> TRUE, next |-> "none"]))
=============================================================================
