-------------------------------- MODULE Sir ---------------------------------
(***************************************************************************)
(* SIRGenerator makes the semantic IR of a parsed file; Cloner copies a    *)
(* part of it for another place: a default method of a proto for a struct  *)
(* that lacks it, the range of a for statement that is read once more.     *)
(*                                                                         *)
(* A node is of a kind and lies at an address: the place of its origin in  *)
(* the tree of the file, its kind, and the marks of the copies it went     *)
(* through.  parts gives a sequence of nodes to every field that points to *)
(* some, empty for nullptr; plain is what the node holds itself.  A block  *)
(* has a symbol table, at an address of its own.  ast_node and stage are   *)
(* left out: the first is the place, and all that is made is of stage NAME.*)
(***************************************************************************)
EXTENDS Parser, TLC

NoTable == [at |-> <<>>, parent |-> <<>>, symbols |-> {}]

(***************************************************************************)
(* The generator.  A cursor c stands on a node of the tree and carries the *)
(* scope (symbol table and generic parameters) and the attributes written  *)
(* in front; decl is FALSE within the block of a function.                 *)
(***************************************************************************)
Kid(c, i) == [c EXCEPT !.node = c.node.kids[i], !.at = Append(c.at, i), !.attrs = <<>>]
Arity(c) == Len(c.node.kids)
KidType(c, i) == IF i \in DOMAIN c.node.kids THEN c.node.kids[i].type ELSE ""
TokenOf(c) == IF c.node.own = <<>> THEN <<>> ELSE c.tokens[c.node.own[1]].value
TokenKind(c) == IF c.node.own = <<>> THEN "" ELSE c.tokens[c.node.own[1]].kind
Address(at, kind) == <<"first", kind, at>>
Make(c, kind, plain, parts) ==
    [kind |-> kind, at |-> Address(c.at, kind), plain |-> plain, parts |-> parts, table |-> NoTable]

\* The fields of a node as they are made of the children of a node of the tree: a child
\* that may be missing, all children of a child (0: of the node itself), a function type
\* of two children, the attributes, or nothing.
One(what, i) == <<"one", what, i>>
Each(what, i) == <<"each", what, i>>
Type2(i) == <<"func type", "", i>>
Attrs == <<"attrs", "", 0>>
Null == <<"null", "", 0>>
Inherited == <<"generics", "", 0>>

RECURSIVE Generate(_, _)

Sub1(c, what, i) == IF i \in DOMAIN c.node.kids THEN <<Generate(what, Kid(c, i))>> ELSE <<>>
EachKid(c, what) == [i \in 1..Arity(c) |-> Generate(what, Kid(c, i))]
Reference(c, mut, base) == Make(c, "ReferenceType", mut, [base_type |-> base])

\* generate_func_type(params_node, return_node)
FuncType(c, i) ==
    LET return == Kid(c, i + 1)
        mut == IF return.node.type = "ref mut return" THEN <<"mut">> ELSE <<>>
    IN Make(Kid(c, i), "FuncType", <<>>,
            [params |-> EachKid(Kid(c, i), "param"),
             return_type |-> CASE return.node.type = "empty" -> <<Make(return, "PrimitiveType", <<"void">>, <<>>)>>
                               [] return.node.type \in {"ref return", "ref mut return"} ->
                                      <<Reference(return, mut, Sub1(return, "expr", 1))>>
                               [] OTHER -> <<Generate("expr", return)>>])

Part(c, d) ==
    CASE d[1] = "one" -> Sub1(c, d[2], d[3])
      [] d[1] = "each" -> IF d[3] = 0 THEN EachKid(c, d[2]) ELSE EachKid(Kid(c, d[3]), d[2])
      [] d[1] = "func type" -> <<FuncType(c, d[3])>>
      [] d[1] = "attrs" -> c.attrs
      [] d[1] = "generics" -> c.generics
      [] d[1] = "null" -> <<>>
Form(kind, fields) == [kind |-> kind, fields |-> fields]
Fill(c, form, plain) == Make(c, form.kind, plain, [f \in DOMAIN form.fields |-> Part(c, form.fields[f])])

\* What an attribute stands in front of, with the attributes.
Unwrapped(c) ==
    IF c.node.type = "attribute wrapper" THEN [Kid(c, 2) EXCEPT !.attrs = Sub1(c, "attrs", 1)] ELSE c

Ident(c) == Make(c, "Ident", TokenOf(c), <<>>)
Error(c) == Make(c, "Error", <<>>, <<>>)

(***************************************************************************)
(* Blocks open a scope.                                                    *)
(***************************************************************************)
GenerateBlock(c) ==
    LET table == Address(c.at, "SymbolTable")
    IN [Make(c, "Block", <<>>, [stmts |-> EachKid([c EXCEPT !.table = table, !.decl = FALSE], "stmt")])
            EXCEPT !.table = [NoTable EXCEPT !.at = table, !.parent = c.table]]
DeclBlock(c, decls) ==
    [Make(c, "DeclBlock", <<>>, [decls |-> decls])
        EXCEPT !.table = [NoTable EXCEPT !.at = Address(c.at, "SymbolTable"), !.parent = c.table]]
GenerateDeclBlock(c) == DeclBlock(c, EachKid([c EXCEPT !.table = Address(c.at, "SymbolTable")], "decl"))

-----------------------------------------------------------------------------
(***************************************************************************)
(* Expressions and types.                                                  *)
(***************************************************************************)
LiteralForms ==
    [number |-> Form("IntLiteral", [type |-> Null]),
     char |-> Form("CharLiteral", [type |-> Null]),
     string |-> Form("StringLiteral", [type |-> Null]),
     true |-> Form("BoolLiteral", [type |-> Null]),
     array |-> Form("ArrayLiteral", [type |-> Null, values |-> Each("expr", 0)]),
     map |-> Form("MapLiteral", [type |-> Null, entries |-> Each("map entry", 0)]),
     typed |-> Form("StructLiteral", [type |-> One("expr", 1), entries |-> Each("entry", 2)]),
     typeless |-> Form("StructLiteral", [type |-> Null, entries |-> Each("entry", 1)]),
     closure |-> Form("ClosureLiteral", [type |-> Null, func_type |-> Type2(1), block |-> One("block", 3)])]
OperatorForms ==
    [binary |-> Form("BinaryExpr", [type |-> Null, lhs |-> One("expr", 1), rhs |-> One("expr", 2)]),
     range |-> Form("RangeExpr", [lhs |-> One("expr", 1), rhs |-> One("expr", 2)]),
     cast |-> Form("CastExpr", [type |-> One("expr", 2), value |-> One("expr", 1)]),
     is |-> Form("TypeCheckExpr", [type |-> Null, type_to_check |-> One("expr", 1), constraint |-> One("expr", 2)]),
     unary |-> Form("UnaryExpr", [type |-> Null, value |-> One("expr", 1)]),
     star |-> Form("StarExpr", [value |-> One("expr", 1)]),
     try |-> Form("TryExpr", [type |-> Null, value |-> One("expr", 1), return_type |-> Null]),
     tuple |-> Form("TupleExpr", [type |-> Null, exprs |-> Each("expr", 0)])]
ExprForms ==
    [name |-> Form("IdentExpr", <<>>),
     call |-> Form("CallExpr", [type |-> Null, callee |-> One("expr", 1), args |-> Each("expr", 2)]),
     metaCall |-> Form("MetaCallExpr", [type |-> Null, callee |-> One("expr", 1), args |-> Each("expr", 2)]),
     dot |-> Form("DotExpr", [lhs |-> One("expr", 1), rhs |-> One("member", 2)]),
     metaField |-> Form("MetaFieldExpr", [type |-> Null, base |-> One("expr", 1), field |-> One("member", 2)]),
     implicitDot |-> Form("DotExpr", [lhs |-> Null, rhs |-> One("member", 1)]),
     bracket |-> Form("BracketExpr", [lhs |-> One("expr", 1), rhs |-> Each("expr", 2)]),
     selfType |-> Form("PseudoType", <<>>),
     metaAccess |-> Form("MetaAccess", [expr |-> One("expr", 1)])]
TypeForms ==
    [i32 |-> Form("PrimitiveType", <<>>),
     array |-> Form("StaticArrayType", [base_type |-> One("expr", 1), length |-> One("expr", 2)]),
     optional |-> Form("OptionalType", [base_type |-> One("expr", 1)]),
     result |-> Form("ResultType", [value_type |-> One("expr", 1), error_type |-> One("expr", 2)]),
     closure |-> Form("ClosureType", [func_type |-> Type2(1), underlying_struct |-> Null])]

\* A field or a call of meta(...) is one of its own.
OfMetaAccess(c) == KidType(c, 1) = "meta access"
OfMetaField(c) == KidType(c, 1) = "dot" /\ OfMetaAccess(Kid(c, 1))

\* A sign is part of the number behind it.
GenerateUnary(c) ==
    LET op == TokenKind(c)
    IN CASE op = "-" /\ KidType(c, 1) = "number" -> Fill(Kid(c, 1), LiteralForms.number, <<"-">> \o TokenOf(Kid(c, 1)))
         [] op = "*" -> Fill(c, OperatorForms.star, <<>>)
         [] op = "?" -> Fill(c, TypeForms.optional, <<>>)
         [] op = "." -> Fill(c, ExprForms.implicitDot, <<>>)
         [] op = "try" -> Fill(c, OperatorForms.try, <<>>)
         [] OTHER -> Fill(c, OperatorForms.unary, <<op>>)
GenerateBinary(c) ==
    LET op == TokenKind(c)
    IN CASE op = ".." -> Fill(c, OperatorForms.range, <<>>)
         [] op = "as" -> Fill(c, OperatorForms.cast, <<>>)
         [] op = "is" -> Fill(c, OperatorForms.is, <<>>)
         [] OTHER -> Fill(c, OperatorForms.binary, <<op>>)

GenerateExpr(c) ==
    LET t == c.node.type
    IN CASE t = "number" -> Fill(c, LiteralForms.number, TokenOf(c))
         [] t = "name" -> Fill(c, ExprForms.name, TokenOf(c))
         [] t = "literal" -> Fill(c, IF TokenOf(c) = <<"'c'">> THEN LiteralForms.char ELSE LiteralForms.string, TokenOf(c))
         [] t \in {"true", "false"} -> Fill(c, LiteralForms.true, TokenOf(c))
         [] t \in {"i32", "bool"} -> Fill(c, TypeForms.i32, TokenOf(c))
         [] t = "self" -> Fill(c, ExprForms.name, <<"self">>)
         [] t = "self type" -> Fill(c, ExprForms.selfType, <<>>)
         [] t \in {"array", "map", "closure"} -> Fill(c, LiteralForms[t], <<>>)
         [] t = "struct literal" -> Fill(c, LiteralForms.typed, <<>>)
         [] t = "typeless literal" -> Fill(c, LiteralForms.typeless, <<>>)
         [] t = "bracket" -> Fill(c, ExprForms.bracket, <<>>)
         [] t = "tuple" -> Fill(c, OperatorForms.tuple, <<>>)
         [] t = "binary" -> GenerateBinary(c)
         [] t = "unary" -> GenerateUnary(c)
         [] t = "ref mut" -> Fill(c, OperatorForms.unary, <<t>>)
         [] t = "call" -> Fill(c, IF OfMetaField(c) THEN ExprForms.metaCall ELSE ExprForms.call, <<>>)
         [] t = "dot" -> Fill(c, IF OfMetaAccess(c) THEN ExprForms.metaField ELSE ExprForms.dot, <<>>)
         [] t = "meta access" -> Fill(c, ExprForms.metaAccess, <<>>)
         [] t = "static array" -> Fill(c, TypeForms.array, <<>>)
         [] t = "func type" -> FuncType(c, 1)
         [] t = "closure type" -> Fill(c, TypeForms.closure, <<>>)
         [] t = "result type" -> Fill(c, TypeForms.result, <<>>)
         [] t = "paren" -> Generate("expr", Kid(c, 1))
         [] OTHER -> Error(c)

\* What stands behind a point is a name or, in a tuple, a number.
GenerateMember(c) ==
    IF c.node.type = "name" \/ c.node.type = "number" THEN Ident(c) ELSE Make(c, "Ident", <<"[error]">>, <<>>)

\* An entry without a value has that of the variable of its name.
GenerateEntry(c) ==
    Make(c, "StructLiteralEntry", <<>>,
         [ident |-> Sub1(c, "ident", 1), value |-> Sub1(c, "expr", IF Arity(c) = 2 THEN 2 ELSE 1), field |-> <<>>])

GenerateParam(c) ==
    LET type == Sub1(c, "expr", 2)
        mut == IF c.node.type = "ref mut param" THEN <<"mut">> ELSE <<>>
    IN Make(c, "Param", <<KidType(c, 1)>>,
            [name |-> IF KidType(c, 1) = "name" THEN Sub1(c, "ident", 1) ELSE <<>>,
             type |-> CASE KidType(c, 1) = "self" -> <<Reference(c, mut, <<>>)>>
                        [] KidType(c, 1) = "name" /\ c.node.type # "param" -> <<Reference(c, mut, type)>>
                        [] OTHER -> type,
             attrs |-> c.attrs])

-----------------------------------------------------------------------------
(***************************************************************************)
(* Statements.                                                             *)
(***************************************************************************)
StmtForms ==
    [assign |-> Form("AssignStmt", [lhs |-> One("expr", 1), rhs |-> One("expr", 2)]),
     compAssign |-> Form("CompAssignStmt", [lhs |-> One("expr", 1), rhs |-> One("expr", 2)]),
     return |-> Form("ReturnStmt", [value |-> One("expr", 1)]),
     switch |-> Form("SwitchStmt", [value |-> One("expr", 1), case_branches |-> Each("case", 2)])]
LoopForms ==
    [while |-> Form("WhileStmt", [condition |-> One("expr", 1), block |-> One("block", 2)]),
     for |-> Form("ForStmt", [ident |-> One("ident", 1), range |-> One("expr", 2), block |-> One("block", 3)]),
     metaFor |-> Form("MetaForStmt", [local |-> One("local", 1), range |-> One("expr", 2), block |-> One("block", 3),
                                      generic_param |-> Null]),
     continue |-> Form("ContinueStmt", <<>>),
     break |-> Form("BreakStmt", <<>>)]
BranchForms ==
    [condition |-> [condition |-> One("expr", 1), block |-> One("block", 2)],
     success |-> [ident |-> One("ident", 1), expr |-> One("expr", 2), block |-> One("block", 3)],
     except |-> [ident |-> One("ident", 1), type |-> One("expr", 2), block |-> One("block", 3)],
     else |-> [block |-> One("block", 1)]]

\* generate_local: the name, the type if one is written, and the attributes.
Local(c, name, type, attrs) == Make(c, "Local", <<>>, [name |-> Sub1(c, "ident", name), type |-> type, attrs |-> attrs])

\* A variable that is a reference is of a reference type, with a base to be found if none is written.
GenerateVar(c) ==
    LET typed == c.node.type \in {"var", "ref var", "ref mut var"}
        type == IF typed THEN Sub1(c, "expr", 2) ELSE <<>>
        mut == IF c.node.type \in {"ref mut var", "typeless ref mut var"} THEN <<"mut">> ELSE <<>>
        ref == c.node.type \notin {"var", "typeless var"}
    IN Make(c, "VarStmt", <<>>,
            [local |-> <<Local(c, 1, IF ref THEN <<Reference(c, mut, type)>> ELSE type, c.attrs)>>,
             value |-> Sub1(c, "expr", IF typed THEN 3 ELSE 2)])

\* The branches of a type, each of them a node of its own.
Branches(c, types, kind, fields, meta) ==
    LET all == [i \in 1..Arity(c) |-> i]
        of == SelectSeq(all, LAMBDA i : c.node.kids[i].type \in types)
        Filled(b) == [f \in DOMAIN fields |->
                        IF f = "block" /\ meta THEN <<Generate(IF c.decl THEN "decl block" ELSE "block", Kid(b, Arity(b)))>>
                        ELSE Part(b, fields[f])]
    IN [k \in DOMAIN of |-> Make(Kid(c, of[k]), kind, <<>>, Filled(Kid(c, of[k])))]
GenerateIf(c, meta) ==
    Make(c, IF meta THEN "MetaIfStmt" ELSE "IfStmt", <<>>,
         [cond_branches |-> Branches(c, {"if branch", "else if branch"}, IF meta THEN "MetaIfCondBranch" ELSE "IfCondBranch",
                                     BranchForms.condition, meta),
          else_branch |-> Branches(c, {"else branch"}, IF meta THEN "MetaIfElseBranch" ELSE "IfElseBranch",
                                   BranchForms.else, meta)])
GenerateTry(c) ==
    Make(c, "TryStmt", <<>>,
         [success_branch |-> Branches(c, {"try branch"}, "TrySuccessBranch", BranchForms.success, FALSE),
          except_branch |-> Branches(c, {"except branch"}, "TryExceptBranch", BranchForms.except, FALSE),
          else_branch |-> Branches(c, {"else branch"}, "TryElseBranch", BranchForms.else, FALSE)])

\* Attributes count in front of variables; a declaration is an error here.
GenerateStmt(c) ==
    LET t == c.node.type
    IN CASE t \in {"var", "ref var", "ref mut var", "typeless var", "typeless ref var", "typeless ref mut var"} -> GenerateVar(c)
         [] t = "assign" /\ TokenKind(c) = "=" -> Fill(c, StmtForms.assign, <<>>)
         [] t = "assign" /\ TokenKind(c) # "=" -> Fill(c, StmtForms.compAssign, <<TokenKind(c)>>)
         [] t = "for" -> Fill(c, LoopForms.for, [i \in DOMAIN c.node.own |-> c.tokens[c.node.own[i]].kind])
         [] t = "return" -> Fill(c, StmtForms.return, <<>>)
         [] t \in {"while", "continue", "break"} -> Fill(c, LoopForms[t], <<>>)
         [] t = "switch" -> Fill(c, StmtForms.switch, <<>>)
         [] t = "try stmt" -> GenerateTry(c)
         [] t = "if" -> GenerateIf(c, FALSE)
         [] t = "meta if" -> GenerateIf(c, TRUE)
         [] t = "meta for" -> Fill(c, LoopForms.metaFor, <<>>)
         [] t = "expr stmt" -> Generate("expr", Kid(c, 1))
         [] t = "block" -> GenerateBlock(c)
         [] OTHER -> Error(c)
GenerateCase(c) ==
    Make(c, "SwitchCaseBranch", <<>>,
         [local |-> <<Local(c, 1, Sub1(c, "expr", 2), <<>>)>>, block |-> Sub1(c, "block", 3)])

-----------------------------------------------------------------------------
(***************************************************************************)
(* Declarations.  A generic definition hands its parameters on to those    *)
(* within it.                                                              *)
(***************************************************************************)
\* generate_generic_param_list: behind those of the scope.
GenericParams(c, i) ==
    c.generics \o [k \in 1..Arity(Kid(c, i)) |->
        LET d == Kid(Kid(c, i), k)
        IN Make(d, "GenericParam", IF KidType(d, 2) = "param sequence" THEN <<"sequence">> ELSE <<"type">>,
                [ident |-> Sub1(d, "ident", 1),
                 constraint |-> IF KidType(d, 2) = "constraint" THEN EachKid(Kid(d, 2), "expr") ELSE <<>>])]

FuncForms ==
    [func |-> Form("FuncDef", [ident |-> One("ident", 2), type |-> Type2(3), block |-> One("block", 5), attrs |-> Attrs,
                               generic_params |-> Inherited]),
     genericFunc |-> Form("FuncDef", [ident |-> One("ident", 2), type |-> Type2(4), block |-> One("block", 6),
                                      attrs |-> Null, generic_params |-> Inherited]),
     funcDecl |-> Form("FuncDecl", [ident |-> One("ident", 2), type |-> Type2(3), generic_params |-> Inherited]),
     nativeFunc |-> Form("NativeFuncDecl", [ident |-> One("ident", 2), type |-> Type2(3), attrs |-> Attrs]),
     const |-> Form("ConstDef", [ident |-> One("ident", 1), type |-> One("expr", 2), value |-> One("expr", 3)])]
DeclForms ==
    [struct |-> Form("StructDef", [ident |-> One("ident", 1), impls |-> Each("expr", 2), block |-> One("decl block", 3),
                                   fields |-> Null, attrs |-> Attrs, generic_params |-> Null]),
     genericStruct |-> Form("StructDef", [ident |-> One("ident", 1), impls |-> Each("expr", 3),
                                          block |-> One("decl block", 4), fields |-> Null, attrs |-> Null,
                                          generic_params |-> Inherited]),
     var |-> Form("VarDecl", [ident |-> One("ident", 1), type |-> One("expr", 2), value |-> One("expr", 3),
                              attrs |-> Attrs]),
     nativeVar |-> Form("NativeVarDecl", [ident |-> One("ident", 1), type |-> One("expr", 2), attrs |-> Attrs]),
     variant |-> Form("EnumVariant", [ident |-> One("ident", 1), type |-> Null, value |-> One("expr", 2)]),
     union |-> Form("UnionDef", [ident |-> One("ident", 1), block |-> One("decl block", 2), cases |-> Null]),
     case |-> Form("UnionCase", [ident |-> One("ident", 1), fields |-> Each("field", 2)]),
     field |-> Form("UnionCaseField", [ident |-> One("ident", 1), type |-> One("expr", 2)]),
     proto |-> Form("ProtoDef", [ident |-> One("ident", 1), block |-> One("decl block", 2), func_decls |-> Null,
                                 generic_params |-> Null]),
     genericProto |-> Form("ProtoDef", [ident |-> One("ident", 1), block |-> One("decl block", 3), func_decls |-> Null,
                                        generic_params |-> Inherited]),
     alias |-> Form("TypeAlias", [ident |-> One("ident", 1), type |-> One("expr", 2), generic_params |-> Null]),
     genericAlias |-> Form("TypeAlias", [ident |-> One("ident", 1), type |-> One("expr", 3),
                                         generic_params |-> Inherited]),
     use |-> Form("UseDecl", [root_item |-> One("use", 1)])]

\* The block of an enumeration is one without a node, opened where the enumeration stands.
GenerateEnum(c) ==
    Make(c, "EnumDef", <<>>, [ident |-> Sub1(c, "ident", 1), block |-> <<DeclBlock(Kid(c, 2), EachKid(Kid(c, 2), "variant"))>>,
                              variants |-> <<>>])
\* The symbol table of an alias is for its parameters.
GenerateAlias(c, form) ==
    [Fill(c, form, <<>>) EXCEPT !.table = [NoTable EXCEPT !.at = Address(c.at, "SymbolTable"), !.parent = c.table]]
WithGenerics(c, i) == [c EXCEPT !.generics = GenericParams(c, i)]

\* A statement is an error here, and so is a variable without a type.
GenerateDecl(c) ==
    LET t == c.node.type
    IN CASE t \in {"func", "const"} -> Fill(c, FuncForms[t], <<>>)
         [] t \in {"struct", "var", "union", "proto", "use"} -> Fill(c, DeclForms[t], <<>>)
         [] t = "generic func" ->   \* its own parameters are for itself alone
                [Fill(c, FuncForms.genericFunc, <<>>) EXCEPT !.parts.generic_params = GenericParams(c, 3)]
         [] t = "func decl" -> Fill(c, FuncForms.funcDecl, <<>>)
         [] t = "native func" -> Fill(c, FuncForms.nativeFunc, <<>>)
         [] t = "native var" -> Fill(c, DeclForms.nativeVar, <<>>)
         [] t = "generic struct" -> Fill(WithGenerics(c, 2), DeclForms.genericStruct, <<>>)
         [] t = "enum" -> GenerateEnum(c)
         [] t = "union case" -> Fill(c, DeclForms.case, <<>>)
         [] t = "generic proto" -> Fill(WithGenerics(c, 2), DeclForms.genericProto, <<>>)
         [] t = "alias" -> GenerateAlias(c, DeclForms.alias)
         [] t = "generic alias" ->
                [GenerateAlias(c, DeclForms.genericAlias) EXCEPT !.parts.generic_params = GenericParams(c, 2)]
         [] t = "meta if" -> GenerateIf(c, TRUE)
         [] OTHER -> Error(c)

UseForms ==
    [rebind |-> Form("UseRebind", [target_ident |-> One("ident", 1), local_ident |-> One("ident", 2), symbol |-> Null]),
     dot |-> Form("UseDotExpr", [lhs |-> One("use", 1), rhs |-> One("use", 2)]),
     list |-> Form("UseList", [items |-> Each("use", 0)])]
GenerateUse(c) ==
    LET t == c.node.type
    IN CASE t = "name" -> Make(c, "UseIdent", <<>>, [ident |-> <<Ident(c)>>, symbol |-> <<>>])
         [] t \in {"rebind", "dot"} -> Fill(c, UseForms[t], <<>>)
         [] t = "use list" -> Fill(c, UseForms.list, <<>>)
         [] OTHER -> Error(c)

GenerateAttrs(c) ==
    Make(c, "Attributes", <<>>,
         [raw_attrs |-> [i \in 1..Arity(c) |->
             LET d == Kid(c, i)
             IN Make(d, "RawAttribute", IF d.node.type = "attribute tag" THEN TokenOf(d)
                                        ELSE TokenOf(Kid(d, 1)) \o <<"=">> \o TokenOf(Kid(d, 2)), <<>>)]])

Generate(what, c) ==
    CASE what = "expr" -> GenerateExpr(c)
      [] what = "stmt" -> GenerateStmt(Unwrapped(c))
      [] what = "decl" -> GenerateDecl(Unwrapped(c))
      [] what = "block" -> GenerateBlock(c)
      [] what = "decl block" -> GenerateDeclBlock(c)
      [] what = "ident" -> Ident(c)
      [] what = "member" -> GenerateMember(c)
      [] what = "entry" -> GenerateEntry(c)
      [] what = "map entry" -> Make(c, "MapLiteralEntry", <<>>, [key |-> Sub1(c, "expr", 1), value |-> Sub1(c, "expr", 2)])
      [] what = "param" -> GenerateParam(Unwrapped(c))
      [] what = "case" -> GenerateCase(c)
      [] what = "local" -> Local(c, 1, <<>>, <<>>)
      [] what \in {"variant", "field"} -> Fill(c, DeclForms[what], <<>>)
      [] what = "use" -> GenerateUse(c)
      [] what = "attrs" -> GenerateAttrs(c)

\* generate_mod
GenerateModule(tokens, nodes) ==
    GenerateDeclBlock([tokens |-> tokens, node |-> [type |-> "block", own |-> <<>>, kids |-> nodes], at |-> <<>>,
                       table |-> <<>>, generics |-> <<>>, attrs |-> <<>>, decl |-> TRUE])

-----------------------------------------------------------------------------
(***************************************************************************)
(* The cloner: of each kind of node the fields that are cloned, and those  *)
(* whose nodes the clone shares with the original; the others are emptied. *)
(***************************************************************************)
ClonedOfDecls ==
    [FuncDef |-> {"ident", "type", "block", "attrs"}, FuncDecl |-> {"ident", "type"},
     NativeFuncDecl |-> {"ident", "type", "attrs"}, ConstDef |-> {"ident", "type", "value"}]
ClonedOfTypeDecls ==
    [StructDef |-> {"ident", "block", "impls", "attrs"}, VarDecl |-> {"ident", "type", "value", "attrs"},
     NativeVarDecl |-> {"ident", "type", "attrs"}, EnumDef |-> {"ident"}, EnumVariant |-> {"ident", "type", "value"},
     UnionDef |-> {"ident", "block"}, UnionCase |-> {"ident"}, ProtoDef |-> {"ident", "block"},
     TypeAlias |-> {"ident", "type"}]
ClonedOfMeta ==
    [UseDecl |-> {"root_item"}, UseIdent |-> {"ident"}, UseRebind |-> {"target_ident", "local_ident"},
     UseDotExpr |-> {"lhs", "rhs"}, UseList |-> {"items"}, MetaIfStmt |-> {"cond_branches", "else_branch"},
     MetaIfCondBranch |-> {"condition", "block"}, MetaIfElseBranch |-> {"block"},
     MetaForStmt |-> {"local", "range", "block"}]
ClonedOfStmts ==
    [VarStmt |-> {"local", "value"}, AssignStmt |-> {"lhs", "rhs"}, CompAssignStmt |-> {"lhs", "rhs"},
     ReturnStmt |-> {"value"}, IfStmt |-> {"cond_branches", "else_branch"}, IfCondBranch |-> {"condition", "block"},
     IfElseBranch |-> {"block"}, SwitchStmt |-> {"value", "case_branches"}, SwitchCaseBranch |-> {"local", "block"}]
ClonedOfLoops ==
    [TryStmt |-> {"success_branch", "except_branch", "else_branch"}, TrySuccessBranch |-> {"ident", "expr", "block"},
     TryExceptBranch |-> {"ident", "type", "block"}, TryElseBranch |-> {"block"}, WhileStmt |-> {"condition", "block"},
     ForStmt |-> {"ident", "range", "block"}, LoopStmt |-> {"condition", "block", "latch"}, ContinueStmt |-> {},
     BreakStmt |-> {}]
ClonedOfLiterals ==
    [IntLiteral |-> {"type"}, BoolLiteral |-> {"type"}, CharLiteral |-> {"type"}, StringLiteral |-> {"type"},
     ArrayLiteral |-> {"type", "values"}, StructLiteral |-> {"type", "entries"}, StructLiteralEntry |-> {"ident", "value"},
     MapLiteral |-> {"type", "entries"}, MapLiteralEntry |-> {"key", "value"},
     ClosureLiteral |-> {"type", "func_type", "block"}]
ClonedOfExprs ==
    [SymbolExpr |-> {"type"}, BinaryExpr |-> {"type", "lhs", "rhs"}, UnaryExpr |-> {"type", "value"},
     CastExpr |-> {"type", "value"}, IndexExpr |-> {"type", "base", "index"}, CallExpr |-> {"type", "callee", "args"},
     RangeExpr |-> {"lhs", "rhs"}, TryExpr |-> {"type", "value", "return_type"}, TupleExpr |-> {"type", "exprs"},
     CoercionExpr |-> {"type", "value"}, SpecializeExpr |-> {"type", "args"}]
ClonedOfTypes ==
    [PrimitiveType |-> {}, StaticArrayType |-> {"base_type", "length"}, FuncType |-> {"params", "return_type"},
     Param |-> {"type", "attrs"}, Local |-> {"type", "attrs"}, OptionalType |-> {"base_type"},
     ResultType |-> {"value_type", "error_type"}, MapType |-> {}, ClosureType |-> {"func_type"},
     ReferenceType |-> {"base_type"}]
ClonedOfUnresolved ==
    [IdentExpr |-> {}, StarExpr |-> {"value"}, BracketExpr |-> {"lhs", "rhs"}, DotExpr |-> {"lhs"}, PseudoType |-> {},
     MetaAccess |-> {"expr"}, MetaFieldExpr |-> {"type", "base"}, MetaCallExpr |-> {"type", "callee", "args"},
     TypeCheckExpr |-> {"type", "type_to_check", "constraint"}]
ClonedFields ==
    ClonedOfDecls @@ ClonedOfTypeDecls @@ ClonedOfMeta @@ ClonedOfStmts @@ ClonedOfLoops @@ ClonedOfLiterals
    @@ ClonedOfExprs @@ ClonedOfTypes @@ ClonedOfUnresolved
    @@ [Block |-> {"stmts"}, DeclBlock |-> {"decls"}, Ident |-> {}, Attributes |-> {}, Error |-> {}]
SharedFields(n) ==
    {f \in DOMAIN n.parts :
        \/ f = "generic_params"
        \/ <<n.kind, f>> \in {<<"EnumDef", "block">>, <<"UnionCase", "fields">>, <<"Attributes", "raw_attrs">>,
                              <<"Param", "name">>, <<"Local", "name">>, <<"DotExpr", "rhs">>, <<"MetaFieldExpr", "field">>}}

Copied(at) == Append(at, "clone")

\* push_symbol_table: a new table is within the one on top of the stack (<<>>: it is empty).
PushSymbolTableAside(at, parent_if_empty, top) ==   \* mutant: every table is put where the original is
    [NoTable EXCEPT !.at = at, !.parent = parent_if_empty]
PushSymbolTable(at, parent_if_empty, top) ==
    [NoTable EXCEPT !.at = at, !.parent = IF top = <<>> THEN parent_if_empty ELSE top]

\* The map of symbols holds the parameters of functions and the variables: a variable is
\* in it before anything that may refer to it is cloned.
RECURSIVE SirNodes(_)
SirNodes(n) == {n} \cup UNION {UNION {SirNodes(n.parts[f][i]) : i \in DOMAIN n.parts[f]} : f \in DOMAIN n.parts}
SymbolMap(root) ==
    {v.parts.local[1].at : v \in {m \in SirNodes(root) : m.kind = "VarStmt"}}
    \cup UNION {{p.at : p \in Range(f.parts.type[1].parts.params)} : f \in {m \in SirNodes(root) : m.kind = "FuncDef"}}
ResolveSymbol(symbol, map) == IF symbol \in map THEN Copied(symbol) ELSE symbol

\* A declaration block starts with an empty table.
CloneTable(n, top, map) ==
    LET pushed == PushSymbolTable(Copied(n.table.at), n.table.parent, top)
    IN CASE n.kind = "Block" -> [pushed EXCEPT !.symbols = {<<s[1], ResolveSymbol(s[2], map)>> : s \in n.table.symbols}]
         [] n.kind = "DeclBlock" -> pushed
         [] OTHER -> n.table   \* an alias shares its table
RECURSIVE CloneNode(_, _, _)
CloneNode(n, top, map) ==
    LET table == CloneTable(n, top, map)
        inner == IF n.kind \in {"Block", "DeclBlock"} THEN table.at ELSE top
    IN [n EXCEPT !.at = Copied(@), !.table = table,
                 !.plain = IF n.kind = "SymbolExpr" THEN ResolveSymbol(@, map) ELSE @,
                 !.parts = [f \in DOMAIN @ |->
                     CASE f \in ClonedFields[n.kind] -> [i \in DOMAIN @[f] |-> CloneNode(@[f][i], inner, map)]
                       [] f \in SharedFields(n) -> @[f]
                       [] OTHER -> <<>>]]
Clone(n, top) == CloneNode(n, top, SymbolMap(n))

-----------------------------------------------------------------------------
(***************************************************************************)
(* Default methods.  SymbolCollector and DeclInterfaceAnalyzer are here as *)
(* far as a struct and the protos it implements go; the names of types     *)
(* stay as they are written, but for that of self.                         *)
(***************************************************************************)
NameOf(d) == d.parts.ident[1].plain
IsMethod(f) == LET params == f.parts.type[1].parts.params IN params # <<>> /\ Head(params).plain = <<"self">>

\* A function is in the table of what it is declared in, under its name, and its generic
\* parameters are in that of its block.
Collected(f) ==
    [f EXCEPT !.parts.block[1].table.symbols =
        @ \cup {<<NameOf(g), g.at>> : g \in Range(f.parts.generic_params)}]
Members(s) == {symbol[1] : symbol \in s.parts.block[1].table.symbols}
CollectedStruct(s) ==
    [s EXCEPT !.parts.block[1].table.symbols =
        {<<NameOf(d), d.at>> : d \in {d \in Range(s.parts.block[1].parts.decls) : "ident" \in DOMAIN d.parts /\ d.kind # "VarDecl"}}]
\* func_decls of a proto
Methods(p) == SelectSeq(p.parts.block[1].parts.decls, LAMBDA d : d.kind \in {"FuncDef", "FuncDecl"} /\ (d.kind = "FuncDef" => IsMethod(d)))

\* analyze_self_param: self is of the proto that the method is in.
OfProto(f, p) ==
    LET self == Head(f.parts.type[1].parts.params)
        proto == [kind |-> "SymbolExpr", at |-> Address(self.at[3], "SymbolExpr"), plain |-> p.at,
                  parts |-> [type |-> <<>>], table |-> NoTable]
        byval == \E a \in Range(self.parts.attrs) : \E raw \in Range(a.parts.raw_attrs) : raw.plain = <<"byval">>
    IN IF byval THEN [f EXCEPT !.parts.type[1].parts.params[1].parts.type = <<proto>>]
       ELSE [f EXCEPT !.parts.type[1].parts.params[1].parts.type[1].parts.base_type = <<proto>>]

\* The cloner of a default method starts with a table of its own, empty for ever, within
\* the one that the method is in.
ClonerTable(f) == PushSymbolTable(Append(f.at, "cloner"), f.parts.block[1].table.parent, <<>>)
InsertDefaultImpl(s, f, p) ==
    LET clone == Collected(Clone(OfProto(f, p), ClonerTable(f).at))
    IN [s EXCEPT !.parts.block[1].parts.decls = Append(@, clone),
                 !.parts.block[1].table.symbols = @ \cup {<<NameOf(clone), clone.at>>}]
AnalyzeProtoImpl(s, p) ==
    FoldLeft(LAMBDA t, f : IF NameOf(f) \notin Members(t) /\ f.kind = "FuncDef" THEN InsertDefaultImpl(t, Collected(f), p) ELSE t,
             s, Methods(p))
=============================================================================
