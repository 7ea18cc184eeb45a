------------------------------- MODULE Parser -------------------------------
(***************************************************************************)
(* The recursive-descent parser (parser.cc) as a pushdown machine: `stack`  *)
(* holds what is left to do of each parse function that was called, the     *)
(* next thing last.  A frame that is done gives a value to the one below.   *)
(* Tokens are token kinds.  Trees are built for expressions only.           *)
(***************************************************************************)
EXTENDS Integers, SequencesExt

CONSTANTS
  Kinds,       \* token kinds a source may continue with
  Openings,    \* token sequences a source may begin with
  MaxFree,     \* bound: tokens behind such a beginning
  Goals,       \* expression trees that are printed and parsed back
  Source(_)    \* the tokens a tree is printed as, with the brackets it needs

VARIABLES
  stack, ret,            \* the frames; what the last one gave
  current, rest, free,   \* current_token_, the tokens behind it, and how many
                         \* more are chosen when the parser comes to them
  goal,                  \* the tree that was printed, or None
  errors,                \* something was added to the ErrorCollector
  silent                 \* history: what was given up or skipped before that

vars == <<stack, ret, current, rest, free, goal, errors, silent>>

Leaf(n) == [node |-> n, kids |-> <<>>]
None    == Leaf("none")     \* nullptr, std::nullopt, false
Done    == Leaf("done")
Tree(n, kids) == IF goal = None THEN Done ELSE [node |-> n, kids |-> kids]

-----------------------------------------------------------------------------
(* Steps.                                                                   *)

Top   == Last(stack)
At(l) == stack # <<>> /\ Top.at = l
F(l)  == [at |-> l]

\* AdvanceToken: comments and what the tokenizer rejects are left out.
Advance ==
  /\ goal' = goal
  /\ IF rest # <<>> THEN current' = Head(rest) /\ rest' = Tail(rest) /\ free' = free
     ELSE /\ rest' = rest
          /\ \/ current' = "eof" /\ free' = 0
             \/ free > 0 /\ current' \in Kinds /\ free' = free - 1
Stay == UNCHANGED <<current, rest, free, goal>>

\* The frame on top is replaced by frames / by nothing, and v is given.
Go(frames, v) == stack' = Front(stack) \o frames /\ ret' = v

Quiet  == UNCHANGED <<errors, silent>>
Report == errors' = TRUE /\ silent' = {}
Hide(what) ==
  /\ errors' = errors
  /\ silent' = IF errors THEN {} ELSE silent \cup {what}

Take(frames) == Advance /\ Go(frames, Done) /\ Quiet
Jump(frames) == Stay /\ Go(frames, Done) /\ Quiet
Give(v)      == Stay /\ Go(<<>>, v) /\ Quiet
TakeGive(v)  == Advance /\ Go(<<>>, v) /\ Quiet
FailUnreported(frames) == Stay /\ Go(frames, None) /\ Quiet  \* mutant: no error is added
Fail(frames) == Stay /\ Go(frames, None) /\ Report

Expect(k)    == [at |-> "expect", kind |-> k]
Sync(kinds)  == [at |-> "sync", targets |-> kinds]
OrSync(kinds) == [at |-> "orSync", targets |-> kinds]
Synced(loop) == [at |-> "synced", loop |-> loop]
Close(k)     == [at |-> "close", kind |-> k]
ItemEnd(loop, k) == [at |-> "itemEnd", loop |-> loop, kind |-> k]

ConsumeToken ==
  At("expect") /\ IF current = Top.kind THEN TakeGive(Done) ELSE Fail(<<>>)

\* `break` stands for `continue` as well.
StartOfStatement ==
  {"let", "struct", "extern", "while", "return", "break", "fn", "throw", "import", "alias"}

\* A token may just have been missing; else at least one is skipped.
SynchronizeOnError ==
  \/ At("sync") /\ IF current \in Top.targets THEN Give(Done)
                   ELSE Advance /\ Go(<<[Top EXCEPT !.at = "syncing"]>>, Done) /\ Hide("skipped")
  \/ At("syncing") /\ IF current \in Top.targets THEN Give(Done)
                      ELSE IF current \in StartOfStatement \cup {"eof"} THEN Give(None)
                      ELSE Advance /\ Go(<<Top>>, Done) /\ Hide("skipped")

\* What callers do with the result of a call.
Callers ==
  \/ At("done") /\ Give(Done)
  \/ At("orReport") /\ IF ret = None THEN Fail(<<>>) ELSE Give(Done)
  \/ At("orSync") /\ IF ret = None THEN Jump(<<Sync(Top.targets)>>) ELSE Give(Done)
  \/ At("close") /\ IF current = Top.kind THEN TakeGive(Done)
                    ELSE Fail(<<F("takeFound"), Sync({Top.kind})>>)
  \/ At("takeFound") /\ IF ret = None THEN Give(None) ELSE TakeGive(Done)
  \/ At("itemEnd") /\ IF current = "," THEN Take(<<Top.loop>>)
                      ELSE IF current = Top.kind THEN Jump(<<Top.loop>>)
                      ELSE Fail(<<Synced(Top.loop), Sync({",", Top.kind})>>)

SyncedKeepsComma ==  \* mutant: the comma is left to the loop
  At("synced") /\ IF ret = None THEN Give(None) ELSE Jump(<<Top.loop>>)

\* A comma the list was synchronized to is consumed.
SyncedAtItem ==
  At("synced") /\ IF ret = None THEN Give(None)
                  ELSE IF current = "," THEN Take(<<Top.loop>>) ELSE Jump(<<Top.loop>>)

-----------------------------------------------------------------------------
(* Expressions.                                                             *)

\* Binary operators, the weakest first; one kind stands for those of its level.
Level == << {"&&", "||"}, {"=="}, {"&"}, {"+", "-"}, {"*"} >>
Prefix == {"+", "-", "++", "!"}
Atoms  == {"ident", "literal", "string"}

Binary(k) == IF k > Len(Level) THEN F("unary") ELSE [at |-> "binary", level |-> k]

ParseAssignment ==
  \/ At("expression") /\ Jump(<<F("assign"), Binary(1)>>)
  \/ At("assign") /\ IF ret # None /\ current = "="
                     THEN Take(<<[at |-> "assigned", lhs |-> ret], F("expression")>>)
                     ELSE Give(ret)
  \/ At("assigned") /\ Give(IF ret = None THEN None ELSE Tree("=", <<Top.lhs, ret>>))

ParseBinaryRight ==  \* mutant: the right operand takes in operators of the same level
  \/ /\ At("binary")
     /\ Jump(<<[at |-> "operand", level |-> Top.level, op |-> "", lhs |-> None],
               Binary(Top.level + 1)>>)
  \/ /\ At("operand")
     /\ LET lhs == IF Top.op = "" THEN ret ELSE Tree(Top.op, <<Top.lhs, ret>>)
        IN  IF ret # None /\ current \in Level[Top.level]
            THEN Take(<<[Top EXCEPT !.op = current, !.lhs = lhs], Binary(Top.level)>>)
            ELSE Give(IF ret = None THEN None ELSE lhs)

\* ParseLogical, ParseComparison, ParseBitwise, ParseAdditive and
\* ParseMultiplicative.
ParseBinary ==
  \/ /\ At("binary")
     /\ Jump(<<[at |-> "operand", level |-> Top.level, op |-> "", lhs |-> None],
               Binary(Top.level + 1)>>)
  \/ /\ At("operand")
     /\ LET lhs == IF Top.op = "" THEN ret ELSE Tree(Top.op, <<Top.lhs, ret>>)
        IN  IF ret # None /\ current \in Level[Top.level]
            THEN Take(<<[Top EXCEPT !.op = current, !.lhs = lhs], Binary(Top.level + 1)>>)
            ELSE Give(IF ret = None THEN None ELSE lhs)

ParseUnary ==
  \/ At("unary") /\ IF current \in Prefix
                    THEN Take(<<[at |-> "prefixed", op |-> current], F("unary")>>)
                    ELSE Jump(<<F("infix")>>)
  \/ At("prefixed") /\ Give(IF ret = None THEN None ELSE Tree("prefix" \o Top.op, <<ret>>))

ParseInFix ==
  \/ At("infix") /\ Jump(<<F("infixed"), F("postfix")>>)
  \/ At("infixed") /\ ret = None /\ Give(None)
  \/ At("infixed") /\ ret # None /\
       (CASE current = "as" -> Take(<<Top, [at |-> "cast", lhs |-> ret]>>)
          [] current = "??" -> Take(<<Top, [at |-> "coalesce", lhs |-> ret], F("infix")>>)
          [] OTHER -> Give(ret))
  \/ At("cast") /\ LET casted == <<[Top EXCEPT !.at = "casted"], F("type")>>
                   IN  IF current = "?" THEN Take(casted) ELSE Jump(casted)
  \/ At("casted") /\ Give(IF ret = None THEN None ELSE Tree("as", <<Top.lhs>>))
  \/ At("coalesce") /\ Give(IF ret = None THEN None ELSE Tree("??", <<Top.lhs, ret>>))

Suffix(chain) == [at |-> "suffix", chain |-> chain]
Again(tree)   == Go(<<Suffix(Top.chain)>>, tree) /\ Quiet
Wrapped       == IF Top.opt THEN Tree("?", <<Top.expr>>) ELSE Top.expr

\* The loop of ParsePostFix: an optional `?`, then a suffix.
ParsePostFix ==
  \/ At("postfix") /\ Jump(<<Suffix(FALSE), F("primary")>>)
  \/ At("suffix") /\ ret = None /\ Give(None)
  \/ At("suffix") /\ ret # None /\
       LET next(opt) == <<[at |-> "suffixed", expr |-> ret, opt |-> opt,
                           chain |-> Top.chain \/ opt]>>
       IN  IF current = "?" THEN Take(next(TRUE)) ELSE Jump(next(FALSE))
  \/ At("suffixed") /\
       (CASE current = "." -> Take(<<[Top EXCEPT !.at = "member"]>>)
          [] current = "(" -> Take(<<Suffix(Top.chain),
                                     [at |-> "arguments", call |-> <<Wrapped>>]>>)
          [] current = "[" -> Take(<<[Top EXCEPT !.at = "index"], F("expression")>>)
          [] current \notin {".", "(", "["} /\ Top.opt ->
               Stay /\ Go(<<Suffix(Top.chain)>>, Top.expr) /\ Report
          [] current = "++" /\ ~ Top.opt -> Advance /\ Again(Tree("postfix++", <<Top.expr>>))
          [] OTHER -> Give(IF Top.chain THEN Tree("chain", <<Top.expr>>) ELSE Top.expr))

ParseMember ==
  \/ At("member") /\
       (CASE current = "ident" -> Advance /\ Again(Tree(".", <<Wrapped>>))
          [] current = "of" -> Take(<<[Top EXCEPT !.at = "of"]>>)
          [] OTHER -> Fail(<<[Top EXCEPT !.at = "memberSynced"], Sync({".", "(", "["})>>))
  \/ At("memberSynced") /\ ret = None /\ Give(None)
  \/ At("memberSynced") /\ ret # None /\ Stay /\ Again(Top.expr)
  \/ At("of") /\ IF current = "("
                 THEN Take(<<[Top EXCEPT !.at = "instantiate"], [at |-> "typeList", end |-> ")"]>>)
                 ELSE Fail(<<[Top EXCEPT !.at = "ofSynced"], Sync({")", ";"})>>)
  \/ At("ofSynced") /\ ret = None /\ Give(None)
  \/ /\ At("ofSynced") /\ ret # None
     /\ Again(Top.expr) /\ IF current = ")" THEN Advance ELSE Stay
  \/ At("instantiate") /\ Stay /\ Again(Tree("of", <<Top.expr>>))

\* The closing bracket is consumed and then, if another one follows, that too.
ParseIndex ==
  \/ At("index") /\
       LET end == [at |-> "indexEnd", chain |-> Top.chain,
                   tree |-> Tree("index", <<Wrapped, ret>>)]
       IN  CASE ret = None -> Jump(<<[Top EXCEPT !.at = "indexLost"], Sync({"]"})>>)
             [] ret # None /\ current = "]" -> Take(<<end>>)
             [] OTHER -> Fail(<<end, Sync({"]"})>>)
  \/ At("indexLost") /\ IF ret = None THEN Give(None) ELSE Advance /\ Again(Top.expr)
  \/ At("indexEnd") /\ ret = None /\ Give(None)
  \/ /\ At("indexEnd") /\ ret # None
     /\ Again(Top.tree) /\ IF current = "]" THEN Advance ELSE Stay

ParseCall ==
  \/ At("arguments") /\ IF current = ")" THEN TakeGive(Tree("call", Top.call))
                        ELSE Jump(<<[Top EXCEPT !.at = "argument"], F("expression")>>)
  \/ At("argument") /\
       LET loop == [at |-> "arguments",
                    call |-> IF ret = None \/ goal = None THEN Top.call
                             ELSE Append(Top.call, ret)]
       IN  IF ret = None THEN Jump(<<Synced(loop), Sync({",", ")"})>>)
           ELSE Jump(<<ItemEnd(loop, ")")>>)

ParsePrimary ==
  \/ At("primary") /\
       (CASE current \in Atoms   -> TakeGive(Leaf(current))
          [] current = "invalid" -> Advance /\ Go(<<>>, None) /\ Report
          [] current = "("       -> Take(<<F("paren"), F("expression")>>)
          [] current = "fn"      -> Jump(<<[at |-> "fn", named |-> FALSE]>>)
          [] current = "sizeof"  -> Take(<<F("sizeof")>>)
          [] OTHER               -> Fail(<<>>))
  \/ At("paren") /\ IF ret = None THEN Jump(<<F("parenLost"), Sync({")"})>>)
                    ELSE IF current = ")" THEN TakeGive(ret)
                    ELSE Fail(<<[at |-> "parenSynced", tree |-> ret], Sync({")"})>>)
  \/ At("parenLost") /\ IF ret = None THEN Give(None) ELSE TakeGive(None)
  \/ At("parenSynced") /\ IF ret = None THEN Give(None) ELSE TakeGive(Top.tree)
  \/ At("sizeof") /\ IF current = "(" THEN Take(<<F("done"), Expect(")"), F("type")>>)
                     ELSE Fail(<<>>)

-----------------------------------------------------------------------------
(* Types.                                                                   *)

Rest(sep) == [at |-> "typeRest", sep |-> sep]
More(end, any) == [at |-> "typeMore", end |-> end, any |-> any]

\* ParseUnionType and ParseIntersectionType.
ParseType ==
  \/ At("type") /\ Jump(<<Rest("|"), Rest("&"), F("primaryType")>>)
  \/ At("typeRest") /\
       IF ret # None /\ current = Top.sep
       THEN Take(IF Top.sep = "|" THEN <<Top, Rest("&"), F("primaryType")>>
                                  ELSE <<Top, F("primaryType")>>)
       ELSE Give(ret)

ParsePrimaryType ==
  \/ At("primaryType") /\
       (CASE current = "("     -> Take(<<F("optional"), F("typeParen"), F("type")>>)
          [] current = "fn"    -> Take(<<F("optional"), F("fnType")>>)
          [] current = "ident" -> Take(<<F("optional"), F("typeArguments")>>)
          [] OTHER             -> Stay /\ Go(<<>>, None) /\ Hide("type"))
  \/ At("typeParen") /\ IF ret = None THEN Give(None) ELSE Jump(<<F("done"), Expect(")")>>)
  \/ At("typeArguments") /\ IF current = "[" THEN Take(<<[at |-> "typeList", end |-> "]"]>>)
                            ELSE Give(Done)
  \/ At("optional") /\ IF ret # None /\ current = "?" THEN TakeGive(Done) ELSE Give(ret)

ParseFunctionType ==
  \/ At("fnType") /\ IF current = "(" THEN Take(<<F("fnTypeOpen")>>) ELSE Fail(<<>>)
  \/ At("fnTypeOpen") /\ IF current = ")" THEN Jump(<<F("fnTypeClose")>>)
                         ELSE Jump(<<F("fnTypeNext"), F("fnTypeArgument"), F("type")>>)
  \/ At("fnTypeArgument") /\ IF ret = None THEN Jump(<<Sync({",", ")"})>>) ELSE Give(Done)
  \/ At("fnTypeNext") /\
       (CASE ret = None -> Give(None)
          [] ret # None /\ current = "," ->
               Take(<<F("fnTypeNext"), F("fnTypeArgument"), F("type")>>)
          [] ret # None /\ current = ")" -> Jump(<<F("fnTypeClose")>>)
          [] OTHER -> Jump(<<F("fnTypeClose"), Sync({")", "->"})>>))
  \/ At("fnTypeClose") /\ IF ret = None THEN Give(None)
                          ELSE IF current = ")" THEN Take(<<F("fnTypeArrow")>>)
                          ELSE Jump(<<F("fnTypeArrow")>>)
  \/ At("fnTypeArrow") /\ IF current = "->" THEN Take(<<F("type")>>) ELSE Give(Done)

\* The list goes on, whatever the current token is.
ParseTypeList ==
  \/ At("typeList") /\ Jump(<<More(Top.end, FALSE), F("type")>>)
  \/ At("typeMore") /\
       LET any == Top.any \/ ret # None  loop == <<More(Top.end, any), F("type")>>
       IN  IF current = "," THEN Take(loop)
           ELSE IF current = Top.end
           THEN TakeGive(IF any \/ Top.end = ")" THEN Done ELSE None)
           ELSE Jump(loop)

\* ParseTemplateDeclarationList.
ParseTemplates ==
  \/ At("templates") /\
       (CASE current \in {"]", "eof"} -> Jump(<<F("done"), Expect("]")>>)
          [] current = "ident" -> Take(<<F("constraint")>>)
          [] OTHER -> Fail(<<Synced(Top), Sync({",", "]"})>>))
  \/ At("constraint") /\ IF current = ":" THEN Take(<<F("default"), F("orReport"), F("type")>>)
                         ELSE Jump(<<F("default")>>)
  \/ At("default") /\
       LET end == ItemEnd(F("templates"), "]")
       IN  IF current = "=" THEN Take(<<end, F("orReport"), F("type")>>) ELSE Jump(<<end>>)

-----------------------------------------------------------------------------
(* Declarations.                                                            *)

Fn(named)    == [at |-> "fn", named |-> named]
D(l, kind)   == [at |-> l, kind |-> kind]
FnArgument   == F("fnArgument")
MemberLost(kind) ==
  <<D("memberLost", kind),
    Sync(IF kind = "struct" THEN {"fn", "static", "}", "implements", "ident"} ELSE {"fn", "}"})>>

\* ParseStructDeclaration, ParseInterfaceDeclaration and
\* ParseImplementsDeclaration, which differ in what they may contain.
ParseDeclaration ==
  \/ At("declaration") /\ Take(<<D("name", Top.kind)>>)
  \/ At("name") /\ LET then == <<D("parameters", Top.kind)>>
                   IN  IF current = "ident" THEN Take(then)
                       ELSE Fail(then \o <<Sync({"[", "{"})>>)
  \/ At("parameters") /\
       LET then == <<D("open", Top.kind)>>
       IN  CASE ret = None -> Give(None)
             [] ret # None /\ current = "[" ->
                  Take(then \o <<IF Top.kind = "implements" THEN [at |-> "typeList", end |-> "]"]
                                 ELSE F("templates")>>)
             [] OTHER -> Jump(then)
  \/ At("open") /\ IF ret = None THEN Give(None)
                   ELSE IF current = "{" THEN Take(<<D("members", Top.kind)>>) ELSE Fail(<<>>)

ParseMembers ==
  \/ At("members") /\
       LET kind == Top.kind  end == D("memberEnd", kind)
           inStruct(token) == kind = "struct" /\ current = token
       IN  CASE current \in {"}", "eof"} -> Jump(<<F("done"), Expect("}")>>)
             [] current = "fn"           -> Jump(<<end, Fn(TRUE)>>)
             [] inStruct("static")       -> Take(<<F("static")>>)
             [] inStruct("implements")   -> Jump(<<end, D("declaration", "implements")>>)
             [] inStruct("ident")        -> Take(<<F("field")>>)
             [] OTHER                    -> Fail(MemberLost(kind))
  \/ At("memberEnd") /\ Jump(IF ret = None THEN MemberLost(Top.kind) ELSE <<D("members", Top.kind)>>)
  \/ At("memberLost") /\ IF ret = None THEN Give(None) ELSE Jump(<<D("members", Top.kind)>>)
  \/ At("static") /\
       IF current = "fn" THEN Jump(<<D("memberEnd", "struct"), Fn(TRUE)>>)
       ELSE Fail(<<F("staticLost"), Sync({";", "fn", "static", "}", "implements"})>>)
  \/ At("staticLost") /\ LET then == <<D("members", "struct")>>
                         IN  IF ret = None THEN Give(None)
                             ELSE IF current = ";" THEN Take(then) ELSE Jump(then)
  \/ At("field") /\ IF current = ":" THEN Take(<<F("fieldEnd"), F("type")>>)
                    ELSE Fail(MemberLost("struct"))
  \/ At("fieldEnd") /\ IF ret # None /\ current = ";" THEN Take(<<D("members", "struct")>>)
                       ELSE Fail(MemberLost("struct"))

ParseFunctionDeclaration ==
  \/ At("fn") /\ Take(<<[Top EXCEPT !.at = "fnName"]>>)
  \/ At("fnName") /\
       LET then == <<F("fnReturn"), F("fnArguments")>>  named == <<F("fnTemplates")>>
       IN  CASE Top.named /\ current = "ident" -> Take(named)
             [] Top.named /\ current # "ident" -> Fail(named \o <<Sync({"[", "("})>>)
             [] ~ Top.named /\ current = "ident" -> Advance /\ Go(then, Done) /\ Report
             [] OTHER -> Jump(then)
  \/ At("fnTemplates") /\
       LET then == <<F("fnReturn"), F("fnArguments")>>
       IN  CASE ret = None -> Give(None)
             [] ret # None /\ current = "[" -> Take(then \o <<F("templates")>>)
             [] OTHER -> Jump(then)
  \/ At("fnReturn") /\
       (CASE ret = None -> Give(None)
          [] ret # None /\ current = "->"    -> Take(<<F("fnBody"), F("type")>>)
          [] ret # None /\ current = "ident" -> Fail(<<F("fnBody"), F("type")>>)
          [] OTHER -> Jump(<<F("fnBody")>>))
  \/ At("fnBody") /\
       (CASE ret = None -> Fail(<<F("fnNoType"), Sync({"{", ";"})>>)
          [] ret # None /\ current = ";" -> TakeGive(Done)
          [] ret # None /\ current = "{" -> Take(<<F("done"), F("block")>>)
          [] OTHER -> Fail(<<>>))
  \/ At("fnNoType") /\ IF ret = None THEN Give(None) ELSE Jump(<<F("fnBody")>>)

ParseFunctionArgumentList ==
  \/ At("fnArguments") /\
       (CASE ret = None -> Give(None)
          [] ret # None /\ current = "(" -> Take(<<FnArgument>>)
          [] OTHER -> Fail(<<Sync({"{", "->"})>>))
  \/ At("fnArgument") /\
       (CASE current = ")"     -> TakeGive(Done)
          [] current = "..."   -> Take(<<Close(")"), F("orReport"), F("type")>>)
          [] current = "ident" -> Take(<<F("argumentType")>>)
          [] OTHER             -> Fail(<<Synced(FnArgument), Sync({",", ")"})>>))
  \/ At("argumentType") /\ IF current = ":" THEN Take(<<F("argumentEnd"), F("type")>>)
                           ELSE Fail(<<Synced(FnArgument), Sync({",", ")"})>>)
  \/ At("argumentEnd") /\ IF ret # None THEN Jump(<<ItemEnd(FnArgument, ")")>>)
                          ELSE Fail(<<Synced(FnArgument), Sync({",", ")"})>>)

-----------------------------------------------------------------------------
(* Statements.                                                              *)

\* The loop of ParseBlock.  A `}` ends a block, the outermost one as well.
ParseBlock ==
  \/ At("block") /\
       (CASE current \in {"eof", "}"} ->
               /\ Advance /\ Go(<<>>, Done)
               /\ IF Len(stack) = 1 /\ current = "}" THEN Hide("unread") ELSE Quiet
          [] current = "extern" -> Take(<<Top, F("extern")>>)
          [] current = "fn"     -> Jump(<<Top, Fn(TRUE)>>)
          [] current \in {"struct", "interface"} -> Jump(<<Top, D("declaration", current)>>)
          [] current = "while"  -> Take(<<Top, F("block"), Expect("{"), F("condition")>>)
          [] current = "if"     -> Take(<<Top, F("else"), F("block"), Expect("{"), F("condition")>>)
          [] current = "return" -> Take(<<Top, F("return")>>)
          [] current = "throw"  -> Take(<<Top, F("returned"), F("expression")>>)
          [] current = "break"  -> Take(<<Top, Expect(";")>>)
          [] current = "let"    -> Take(<<Top, F("let")>>)
          [] current = "alias"  -> Take(<<Top, F("alias")>>)
          [] current = "import" -> Take(<<Top, [at |-> "import", root |-> Len(stack) = 1]>>)
          [] OTHER              -> Jump(<<Top, F("statement"), F("expression")>>))
  \/ At("statement") /\ IF ret = None THEN Advance /\ Go(<<>>, Done) /\ Report
                        ELSE Jump(<<Close(";")>>)

ParseBlockCondition ==
  \/ At("condition") /\ IF current = "(" THEN Take(<<F("conditionEnd"), F("expression")>>)
                        ELSE Fail(<<Sync({"{"})>>)
  \/ At("conditionEnd") /\ Jump(IF ret = None THEN <<Sync({"{"})>>
                                ELSE <<OrSync({"{"}), Expect(")")>>)
  \/ At("else") /\ IF current = "else" THEN Take(<<F("block"), Expect("{")>>) ELSE Give(Done)

ParseExternOrReturn ==
  \/ At("extern") /\
       (CASE current = "fn"     -> Jump(<<Fn(TRUE)>>)
          [] current = "struct" -> Jump(<<D("declaration", "struct")>>)
          [] OTHER              -> Fail(<<Sync({})>>))
  \/ At("return") /\ IF current = ";" THEN TakeGive(Done)
                     ELSE Jump(<<F("returned"), F("expression")>>)
  \/ At("returned") /\ IF ret = None THEN Give(None) ELSE Jump(<<Expect(";")>>)

ParseLet ==
  \/ At("let") /\ IF current = "ident" THEN Take(<<F("letType")>>) ELSE Fail(<<Sync({})>>)
  \/ At("letType") /\ IF current = ":" THEN Take(<<F("letValue"), F("orReport"), F("type")>>)
                      ELSE Jump(<<F("letValue")>>)
  \/ At("letValue") /\ IF current = "=" THEN Take(<<F("letEnd"), F("expression")>>)
                       ELSE Fail(<<Sync({})>>)
  \/ At("letEnd") /\ Jump(IF ret = None THEN <<Sync({})>> ELSE <<OrSync({}), Expect(";")>>)

ParseAlias ==
  \/ At("alias") /\ IF current = "ident" THEN Take(<<F("aliasType")>>) ELSE Fail(<<Sync({})>>)
  \/ At("aliasType") /\ IF current = "=" THEN Take(<<F("aliasEnd"), F("type")>>)
                        ELSE Fail(<<F("aliasSynced"), Sync({"="})>>)
  \/ At("aliasSynced") /\ IF ret = None THEN Give(None) ELSE Take(<<F("aliasEnd"), F("type")>>)
  \/ At("aliasEnd") /\ IF ret = None THEN Fail(<<Sync({})>>) ELSE Jump(<<Close(";")>>)

ParseImport ==
  \/ At("import") /\
       (CASE ~ Top.root -> Fail(<<Sync({})>>)
          [] Top.root /\ current = "string" -> Take(<<F("importEnd")>>)
          [] OTHER -> Fail(<<F("importPath"), Sync({"string"})>>))
  \/ At("importPath") /\ IF ret = None THEN Give(None) ELSE Take(<<F("importEnd")>>)
  \/ At("importEnd") /\ IF current = ";" THEN TakeGive(Done) ELSE Give(Done)

-----------------------------------------------------------------------------
Init ==
  /\ ret = Done /\ errors = FALSE /\ silent = {}
  /\ \/ /\ goal = None /\ stack = <<F("block")>> /\ free = MaxFree
        /\ \E o \in Openings : current = Head(o) /\ rest = Tail(o)
     \/ /\ goal \in Goals /\ stack = <<F("expression")>> /\ free = 0
        /\ current = Head(Source(goal)) /\ rest = Tail(Source(goal))

Next ==
  \/ ConsumeToken \/ SynchronizeOnError \/ Callers \/ SyncedAtItem
  \/ ParseAssignment \/ ParseBinary \/ ParseUnary \/ ParseInFix \/ ParsePostFix
  \/ ParseMember \/ ParseIndex \/ ParseCall \/ ParsePrimary
  \/ ParseType \/ ParsePrimaryType \/ ParseFunctionType \/ ParseTypeList \/ ParseTemplates
  \/ ParseDeclaration \/ ParseMembers \/ ParseFunctionDeclaration \/ ParseFunctionArgumentList
  \/ ParseBlock \/ ParseBlockCondition \/ ParseExternOrReturn
  \/ ParseLet \/ ParseAlias \/ ParseImport

\* The parser is one loop of the compiler: it takes its next step.
Spec == Init /\ [][Next]_vars /\ WF_vars(Next)

-----------------------------------------------------------------------------
(* Properties.                                                              *)

Ended == stack = <<>>

\* An index that ends an index: the second `]` is consumed with the first.  A
\* cast before `&`: what follows is taken for a part of its type.
Misread(tokens) ==
  \E i \in 2 .. Len(tokens) :
    \/ tokens[i - 1] = "]" /\ tokens[i] = "]"
    \/ i > 2 /\ tokens[i - 2] = "as" /\ tokens[i] = "&"

\* Precedence and associativity: the parser builds the tree whose source it
\* reads, and reports nothing.
ParsesBack ==
  goal # None /\ Ended /\ ~ Misread(Source(goal)) => ret = goal /\ ~ errors /\ current = "eof"

\* A list of types that no comma, closing bracket or type continues.
InTypeList ==
  At("typeMore") /\ current \notin {",", Top.end, "(", "fn", "ident"}

\* Whatever the source, parsing ends - or hangs in a list of types.
EndsOrHangs == <>(Ended \/ InTypeList)

\* A parse function that gives nothing has reported why, before or after what
\* it skipped - unless a type was not understood on the way.
GivesUpAloud == ret = None /\ ~ errors => silent # {}
=============================================================================
