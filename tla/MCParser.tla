------------------------------ MODULE MCParser ------------------------------
(* Short continuations of sources that lead into every parse function, and  *)
(* every expression of two operators.                                       *)
EXTENDS Parser

MCKinds ==
  {"ident", "string", "invalid", "-", "&&", "&", "=", "++", "(", ")", "[", "]", "{", "}",
   ",", ";", ":", "->", "?", "??", "as", ".", "of", "fn", "struct", "interface",
   "implements", "static", "extern", "while", "if", "else", "return", "throw", "break",
   "let", "alias", "import", "sizeof", "...", "|"}

MCOpenings ==
  {<<k>> : k \in MCKinds}
  \cup {<<"ident", ".", "of">>, <<"struct", "ident", "{">>, <<"struct", "ident", "{", "ident", ":", "ident">>,
        <<"struct", "ident", "{", "implements", "ident">>, <<"struct", "ident", "[", "ident">>,
        <<"fn", "ident", "(", "ident", ":", "ident">>, <<"fn", "ident", "(", ")", "->">>,
        <<"fn", "ident", "(", ")", "{", "let", "ident">>,
        <<"ident", ".", "of", "(", "ident">>, <<"ident", "[", "ident">>,
        <<"ident", "(", "ident">>, <<"ident", "as", "fn", "(", "ident">>,
        <<"if", "(", "ident", ")", "{">>, <<"alias", "ident", "=", "ident">>}

-----------------------------------------------------------------------------
(* A tree as the tokens of its source, with the brackets it needs.          *)

Strength(t) ==
  CASE t.node = "="  -> 0
    [] \E k \in DOMAIN Level : t.node \in Level[k] ->
         CHOOSE k \in DOMAIN Level : t.node \in Level[k]
    [] t.node \in {"prefix-", "prefix!"} -> 6
    [] t.node \in {"as", "??"} -> 7
    [] OTHER -> 8

RECURSIVE MCSource(_)
MCSource(t) ==
  LET kid(i, least) == IF Strength(t.kids[i]) >= least THEN MCSource(t.kids[i])
                       ELSE <<"(">> \o MCSource(t.kids[i]) \o <<")">>
      infix(left, right) == kid(1, left) \o <<t.node>> \o kid(2, right)
      base == IF t.kids[1].node = "chain" THEN <<"(">> \o MCSource(t.kids[1]) \o <<")">>
              ELSE kid(1, 8)
  IN  CASE t.kids = <<>>   -> <<t.node>>
        [] t.node = "="    -> infix(1, 0)
        [] t.node = "prefix-" -> <<"-">> \o kid(1, 6)
        [] t.node = "as"   -> (IF t.kids[1].node = "as" THEN kid(1, 7) ELSE kid(1, 8))
                                \o <<"as", "ident">>
        [] t.node = "??"   -> (IF t.kids[1].node = "as" THEN kid(1, 7) ELSE kid(1, 8))
                                \o <<"??">> \o kid(2, 7)
        [] t.node = "."    -> base \o <<".", "ident">>
        [] t.node = "?"    -> base \o <<"?">>
        [] t.node = "chain" -> MCSource(t.kids[1])
        [] t.node = "index" -> base \o <<"[">> \o MCSource(t.kids[2]) \o <<"]">>
        [] t.node = "call" -> base \o <<"(">> \o
             (IF Len(t.kids) = 1 THEN <<>> ELSE MCSource(t.kids[2])) \o <<")">>
        [] OTHER -> infix(Strength(t), Strength(t) + 1)

-----------------------------------------------------------------------------
Ident == Leaf("ident")
Node(n, kids) == [node |-> n, kids |-> kids]
Over(ts) ==
  {Node(op, <<l, r>>) : op \in {"=", "&&", "==", "&", "-", "*", "??", "index", "call"},
                        l \in ts, r \in ts}
    \cup {Node(op, <<t>>) : op \in {"prefix-", "as", ".", "call"}, t \in ts}
    \cup {Node("chain", <<Node(".", <<Node("?", <<t>>)>>)>>) : t \in ts}
MCGoals == Over(Over({Ident}) \cup {Ident})
=============================================================================
