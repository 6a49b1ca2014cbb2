--------------------------- MODULE MCClosureScan ---------------------------
(***************************************************************************)
(* PHP for ClosureScan: what a statement can hide or show of a function, and *)
(* closures whose parameters and bodies hold brackets of every kind.         *)
(***************************************************************************)
EXTENDS ClosureScan

Blank == Token("blank", <<" ">>)
Newline == Token("blank", <<"\n">>)
Word == Symbol("w")
End == Symbol(";")

\* Text that is not code, with words, quotes and brackets in it.
SqString == Token("string", <<"'", "\\", "'", "function", "{", "'">>)
DqString == Token("string", <<"\"", "'", "}", "\\", "\"", "\n", "(", "\"">>)
LineComment == Token("comment", <<"/", "/", "'", "}", "\n">>)
HashComment == Token("comment", <<"#", "function", "{", "\n">>)
BlockComment == Token("comment", <<"/", "*", "\"", "\n", "(", "*", "/">>)
Heredoc == Token("heredoc", <<"<", "<", "<", "L", "\n", "function", "}", "\n",
                              " ", "L">>)
Nowdoc == Token("heredoc", <<"<", "<", "<", "'", "L", "'", "\n", "'", "{", "\n",
                             "L">>)
Attribute == Token("attribute", <<"#", "[", "w", "]">>)

Body(tokens) == <<Symbol("{")>> \o tokens \o <<Symbol("}")>>
Params(tokens) == <<Symbol("(")>> \o tokens \o <<Symbol(")")>>
Function(params, body) ==
  <<Symbol("function"), Blank>> \o Params(params) \o Body(body)
Nested == Function(<<>>, Body(<<Word, End>>))

MCStatements ==
  {<<SqString, End>>, <<DqString, End>>, <<HashComment>>, <<BlockComment>>,
   <<Heredoc, End>>, <<Nowdoc, End>>,
   <<Token("name", <<"$", "function">>), End>>,
   <<Symbol("function"), Blank, Word>> \o Params(<<>>) \o Body(<<>>),
   <<Token("arrow", <<"w">>)>> \o Params(<<>>) \o <<Word, End>>,
   Function(<<>>, <<LineComment>>) \o <<End>>,
   Function(<<SqString>>, <<BlockComment>>) \o <<End>>,
   <<Attribute, Blank, Symbol("static"), Blank>>
     \o Function(<<>>, <<DqString, End>>) \o <<End>>,
   <<Symbol("static"), Blank>> \o Function(<<Word>>, Nested) \o <<End>>,
   Function(<<>>, <<Heredoc, End>>) \o <<End>>,
   <<Word, Blank, Symbol("static"), Newline>> \o Function(<<>>, <<>>) \o <<End>>}
MCSeparators == {<<Blank>>, <<Newline>>}
=============================================================================
