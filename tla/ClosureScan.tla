---------------------------- MODULE ClosureScan ----------------------------
(***************************************************************************)
(* bridge_closure.c, first half: finding the text of a closure in its source *)
(* file from nothing but the line PHP reports for it.  A file is a sequence  *)
(* of PHP tokens, which the properties use, and of bytes, which is all the   *)
(* scanner sees.  The words `function` and `static`, heredoc labels and all  *)
(* other identifier bytes are single symbols.                                *)
(***************************************************************************)
EXTENDS Integers, Sequences, FiniteSets, SequencesExt, FiniteSetsExt

CONSTANTS Statements,      \* token sequences a file is made of
          Separators,      \* token sequences between two of them
          MaxStatements    \* bound on the length of a file

VARIABLES file,   \* the tokens of the file
          size,   \* statements in it
          asked,  \* token of the closure passed to go()
          got     \* the slice extract_closure_text copies, or Failure

vars == <<file, size, asked, got>>

\* A token: its kind, and its bytes.  Words and punctuation are their own kind.
Token(kind, text) == [kind |-> kind, text |-> text]
Symbol(c) == Token(c, <<c>>)

Slice(start, end) == [start |-> start, end |-> end]
Failure == Slice(0, 0)
Bytes(tokens) == FlattenSeq([t \in DOMAIN tokens |-> tokens[t].text])

-----------------------------------------------------------------------------
\* The scanner.  Positions are 1 .. Len(src); 0 is the code's -1.

At(src, i) == IF i \in DOMAIN src THEN src[i] ELSE "EOF"
IdentBytes == {"w", "function", "static", "L"}
is_ident_byte(c) == c \in IdentBytes
is_blank(c) == c \in {" ", "\t"}

\* Offset of the first byte of a line.
Newlines(src) == {i \in DOMAIN src : src[i] = "\n"}

offset_of_line(src, line) ==
  IF line <= 1 THEN 1
  ELSE 1 + CHOOSE i \in Newlines(src) :
             Cardinality(Newlines(src) \cap 1..i) = line - 1

\* The switch all three loops share: the state and position after the byte at i.
Goes(st, i) == [st |-> st, i |-> i]

\* Mutant: an attribute is taken for a comment.
IsHash_any(src, i) == At(src, i) = "#"

IsHash(src, i) == At(src, i) = "#" /\ At(src, i + 1) # "["

LexString(src, i, st, quote) ==
  CASE At(src, i) = "\\" /\ At(src, i + 1) # "EOF" -> Goes(st, i + 2)
    [] At(src, i) = quote -> Goes("normal", i + 1)
    [] OTHER -> Goes(st, i + 1)

LexNormal(src, i) ==
  LET c == At(src, i)
      n == At(src, i + 1)
  IN CASE c = "'" -> Goes("sq", i + 1)
       [] c = "\"" -> Goes("dq", i + 1)
       [] c = "/" /\ n = "/" -> Goes("line", i + 2)
       [] IsHash(src, i) -> Goes("line", i + 1)
       [] c = "/" /\ n = "*" -> Goes("block", i + 2)
       [] OTHER -> Goes("normal", i + 1)

Lex(src, i, st) ==
  CASE st = "normal" -> LexNormal(src, i)
    [] st = "sq" -> LexString(src, i, st, "'")
    [] st = "dq" -> LexString(src, i, st, "\"")
    [] st = "line" -> Goes(IF At(src, i) = "\n" THEN "normal" ELSE st, i + 1)
    [] st = "block" -> IF At(src, i) = "*" /\ At(src, i + 1) = "/"
                       THEN Goes("normal", i + 2) ELSE Goes(st, i + 1)

\* First position from i on that is not a blank.
RECURSIVE SkipBlanks(_, _)
SkipBlanks(src, i) == IF is_blank(At(src, i)) THEN SkipBlanks(src, i + 1) ELSE i

\* Past a heredoc whose operator is at i: one byte after the closing label, or
\* the end of the file.  A label in double quotes is read as an empty one, which
\* closes at the first line that does not begin with an identifier.
HeredocEnd(src, i) ==
  LET quote == SkipBlanks(src, i + 3)
      label == IF At(src, quote) = "'" THEN quote + 1 ELSE quote
      Len1 == IF is_ident_byte(At(src, label)) THEN 1 ELSE 0
      Closing(j) ==
        LET k == SkipBlanks(src, j + 1)
        IN /\ src[j] = "\n"
           /\ Len1 = 1 => At(src, k) = src[label]
           /\ ~is_ident_byte(At(src, k + Len1))
      Ends == {j \in label .. Len(src) : Closing(j)}
  IN IF Ends = {} THEN Len(src) + 1
     ELSE SkipBlanks(src, Min(Ends) + 1) + Len1 + 1

\* Mutant: heredocs are not known.
IsHeredoc_never(src, i) == FALSE

IsHeredoc(src, i) == \A j \in i .. i + 2 : At(src, j) = "<"

IsWord(src, i, word) == /\ At(src, i) = word
                        /\ ~is_ident_byte(At(src, i - 1))
                        /\ ~is_ident_byte(At(src, i + 1))

RECURSIVE scan_find_keyword(_, _, _, _)
scan_find_keyword(src, i, st, word) ==
  IF i > Len(src) THEN 0
  ELSE IF st = "normal" /\ IsHeredoc(src, i)
  THEN scan_find_keyword(src, HeredocEnd(src, i), st, word)
  ELSE IF st = "normal" /\ IsWord(src, i, word) THEN i
  ELSE LET next == Lex(src, i, st)
       IN scan_find_keyword(src, next.i, next.st, word)

\* How a byte changes a depth: brackets count only in code.
Depth(src, i, st, depth, open, close) ==
  IF st # "normal" THEN depth
  ELSE CASE At(src, i) = open -> depth + 1
         [] At(src, i) = close -> depth - 1
         [] OTHER -> depth

\* The brace that opens the body: outside all parentheses.
RECURSIVE find_brace(_, _, _, _)
find_brace(src, i, st, parens) ==
  IF i > Len(src) THEN 0
  ELSE IF st = "normal" /\ At(src, i) = "{" /\ parens = 0 THEN i
  ELSE LET next == Lex(src, i, st)
       IN find_brace(src, next.i, next.st, Depth(src, i, st, parens, "(", ")"))

\* The position after the brace that closes the one at the start.
RECURSIVE scan_brace_match(_, _, _, _)
scan_brace_match(src, i, st, depth) ==
  IF i > Len(src) THEN 0
  ELSE LET next == Lex(src, i, st)
           deep == Depth(src, i, st, depth, "{", "}")
       IN IF deep = 0 /\ st = "normal" /\ At(src, i) = "}" THEN i + 1
          ELSE scan_brace_match(src, next.i, next.st, deep)

\* Left over blanks and one or more `static`, though not one at the very start
\* of the line.
RECURSIVE walk_left(_, _, _)
walk_left(src, start, line_off) ==
  LET Stops == {s \in line_off .. start - 1 : s = line_off \/ ~is_blank(src[s])}
      s == Max(Stops)
  IN IF start > line_off /\ s > line_off /\ IsWord(src, s, "static")
     THEN walk_left(src, s, line_off) ELSE start

extract_closure_text(src, line) ==
  LET line_off == offset_of_line(src, line)
      fn_off == scan_find_keyword(src, line_off, "normal", "function")
      brace_open == IF fn_off = 0 THEN 0 ELSE find_brace(src, fn_off, "normal", 0)
      body_end == IF brace_open = 0 THEN 0
                  ELSE scan_brace_match(src, brace_open, "normal", 0)
  IN IF body_end = 0 THEN Failure
     ELSE Slice(walk_left(src, fn_off, line_off), body_end)

-----------------------------------------------------------------------------
\* What PHP sees in the same file.

Kind(t) == file[t].kind
Before(t) == SubSeq(file, 1, t - 1)
StartOf(t) == 1 + Len(Bytes(Before(t)))
LineOf(t) == 1 + Cardinality(Newlines(Bytes(Before(t))))
Braces(t, e) == {u \in t .. e : Kind(u) = "{"}
Closings(t, e) == {u \in t .. e : Kind(u) = "}"}

\* The token that closes the body of the function at t: the first at which as
\* many braces are closed as were opened.
BodyEnd(t) ==
  Min({e \in t .. Len(file) : /\ Kind(e) = "}"
                              /\ Cardinality(Braces(t, e)) = Cardinality(Closings(t, e))})

\* Tokens PHP makes a Closure of: a function without a name, an arrow function.
Anonymous(t) ==
  Kind(t) = "function" /\
  Kind(Min({u \in t + 1 .. Len(file) : Kind(u) # "blank"})) = "("
Closures == {t \in DOMAIN file : Kind(t) = "arrow" \/ Anonymous(t)}

\* The `static` before it, or the closure itself.
Header(t) ==
  LET Code == {u \in 1 .. t - 1 : Kind(u) # "blank"}
  IN IF Code # {} /\ Kind(Max(Code)) = "static" THEN Max(Code) ELSE t
Text(t) == Slice(StartOf(Header(t)), StartOf(BodyEnd(t)) + 1)

-----------------------------------------------------------------------------
\* Files that PHP compiles, and any closure of one of them passed to go().

OpenTag == Token("open tag", <<"<", "?", "w">>)
Init == file = <<OpenTag>> /\ size = 0 /\ asked = 0 /\ got = Failure

Write == /\ asked = 0 /\ size < MaxStatements
         /\ \E separator \in Separators, statement \in Statements :
              file' = file \o separator \o statement
         /\ size' = size + 1
         /\ UNCHANGED <<asked, got>>

Go == /\ asked = 0 /\ asked' \in Closures
      /\ got' = extract_closure_text(Bytes(file), LineOf(asked'))
      /\ UNCHANGED <<file, size>>

Next == Write \/ Go

Spec == Init /\ [][Next]_vars

-----------------------------------------------------------------------------
\* Properties.

LineStart(t) == Max({0} \cup {i \in Newlines(Bytes(file)) : i < StartOf(t)}) + 1

\* The line begins in code, not inside a string, comment or heredoc.
InCode(t) == \A u \in 1 .. t - 1 :
               StartOf(u) < LineStart(t) => StartOf(u + 1) <= LineStart(t)

\* Nothing on the line before the closure looks like a function.
FirstOnLine(t) ==
  \A u \in 1 .. t - 1 :
    LineOf(u) = LineOf(t) => Kind(u) \notin {"function", "name"}

NoHeredoc(t) == \A u \in t .. BodyEnd(t) : Kind(u) # "heredoc"

\* The `static` before a function, if any, comes after a position, and only
\* blanks come between.
StaticInSight(t, from) ==
  Header(t) # t => /\ StartOf(Header(t)) > from
                   /\ \A u \in Header(t) + 1 .. t - 1 : file[u].text = <<" ">>

\* Whatever the file holds before it and after it, in code, strings, comments
\* and heredocs, and whatever strings, comments and nested functions hold inside
\* it, a closure alone on its line is copied in full and without a byte too many
\* (bridge_closure.c:222-338).
CopiesTheClosure ==
  asked # 0 /\ Kind(asked) = "function" /\ InCode(asked) /\ FirstOnLine(asked)
    /\ NoHeredoc(asked) /\ StaticInSight(asked, LineStart(asked))
  => got = Text(asked)

\* What is copied in any case, for the second closure of a line and for an arrow
\* function too: the first function from the start of the line on, however far
\* down and behind whatever strings, comments and heredocs, named or not, and
\* without a `static` at the very start of the line or on the line before; or
\* nothing, if the file has no more functions; and be the line in code or not,
\* it is part of the file and begins on that line or after (bridge_closure.c:95-338).
CopiesTheFirstFunction ==
  /\ got # Failure => /\ LineStart(asked) <= got.start /\ got.start < got.end
                      /\ got.end <= Len(Bytes(file)) + 1
  /\ asked # 0 /\ InCode(asked) =>
    LET from == LineStart(asked)
        Functions == {t \in DOMAIN file : /\ Kind(t) \in {"function", "name"}
                                         /\ StartOf(t) >= from}
        first == Min(Functions)
    IN IF Functions = {} THEN got = Failure
       ELSE Kind(first) = "function" /\ NoHeredoc(first) =>
              got = Slice(IF StaticInSight(first, from) THEN Text(first).start
                          ELSE StartOf(first), Text(first).end)

-----------------------------------------------------------------------------
\* What documents and comments say, and the code does not do.

\* CHANGELOG:35: heredocs are skipped before the body's braces are balanced.
HeredocsSkipped ==
  asked # 0 /\ Kind(asked) = "function" /\ InCode(asked) /\ FirstOnLine(asked)
    /\ StaticInSight(asked, LineStart(asked))
  => got = Text(asked)
=============================================================================
