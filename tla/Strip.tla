-------------------------------- MODULE Strip --------------------------------
(***************************************************************************)
(* strip_comments_and_strings of src/src/analyze.rs, which analyze_file    *)
(* applies to each line of a file before any rule looks at it, run side by *)
(* side with the lexer of Rust.  The text is fed one character at a time   *)
(* through the window the two lexers look ahead in, so a run covers texts  *)
(* of every length.  The characters are classes: those that matter to      *)
(* either lexer, an "r" that may open a raw string, and the rest.          *)
(***************************************************************************)
EXTENDS Naturals

CONSTANT MaxDepth    \* bound on the nesting of block comments

ASSUME DepthAssumption == MaxDepth \in Nat \ {0}

Chars == {"slash", "star", "quote", "tick", "backslash", "r", "other", "newline"}

VARIABLES
  win,      \* the next three characters: <<c, peek, the one after>>
  mode,     \* the in_ flags of the code, "code" when none is set
  skip,     \* chars.next() has taken the next character with the last one
  kept,     \* the last character was copied to the stripped line
  rmode,    \* what the last character left Rust's lexer in
  rskip,    \* the next character belongs to the token of the last one
  nesting,    \* of Rust's nested block comments
  real,     \* the last character was code to Rust
  comment,  \* ... or part of a comment
  plain     \* history: nothing on this line is beyond a lexer of single lines

code == <<mode, skip, kept>>
rust == <<rmode, rskip, nesting, real, comment>>
lexVars == <<win, code, rust, plain>>

Modes == {"code", "line", "block", "string", "char"}

LexTypeOK ==
  /\ win \in Chars \X Chars \X Chars
  /\ mode \in Modes
  /\ rmode \in Modes \cup {"raw"}
  /\ nesting \in Nat
  /\ skip \in BOOLEAN /\ kept \in BOOLEAN /\ rskip \in BOOLEAN
  /\ real \in BOOLEAN /\ comment \in BOOLEAN /\ plain \in BOOLEAN

c == win[1]
peek == win[2]
Pair(x, y) == c = x /\ peek = y

LexInit ==
  /\ win \in Chars \X Chars \X Chars
  /\ mode = "code" /\ skip = FALSE /\ kept = FALSE
  /\ rmode = "code" /\ rskip = FALSE /\ nesting = 0
  /\ real = FALSE /\ comment = FALSE
  /\ plain = TRUE

\* Definitions whose names end in Fault are the definition after them with a
\* plausible bug in it; the model never uses them.
-----------------------------------------------------------------------------
(***************************************************************************)
(* The code                                                                *)
(***************************************************************************)
Becomes(m, s, k) == mode' = m /\ skip' = s /\ kept' = k

\* Every line is stripped on its own.
NextLine == Becomes("code", FALSE, FALSE)

SkipNext == Becomes(mode, FALSE, FALSE)

InCode ==
  \/ Pair("slash", "slash") /\ Becomes("line", FALSE, FALSE)
  \/ Pair("slash", "star") /\ Becomes("block", TRUE, FALSE)
  \/ c = "quote" /\ Becomes("string", FALSE, FALSE)
  \/ c = "tick" /\ Becomes("char", FALSE, FALSE)
  \/ /\ c \notin {"quote", "tick"} /\ ~Pair("slash", "slash") /\ ~Pair("slash", "star")
     /\ Becomes("code", FALSE, TRUE)

InBlock ==
  \/ Pair("star", "slash") /\ Becomes("code", TRUE, FALSE)
  \/ ~Pair("star", "slash") /\ Becomes("block", FALSE, FALSE)

\* in_string and in_char: a backslash takes the next character with it.
InLiteralFault(end) ==
  \/ c = end /\ Becomes("code", FALSE, FALSE)
  \/ c # end /\ Becomes(mode, FALSE, FALSE)
InLiteral(end) ==
  \/ c = "backslash" /\ Becomes(mode, TRUE, FALSE)
  \/ c = end /\ Becomes("code", FALSE, FALSE)
  \/ c \notin {"backslash", end} /\ Becomes(mode, FALSE, FALSE)

Strip ==
  \/ c = "newline" /\ NextLine
  \/ /\ c # "newline"
     /\ \/ skip /\ SkipNext
        \/ ~skip /\ mode = "code" /\ InCode
        \/ ~skip /\ mode = "line" /\ Becomes("line", FALSE, FALSE)
        \/ ~skip /\ mode = "block" /\ InBlock
        \/ ~skip /\ mode = "string" /\ InLiteral("quote")
        \/ ~skip /\ mode = "char" /\ InLiteral("tick")
-----------------------------------------------------------------------------
(***************************************************************************)
(* Rust                                                                    *)
(***************************************************************************)
Lexes(m, s, d) == rmode' = m /\ rskip' = s /\ nesting' = d
Is(isCode, isComment) == real' = isCode /\ comment' = isComment

\* A tick opens a character literal, or is the mark of a lifetime.
Literal == peek = "backslash" \/ (peek \notin {"tick", "newline"} /\ win[3] = "tick")
Lifetime == ~rskip /\ rmode = "code" /\ c = "tick" /\ ~Literal
Nested == ~rskip /\ rmode = "block" /\ Pair("slash", "star")
RawEscape == ~rskip /\ rmode = "raw" /\ c = "backslash"

RustInCode ==
  \/ Pair("slash", "slash") /\ Lexes("line", FALSE, 0) /\ Is(FALSE, TRUE)
  \/ Pair("slash", "star") /\ Lexes("block", TRUE, 1) /\ Is(FALSE, TRUE)
  \/ c = "quote" /\ Lexes("string", FALSE, 0) /\ Is(FALSE, FALSE)
  \/ c = "tick" /\ Literal /\ Lexes("char", FALSE, 0) /\ Is(FALSE, FALSE)
  \/ Pair("r", "quote") /\ Lexes("raw", TRUE, 0) /\ Is(TRUE, FALSE)
  \/ /\ c \notin {"quote", "newline"} /\ ~(c = "tick" /\ Literal) /\ ~Pair("r", "quote")
     /\ ~Pair("slash", "slash") /\ ~Pair("slash", "star")
     /\ Lexes("code", FALSE, 0) /\ Is(TRUE, FALSE)

RustInBlock ==
  /\ \/ Pair("slash", "star") /\ Lexes("block", TRUE, nesting + 1)
     \/ Pair("star", "slash") /\ Lexes(IF nesting = 1 THEN "code" ELSE "block", TRUE, nesting - 1)
     \/ ~Pair("slash", "star") /\ ~Pair("star", "slash") /\ Lexes("block", FALSE, nesting)
  /\ Is(FALSE, TRUE)

RustInLiteral(end, escapes) ==
  /\ \/ c = "backslash" /\ escapes /\ Lexes(rmode, TRUE, 0)
     \/ c = end /\ Lexes("code", FALSE, 0)
     \/ c # end /\ (c = "backslash" => ~escapes) /\ Lexes(rmode, FALSE, 0)
  /\ Is(FALSE, FALSE)

\* Comments of the line and (to let the text go on) characters end with the
\* line; blocks and strings go on.
RustLine ==
  /\ Lexes(IF rmode \in {"line", "char"} THEN "code" ELSE rmode, FALSE, nesting)
  /\ Is(FALSE, FALSE)

Rust ==
  \/ c = "newline" /\ RustLine
  \/ /\ c # "newline"
     /\ \/ rskip /\ Lexes(rmode, FALSE, nesting) /\ Is(FALSE, comment)
        \/ ~rskip /\ rmode = "code" /\ RustInCode
        \/ ~rskip /\ rmode = "line" /\ Lexes("line", FALSE, 0) /\ Is(FALSE, TRUE)
        \/ ~rskip /\ rmode = "block" /\ RustInBlock
        \/ ~rskip /\ rmode = "string" /\ RustInLiteral("quote", TRUE)
        \/ ~rskip /\ rmode = "char" /\ RustInLiteral("tick", TRUE)
        \/ ~rskip /\ rmode = "raw" /\ RustInLiteral("quote", FALSE)

\* A line is plain up to the first thing on it that takes more than the line
\* to lex: what an earlier line left open, a nested comment, a lifetime, a
\* backslash in a raw string.
Watch ==
  plain' = IF c = "newline" THEN rmode' = "code"
           ELSE plain /\ ~Lifetime /\ ~Nested /\ ~RawEscape

\* The text goes on; comments nest no deeper than the bound.
Read ==
  \E next \in Chars :
    /\ win[3] = "slash" /\ next = "star" => nesting' < MaxDepth
    /\ win' = <<win[2], win[3], next>>

LexNext == Strip /\ Rust /\ Watch /\ Read

LexSpec == LexInit /\ [][LexNext]_lexVars
-----------------------------------------------------------------------------
(***************************************************************************)
(* Properties                                                              *)
(***************************************************************************)

\* As far as a line is plain the two lexers are in step.
InStep ==
  plain =>
    /\ mode = IF rmode # "raw" THEN rmode ELSE IF rskip THEN "code" ELSE "string"
    /\ skip <=> rskip /\ rmode # "raw"
    /\ nesting \in {0, 1}

\* The rules see exactly the code of a line, whatever the lines before it held,
\* as far as the line is plain: no comment or literal is matched (a false
\* positive) and no code is blanked (a hidden finding, or a brace that throws
\* the function spans off) (analyze.rs:227-288).
SeesTheCode == plain => (kept <=> real)

-----------------------------------------------------------------------------
(***************************************************************************)
(* A statement of the source the code does not keep                        *)
(***************************************************************************)

\* "Strip // and /* */ comments ... so rule matches do not fire on
\* commented-out or illustrative code" (analyze.rs:223-224).
CommentsDropped == comment => ~kept
=============================================================================
