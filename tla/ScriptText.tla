----------------------------- MODULE ScriptText -----------------------------
(***************************************************************************)
(* The source text a client shows for a halt.  The game keeps the output   *)
(* of its preprocessor, one text with the included files in it and `#line  *)
(* N "file"` directives between them.  Script::getScriptFromFirstLine      *)
(* cuts one file out of it, so that the client can put the marker of a     *)
(* halt, a line number, into it; getScriptLineOffset gives the column.     *)
(*                                                                         *)
(* One step is one call of the closure readLine.  The preprocessor is      *)
(* external: it goes back to the including file with the number of the     *)
(* next line, or with the number of the include line itself, whose line    *)
(* end then follows (the comment at Script.cpp:73-75).  Lines end in one   *)
(* character: with "\r\n" the directives are read in the same way (71), but *)
(* removeEmptyLines, which looks for two "\n", would find no empty line.    *)
(***************************************************************************)
EXTENDS Naturals, Sequences, SequencesExt

CONSTANTS
  MaxLines,     \* bound: lines of the outermost file, "a"
  MaxIncluded   \* bound: lines of the file it includes, "b"

ASSUME ScriptAssumption == MaxLines \in Nat \ {0} /\ MaxIncluded \in Nat \ {0}

VARIABLES
  doc,           \* the text that is read; never changes
  cur,           \* curPos, as the number of the line it is in
  curLine,       \* line number of the next line of the wanted file
  output,        \* the lines put out
  inWantedFile,
  needSourceFile,
  filename       \* the wanted file

vars ==
  <<doc, cur, curLine, output, inWantedFile, needSourceFile, filename>>

-----------------------------------------------------------------------------
(***************************************************************************)
(* Documents.  "a" may include "b", which may include "c", one line long.  *)
(***************************************************************************)
Text(f, k) == <<"text", f, k>>
Blank == <<"blank">>
Line(n, f) == <<"line", n, f>>
Include(f) == <<"include", f>>
Nul == <<"nul">>

Shapes(n) == UNION {[1..k -> {"text", "blank", "include"}] : k \in 1..n}

\* A text is compiled from the preprocessor's output, which may have been
\* appended to a line without a file, or from a plain string.  A position
\* before the first directive has no file name.
Documents ==
  {d \in [a : Shapes(MaxLines), b : Shapes(MaxIncluded),
          goesBack : {"next", "same"},          \* the number after an include
          preprocessed : BOOLEAN, appended : BOOLEAN,
          sourcefile : {"", "a", "A", "b"}] :   \* of the position, in any case
     ~d.preprocessed => d.sourcefile = "" /\ ~d.appended}

Lower(f) == IF f = "A" THEN "a" ELSE f

\* What the preprocessor makes of line k of a file that includes `other`.
LineItems(f, shape, k, other, goesBack) ==
  CASE shape[k] = "text"  -> <<Text(f, k)>>
    [] shape[k] = "blank" -> <<Blank>>
    [] OTHER -> other \o IF goesBack = "next" THEN <<Line(k + 1, f)>>
                                              ELSE <<Line(k, f), Blank>>

FileItems(f, shape, other, goesBack) ==
  <<Line(1, f)>> \o
    FlattenSeq([k \in DOMAIN shape |-> LineItems(f, shape, k, other, goesBack)])

NoFile == "none"
FirstItems(d) == IF d.appended THEN <<Text(NoFile, 1)>> ELSE <<>>

\* sourcedocpos::content, line by line; every line has a line end.
Content(d) ==
  IF d.preprocessed
  THEN FirstItems(d) \o
       FileItems("a", d.a, FileItems("b", d.b, <<Line(1, "c"), Text("c", 1)>>,
                                     d.goesBack), d.goesBack)
  ELSE [k \in DOMAIN d.a |-> IF d.a[k] = "blank" THEN Blank ELSE Text("a", k)]

content == Content(doc)

\* Without a file name the text is wanted from its first line on.
Init ==
  /\ doc \in Documents
  /\ cur = 1 /\ curLine = 1 /\ output = <<>>
  /\ needSourceFile = (doc.sourcefile = "")
  /\ inWantedFile = (doc.sourcefile = "")
  /\ filename = Lower(doc.sourcefile)

-----------------------------------------------------------------------------
\* removeEmptyLines, one turn of its loop: an empty line after another line
\* end goes, or the first line if it is empty; otherwise the text of the
\* first line turns into one more line end.
RemoveOne(lines) ==
  LET empty == {k \in 2..Len(lines) : lines[k] = Blank}
  IN CASE empty # {} ->
            RemoveAt(lines, CHOOSE k \in empty : \A j \in empty : k <= j)
       [] empty = {} /\ lines # <<>> /\ Head(lines) = Blank -> Tail(lines)
       [] empty = {} /\ lines # <<>> /\ Head(lines) # Blank ->
            <<Blank, Blank>> \o Tail(lines)
       [] OTHER -> <<Blank>>

\* Mutant: one line too few is removed.
RemoveEmptyLinesShort(lines, count) ==
  LET after[n \in 0..count] == IF n <= 1 THEN lines ELSE RemoveOne(after[n - 1])
  IN after[count]

RemoveEmptyLines(lines, count) ==
  LET after[n \in 0..count] == IF n = 0 THEN lines ELSE RemoveOne(after[n - 1])
  IN after[count]

\* Mutant: once the wanted file has been found, every line is wanted.
ReadLineMacroLatched(n, f) ==
  /\ needSourceFile' = FALSE
  /\ filename' = IF needSourceFile THEN f ELSE filename
  /\ inWantedFile' = (f = filename' \/ inWantedFile)
  /\ LET rewound == IF inWantedFile' /\ n < curLine
                    THEN RemoveEmptyLines(output, curLine - n) ELSE output
         line == IF inWantedFile' THEN n ELSE curLine
     IN IF inWantedFile
        THEN output' = Append(rewound, Include(f)) /\ curLine' = line + 1
        ELSE output' = rewound /\ curLine' = line

\* readLineMacro: `#line n "f"`.  Without a file name, the first file that is
\* named is the wanted one, and is taken for one that is included.
ReadLineMacro(n, f) ==
  /\ needSourceFile' = FALSE
  /\ filename' = IF needSourceFile THEN f ELSE filename
  /\ inWantedFile' = (f = filename')
  /\ LET rewound == IF inWantedFile' /\ n < curLine
                    THEN RemoveEmptyLines(output, curLine - n) ELSE output
         line == IF inWantedFile' THEN n ELSE curLine
     IN IF inWantedFile
        THEN output' = Append(rewound, Include(f)) /\ curLine' = line + 1
        ELSE output' = rewound /\ curLine' = line

\* Any other line; at the end of the text that is the terminating zero.
ReadText(line) ==
  /\ output' = IF inWantedFile THEN Append(output, line) ELSE output
  /\ curLine' = IF inWantedFile THEN curLine + 1 ELSE curLine
  /\ UNCHANGED <<inWantedFile, needSourceFile, filename>>

\* Mutant: one character more is read.
DoneLate == cur > Len(content) + 2

Done == cur > Len(content) + 1

\* readLine: text is left as long as curPos has not passed the end.
ReadLine ==
  /\ ~Done
  /\ IF cur <= Len(content)
     THEN IF content[cur][1] = "line"
          THEN ReadLineMacro(content[cur][2], content[cur][3])
          ELSE ReadText(content[cur])
     ELSE ReadText(Nul)
  /\ cur' = cur + 1
  /\ UNCHANGED doc

Next == ReadLine

Spec == Init /\ [][Next]_vars

-----------------------------------------------------------------------------
(***************************************************************************)
(* getScriptLineOffset: how far back the line end is.                      *)
(***************************************************************************)

\* The characters: a line of text is three of them and a line end.
Chars(lines) ==
  FlattenSeq([k \in DOMAIN lines |->
                IF lines[k] = Blank THEN <<"nl">> ELSE <<"x", "x", "x", "nl">>])

\* Mutant: the character the position is at counts as well.
LineOffsetLong(chars, pos) ==
  LET back[p \in 0..pos] ==
        IF chars[p + 1] = "nl" \/ p = 0 THEN 0 ELSE 1 + back[p - 1]
  IN back[pos]

LineOffset(chars, pos) ==
  LET back[p \in 0..pos] ==
        IF chars[p + 1] = "nl" \/ p = 0 THEN 0 ELSE 1 + back[p - 1]
  IN IF back[pos] = 0 THEN 0 ELSE back[pos] - 1

-----------------------------------------------------------------------------
(***************************************************************************)
(* Properties.                                                             *)
(***************************************************************************)

\* The lines of the file the client has asked for: the one with the position
\* or, without a name, the outermost.
Named == doc.sourcefile # "" \/ ~doc.preprocessed
Wanted == IF Lower(doc.sourcefile) = "b" THEN "b" ELSE "a"
Shape == IF Wanted = "a" THEN doc.a ELSE doc.b
Includes(shape) == {k \in DOMAIN shape : shape[k] = "include"}
InfoLine(k) ==
  IF Shape[k] = "blank" THEN Blank
  ELSE IF Shape[k] = "text" \/ ~doc.preprocessed THEN Text(Wanted, k)
  ELSE Include(IF Wanted = "a" THEN "b" ELSE "c")

\* The file is in the text, and only once.
Once == Wanted = "a" \/ \E k \in DOMAIN doc.a : Includes(doc.a) = {k}

\* Every rewind finds an empty line to remove: numbers never run back, or
\* there is an empty line before the first include.
CanRewind ==
  \/ ~doc.preprocessed \/ doc.goesBack = "next" \/ Includes(Shape) = {}
  \/ \E j \in DOMAIN Shape : /\ Shape[j] = "blank"
                             /\ \A i \in Includes(Shape) : j < i

\* Every variable has its type.
TypeOK ==
  /\ doc \in Documents
  /\ cur \in 1..Len(content) + 2
  /\ curLine \in Nat \ {0}
  /\ \A k \in DOMAIN output :
       output[k] \in {content[j] : j \in DOMAIN content}
                       \cup {Blank, Nul} \cup {Include(f) : f \in {"a", "b", "c"}}
  /\ inWantedFile \in BOOLEAN /\ needSourceFile \in BOOLEAN
  /\ filename \in {"", "a", "b"}

\* Below the last #include every line has the number it has in its file, and
\* if the preprocessor's numbers never run back every line has, with the
\* #include in place.
NumbersAreKept ==
  \A k \in DOMAIN Shape :
    (doc.goesBack = "next" \/ \A i \in Includes(Shape) : i < k)
      => k \in DOMAIN output /\ output[k] = InfoLine(k)

\* The line a client marks is the line that was executed: in the text put out
\* for a position with a file name, or in a text without directives, lines
\* keep their numbers.
LinesKeepTheirNumbers == Done /\ Named /\ Once /\ CanRewind => NumbersAreKept

\* So they do without a file name.  Not so: what comes before the first
\* directive is put out, or removed again line by line, and the directive
\* leaves a line `#include "a"` above the file.
NamelessLinesKeepTheirNumbers == Done /\ ~Named /\ CanRewind => NumbersAreKept

\* No text of another file is put out, wherever the includes are, but for the
\* lines of no file that a position without a file name is in.
OnlyTheWantedFile ==
  \A k \in DOMAIN output : output[k][1] = "text" =>
    output[k][2] = Wanted \/ (output[k][2] = NoFile /\ ~Named)

\* The column reported for a position is right but on the first line of the
\* text, where it is one short from the second column on.  Only in a plain
\* string, or with a line before it, does the first line hold instructions: the
\* preprocessor's is a directive.  (At a line end the loop does not start, and
\* reports 0.)
OffsetIsColumn ==
  cur = 1 =>
    LET chars == Chars(content)
        Column(p) == Cardinality({s \in 1..p - 1 :
                                    \A r \in s..p - 1 : chars[r] # "nl"})
        FirstLine(p) == \A r \in 1..p : chars[r] # "nl"
    IN \A p \in DOMAIN chars :
         LineOffset(chars, p - 1) =
           CASE chars[p] = "nl" \/ Column(p) = 0 -> 0
             [] FirstLine(p) /\ Column(p) > 0 -> Column(p) - 1
             [] OTHER -> Column(p)
=============================================================================
