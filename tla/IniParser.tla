------------------------------ MODULE IniParser ------------------------------
(***************************************************************************)
(* iniparser/src/iniparser.c: iniparser_load() reads an ini file line by   *)
(* line into a dictionary.  Any line may be cut in two by a backslash at   *)
(* the end of the first half, and a half likewise.                         *)
(*                                                                         *)
(* A line is a sequence of tokens: the characters with a meaning, names    *)
(* and values, and what is between them.  A name is in lower case and may  *)
(* be two tokens, its first character and the rest.  Blanks around names   *)
(* and values are left out, and a backslash is nothing but the end of a    *)
(* half.                                                                   *)
(***************************************************************************)
EXTENDS Dictionary, Sequences

CONSTANTS
  Tokens,    \* what lines and names are made of
  Lines,     \* the lines a file may have
  Sections,  \* the sections it may be in
  (* Bounds of the model. *)
  MaxLines

VARIABLES
  file,      \* the lines read so far
  coming,    \* the line that is being read, and how many of its tokens were
  line,      \* the buffer: what has been read of a line that goes on
  section,   \* the current section
  errs,      \* errs # 0
  load,      \* idle, reading, loaded, killed, or failed: iniparser_load() returned NULL
  lack       \* history: what there was no memory for, for each line

iniVars == <<dictVars, file, coming, line, section, errs, load, lack>>

-----------------------------------------------------------------------------
(* iniparser_line() *)

Comment == {"#", ";"}
Quotes == {"\"", "'"}

\* sscanf() with %[^...]: up to the first of these.
UpTo(text, stops) ==
  LET at == {i \in DOMAIN text : text[i] \in stops} IN
    IF at = {} THEN text ELSE SubSeq(text, 1, First(at) - 1)

From(text, i) == SubSeq(text, i, Len(text))

\* The value after "=": in quotes, or up to a comment.  A quote that is not closed
\* goes to the end, and sscanf() finds nothing in a pair without a character.
ValueIn(text) ==
  LET quoted == UpTo(From(text, 2), {text[1]})
      plain == UpTo(text, Comment)
  IN  IF text # << >> /\ text[1] \in Quotes /\ quoted # << >> THEN quoted
      ELSE IF \E q \in Quotes : plain = <<q, q>> THEN << >>
      ELSE plain

Line(kind, name, val) == [kind |-> kind, name |-> name, val |-> val]

iniparser_line(text) ==
  LET name == UpTo(text, {"="}) IN
  IF text = << >> THEN Line("empty", << >>, NULL)
  ELSE IF text[1] \in Comment THEN Line("comment", << >>, NULL)
  ELSE IF text[1] = "[" /\ text[Len(text)] = "]"
    THEN Line("section", UpTo(From(text, 2), {"]"}), NULL)
  ELSE IF name # << >> /\ name # text
    THEN Line("value", name, ValueIn(From(text, Len(name) + 2)))
  ELSE Line("error", << >>, NULL)

\* With nothing between the brackets sscanf() leaves the section alone, and
\* strlwc() cuts it to as many characters as the line has but one.
SectionIn(l, before) ==
  IF l.name # << >> \/ before = << >> THEN l.name ELSE SubSeq(before, 1, 1)

KeyIn(name, in) == in \o <<":">> \o name

ASSUME IniAssumption ==
  /\ Comment \cup Quotes \cup {"[", "]", "=", ":"} \subseteq Tokens /\ MaxLines \in Nat
  /\ << >> \in Sections /\ Sections \subseteq Keys \cap Seq(Tokens)
  /\ \A s \in Sections : s # << >> => SubSeq(s, 1, 1) \in Sections
  /\ \A text \in Lines :
       LET l == iniparser_line(text) IN
       /\ text \in Seq(Tokens) /\ l.name \in Seq(Tokens)
       /\ l.kind = "section" =>
            /\ l.name \in Sections
            /\ l.name = << >> => Len(text) = 2
       /\ l.kind = "value" =>
            /\ l.val \in Values
            /\ \A s \in Sections : KeyIn(l.name, s) \in Keys

-----------------------------------------------------------------------------

Nothing == [text |-> << >>, at |-> 0]

IniInit ==
  /\ DictInit
  /\ file = << >> /\ coming = Nothing /\ line = << >> /\ section = << >> /\ errs = FALSE
  /\ load = "idle" /\ lack = << >>

\* iniparser_load() up to the loop: fopen() or dictionary_new() may fail.
OpenIni ==
  /\ load = "idle"
  /\ load' \in {"reading", "failed"}
  /\ UNCHANGED <<dictVars, file, coming, line, section, errs, lack>>

\* dictionary_set(), which ends the loop if it fails.
Assign(key, val) ==
  \/ \E short \in Missing(dict, key, val) :
       /\ SetKey(key, val, short)
       /\ lack' = Append(lack, short)
       /\ load' = IF short # "slots" THEN "reading"
                  ELSE IF errs THEN "failed" ELSE "loaded"
  \/ /\ UseNull(Arrays)
     /\ lack' = Append(lack, "nothing") /\ load' = "killed"

Harmless == lack' = Append(lack, "nothing") /\ UNCHANGED <<dictVars, load>>

\* Wrong on purpose: a value goes to the section of the file's first line.
ProcessInFirstSection(text) ==
  LET l == iniparser_line(text) IN
  \/ /\ l.kind = "section"
     /\ section' = IF section = << >> THEN SectionIn(l, section) ELSE section
     /\ Assign(section', NULL) /\ UNCHANGED errs
  \/ /\ l.kind = "value" /\ Assign(KeyIn(l.name, section), l.val)
     /\ UNCHANGED <<section, errs>>
  \/ l.kind \in {"empty", "comment"} /\ Harmless /\ UNCHANGED <<section, errs>>
  \/ l.kind = "error" /\ errs' = TRUE /\ Harmless /\ UNCHANGED section

\* What is done with a line.
Process(text) ==
  LET l == iniparser_line(text) IN
  \/ /\ l.kind = "section"
     /\ section' = SectionIn(l, section)
     /\ Assign(section', NULL)
     /\ UNCHANGED errs
  \/ /\ l.kind = "value"
     /\ Assign(KeyIn(l.name, section), l.val)
     /\ UNCHANGED <<section, errs>>
  \/ l.kind \in {"empty", "comment"} /\ Harmless /\ UNCHANGED <<section, errs>>
  \/ l.kind = "error" /\ errs' = TRUE /\ Harmless /\ UNCHANGED section

\* There is no memory for iniparser_line()'s copy: the line is an empty one.
TakeForEmpty ==
  /\ Cardinality({i \in DOMAIN lack : lack[i] = "line"}) < MaxShortages
  /\ lack' = Append(lack, "line")
  /\ UNCHANGED <<dictVars, section, errs, load>>

\* iniparser_load() gives up.
Discard ==
  \/ dictionary_del /\ load' = "failed"
  \/ UseNull({"key", "val"}) /\ load' = "killed"

\* A round of the loop: fgets() reads tokens of the line up to the n-th, behind
\* those in the buffer.  There may be more than the buffer holds.
ReadLine(text, n) ==
  /\ load = "reading"
  /\ IF coming = Nothing THEN Len(file) < MaxLines ELSE text = coming.text
  /\ n >= coming.at
  /\ LET all == line \o SubSeq(text, coming.at + 1, n) IN
       \/ /\ Discard
          /\ UNCHANGED <<file, coming, line, section, errs, lack>>
       \/ /\ n > coming.at
          /\ coming' = [text |-> text, at |-> n] /\ line' = all
          /\ UNCHANGED <<dictVars, file, section, errs, load, lack>>
       \/ /\ n = Len(text)
          /\ coming' = Nothing /\ line' = << >>
          /\ file' = Append(file, text)
          /\ Process(all) \/ TakeForEmpty

\* The end of the file.  A line that would go on is dropped.
EndOfFile ==
  /\ load = "reading"
  /\ IF errs THEN Discard ELSE load' = "loaded" /\ UNCHANGED dictVars
  /\ UNCHANGED <<file, coming, line, section, errs, lack>>

iniparser_load ==
  \/ OpenIni
  \/ \E text \in Lines : \E n \in 0 .. Len(text) : ReadLine(text, n)
  \/ EndOfFile

-----------------------------------------------------------------------------

\* What a file says, without a dictionary and a section to keep track of.
Headers(f, gone) ==
  {i \in DOMAIN f : gone[i] # "line" /\ iniparser_line(f[i]).kind = "section"}

\* Line i is under the header of section s.
Under(f, gone, i, s) ==
  \E h \in Headers(f, gone) :
    /\ h < i /\ iniparser_line(f[h]).name = s
    /\ \A g \in Headers(f, gone) : ~(h < g /\ g < i)

\* The lines that say something of the key "s:k", for which there was memory.
About(f, gone, s, k) ==
  {i \in DOMAIN f :
     LET l == iniparser_line(f[i]) IN
     /\ gone[i] \notin {"line", "key", "slots"}
     /\ \/ l.kind = "value" /\ l.name = <<k>> /\ Under(f, gone, i, s)
        \/ l.kind = "section" /\ l.name = KeyIn(<<k>>, s)}

\* The last of them counts.
Says(f, gone, s, k, def) ==
  LET about == About(f, gone, s, k)
      last == CHOOSE i \in about : \A j \in about : j <= i
  IN  IF about = {} THEN def
      ELSE IF gone[last] = "val" THEN NULL
      ELSE iniparser_line(f[last]).val
=============================================================================
