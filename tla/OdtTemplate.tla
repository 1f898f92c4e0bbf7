---------------------------- MODULE OdtTemplate ----------------------------
(***************************************************************************)
(* The ODT command line, main.py: it fills the markers of a template with  *)
(* JSON data and has LibreOffice convert the result.  Several runs may     *)
(* share an output directory, where each conversion leaves modified.pdf    *)
(* until it is moved.                                                      *)
(*                                                                         *)
(* A text is a sequence of tokens: words, markers of variables, and the    *)
(* opening and closing markers of loops.  A value of the data is a text    *)
(* itself, and so may hold markers.                                        *)
(***************************************************************************)
EXTENDS Naturals, Sequences, FiniteSetsExt, SequencesExt

CONSTANTS
  Run,        \* processes that run the command
  Case,       \* what to start from: the jobs of the runs and the files there are
  Name,       \* names of output files; "modified" is the name LibreOffice gives
  Dir,        \* output directories
  Absent,     \* no file
  Other,      \* a file that was there before
  MaxTokens   \* bound on the length of a text

ASSUME NameAssumption == "modified" \in Name
ASSUME TokensAssumption == MaxTokens \in Nat

VARIABLES
  job,      \* [parts, data, source, office, dir, name] of each run
  pc,       \* where each run is
  content,  \* its content.xml
  files,    \* the PDFs in the output directories
  quiet     \* ghost: runs whose LibreOffice ended well and wrote nothing

vars == <<job, pc, content, files, quiet>>

-----------------------------------------------------------------------------
(* Texts.                                                                  *)

Word(w) == [kind |-> "word", name |-> w]
Var(n) == [kind |-> "var", name |-> n]
For(n) == [kind |-> "for", name |-> n]
End == [kind |-> "end", name |-> ""]

Token == [kind : {"word", "var", "for", "end"}, name : STRING]

\* What json.loads makes of a name: a text or a list, of objects (with values, of which
\* those that are no list have a text) and of anything else.
IsData(data) ==
  \A n \in DOMAIN data :
    IF data[n].type = "list"
    THEN /\ Len(data[n].items) \in Nat /\ DOMAIN data[n].items = 1..Len(data[n].items)
         /\ \A i \in DOMAIN data[n].items : data[n].items[i].type = "object" =>
              \A f \in DOMAIN data[n].items[i].at :
                \/ data[n].items[i].at[f].type = "list"
                \/ data[n].items[i].at[f].text \in Seq(Token)
    ELSE data[n].type = "text" /\ data[n].text \in Seq(Token)

\* A case has a job for each run and nothing but earlier files.
ASSUME CaseAssumption ==
  \A c \in Case :
    /\ \A p \in Run : /\ c.job[p].parts \in Seq([loop : STRING, text : Seq(Token)])
                       /\ IsData(c.job[p].data)
                       /\ c.job[p].dir \in Dir /\ c.job[p].name \in Name
    /\ c.files \in [Dir \X Name -> {Absent, Other}]

Positions(text, kind) == {i \in DOMAIN text : text[i].kind = kind}

\* A value is a text or a list; a list has its representation as text.  A name that the
\* data does not have is empty.
ValueOf(data, name) ==
  IF name \notin DOMAIN data THEN <<>>
  ELSE IF data[name].type = "list" THEN <<Word("repr")>> ELSE data[name].text

\* Metacharacters become entities; those of markers are left alone.
Escaped(text) == [i \in DOMAIN text |->
                    IF text[i].kind = "word" THEN [text[i] EXCEPT !.kind = "escaped"]
                    ELSE text[i]]

\* replace_variables_in_text.
ReplaceVariables(text, data) ==
  FlattenSeq([i \in DOMAIN text |-> IF text[i].kind = "var"
                                    THEN Escaped(ValueOf(data, text[i].name))
                                    ELSE <<text[i]>>])

\* The loop the expression finds: the first opening marker and the first closing one
\* after it.
HasLoop(text) == \E i \in Positions(text, "for"), j \in Positions(text, "end") : i < j
Opening(text) == Min(Positions(text, "for"))

\* Mutant: the expression is greedy.
ClosingLast(text) == Max(Positions(text, "end"))

Closing(text) == Min({j \in Positions(text, "end") : j > Opening(text)})

Items(data, name) ==
  IF name \in DOMAIN data /\ data[name].type = "list" THEN data[name].items ELSE <<>>

Block(text) == SubSeq(text, Opening(text) + 1, Closing(text) - 1)
LoopItems(text, data) == Items(data, text[Opening(text)].name)

\* Mutant: a loop over no list is left where it is.
ExpandLoopKept(text, data) ==
  LET items == LoopItems(text, data)
      copies == [k \in DOMAIN items |-> ReplaceVariables(Block(text), items[k].at)]
  IN IF items = <<>> THEN text
     ELSE SubSeq(text, 1, Opening(text) - 1) \o FlattenSeq(copies)
          \o SubSeq(text, Closing(text) + 1, Len(text))

\* Mutant: the closing marker stays.
ExpandLoopUnclosed(text, data) ==
  LET items == LoopItems(text, data)
      copies == [k \in DOMAIN items |-> ReplaceVariables(Block(text), items[k].at)]
  IN SubSeq(text, 1, Opening(text) - 1) \o FlattenSeq(copies)
     \o SubSeq(text, Closing(text), Len(text))

\* process_loops_in_content, one iteration: the block once for each item, with the
\* item's variables, or nothing when there is no such list.
ExpandLoop(text, data) ==
  LET items == LoopItems(text, data)
      copies == [k \in DOMAIN items |-> ReplaceVariables(Block(text), items[k].at)]
  IN SubSeq(text, 1, Opening(text) - 1) \o FlattenSeq(copies)
     \o SubSeq(text, Closing(text) + 1, Len(text))

\* An item that is not an object has no get, and is asked for one by a variable only.
ItemRaises(text, data) ==
  /\ Positions(Block(text), "var") # {}
  /\ \E k \in DOMAIN LoopItems(text, data) : LoopItems(text, data)[k].type # "object"

\* The template of a job is a sequence of parts: a text, or the loop of one.
PartText(part) == IF part.loop = "" THEN part.text ELSE <<For(part.loop)>> \o part.text \o <<End>>
Template(j) == FlattenSeq([i \in DOMAIN j.parts |-> PartText(j.parts[i])])

-----------------------------------------------------------------------------
(* One run.                                                                *)

Final == {"done", "refused", "failed"}

Step(p, from, to) == pc[p] = from /\ pc' = [pc EXCEPT ![p] = to]

\* parse_json_data and read_private_data_file: O_NOFOLLOW, a regular file, mode 0600.
\* json: "object", or anything json.loads or the two hooks refuse.
MaxJsonBytes == 1048576
AcceptsData(source) ==
  /\ source.stdin \/ (source.type = "regular" /\ source.private)
  /\ source.bytes \in 1..MaxJsonBytes
  /\ source.json = "object"

\* Opening a FIFO waits for a writer; the type is looked at afterwards.
Opens(source) == source.stdin \/ source.type # "fifo"

\* cli: data that cannot be read ends the command.
ReadData(p) ==
  /\ pc[p] = "start" /\ Opens(job[p].source)
  /\ pc' = [pc EXCEPT ![p] = IF AcceptsData(job[p].source) THEN "extract" ELSE "refused"]
  /\ UNCHANGED <<job, content, files, quiet>>

ExtractContent(p) ==
  /\ Step(p, "extract", "loops")
  /\ content' = [content EXCEPT ![p] = Template(job[p])]
  /\ UNCHANGED <<job, files, quiet>>

ProcessLoop(p) ==
  /\ pc[p] = "loops" /\ HasLoop(content[p])
  /\ IF ItemRaises(content[p], job[p].data)
     THEN pc' = [pc EXCEPT ![p] = "failed"] /\ UNCHANGED content
     ELSE /\ content' = [content EXCEPT ![p] = ExpandLoop(@, job[p].data)]
          /\ Len(content'[p]) <= MaxTokens
          /\ UNCHANGED pc
  /\ UNCHANGED <<job, files, quiet>>

\* replace_variables, after the last loop.
ReplaceTop(p) ==
  /\ ~HasLoop(content[p])
  /\ Step(p, "loops", "repackage")
  /\ content' = [content EXCEPT ![p] = ReplaceVariables(@, job[p].data)]
  /\ UNCHANGED <<job, files, quiet>>

\* repackage_odt writes into a directory of the run's own.
Repackage(p) ==
  /\ Step(p, "repackage", "convert")
  /\ UNCHANGED <<job, content, files, quiet>>

\* LIBREOFFICE_BIN when it is set, else the first of two names on the path.
OfficeBinary(office) ==
  LET candidates == IF office.configured # "" THEN <<office.configured>>
                    ELSE <<"libreoffice", "soffice">>
      found == SelectSeq(candidates, LAMBDA c : c \in office.path)
  IN IF found = <<>> THEN "none" ELSE Head(found)

Pdf(text) == [pdf |-> text]
Generated(p) == <<job[p].dir, "modified">>
Output(p) == <<job[p].dir, job[p].name>>

\* Mutant: without check=True.
ConvertUnchecked(p) ==
  /\ Step(p, "convert", "move")
  /\ OfficeBinary(job[p].office) # "none"
  /\ \/ files' = [files EXCEPT ![Generated(p)] = Pdf(content[p])] /\ UNCHANGED quiet
     \/ files' \in {files, [files EXCEPT ![Generated(p)] = Other]} /\ UNCHANGED quiet
     \/ quiet' = quiet \cup {p} /\ UNCHANGED files
  /\ UNCHANGED <<job, content>>

\* convert_to_pdf.  LibreOffice writes its file and ends well, or ends badly whether it
\* wrote or not, or ends well without writing.
Convert(p) ==
  /\ OfficeBinary(job[p].office) # "none"
  /\ \/ /\ Step(p, "convert", "move")
        /\ files' = [files EXCEPT ![Generated(p)] = Pdf(content[p])] /\ UNCHANGED quiet
     \/ /\ Step(p, "convert", "failed")
        /\ files' \in {files, [files EXCEPT ![Generated(p)] = Other]} /\ UNCHANGED quiet
     \/ /\ Step(p, "convert", "move")
        /\ quiet' = quiet \cup {p} /\ UNCHANGED files
  /\ UNCHANGED <<job, content>>

\* No LibreOffice, or any other error of a step: the command ends with a traceback.
StepFails(p) ==
  /\ pc[p] \in {"extract", "repackage", "convert", "move"}
  /\ pc' = [pc EXCEPT ![p] = "failed"]
  /\ UNCHANGED <<job, content, files, quiet>>

\* The file is moved to its name unless that is the name it has.
MovePdf(p) ==
  /\ pc[p] = "move"
  /\ IF Output(p) # Generated(p) /\ files[Generated(p)] = Absent
     THEN pc' = [pc EXCEPT ![p] = "failed"] /\ UNCHANGED files
     ELSE /\ pc' = [pc EXCEPT ![p] = "done"]
          /\ files' = IF Output(p) = Generated(p) THEN files
                      ELSE [files EXCEPT ![Output(p)] = files[Generated(p)],
                                         ![Generated(p)] = Absent]
  /\ UNCHANGED <<job, content, quiet>>

-----------------------------------------------------------------------------

\* A run without a job never starts.
Init ==
  /\ \E c \in Case : job = c.job /\ files = c.files
  /\ pc = [p \in Run |-> IF job[p].parts = <<>> THEN "idle" ELSE "start"]
  /\ content = [p \in Run |-> <<>>]
  /\ quiet = {}

Command(p) == \/ ReadData(p) \/ ExtractContent(p) \/ ProcessLoop(p) \/ ReplaceTop(p)
              \/ Repackage(p) \/ Convert(p) \/ StepFails(p) \/ MovePdf(p)

Next == \E p \in Run : Command(p)

\* The command goes on, and LibreOffice ends.
Spec == Init /\ [][Next]_vars /\ \A p \in Run : WF_vars(Command(p))

-----------------------------------------------------------------------------
(* Properties.                                                             *)

PlainText(text) == \A i \in DOMAIN text : text[i].kind = "word"

\* No value of the data holds a marker.
PlainData(data) ==
  \A n \in DOMAIN data :
    IF data[n].type = "text" THEN PlainText(data[n].text)
    ELSE \A i \in DOMAIN data[n].items : data[n].items[i].type = "object" =>
           \A f \in DOMAIN data[n].items[i].at : PlainText(data[n].items[i].at[f].text)

\* No loop is inside another, and every marker has its partner.
Flat(j) == \A i \in DOMAIN j.parts :
             \A t \in DOMAIN j.parts[i].text : j.parts[i].text[t].kind \in {"word", "var"}

\* What a reader of the template expects of a part.
Filled(part, data) ==
  IF part.loop = "" THEN ReplaceVariables(part.text, data)
  ELSE FlattenSeq([k \in DOMAIN Items(data, part.loop) |->
                     ReplaceVariables(part.text, Items(data, part.loop)[k].at)])

\* The search for markers, loop by loop and then over everything once more, fills each
\* part of a flat template by itself: no loop takes the marker of another, and no
\* variable of an item is looked up in the document's data.
FlatTemplateFilled ==
  \A p \in Run :
    pc[p] \in {"repackage", "convert", "move", "done"} /\ Flat(job[p]) /\ PlainData(job[p].data)
      => content[p] = FlattenSeq([i \in DOMAIN job[p].parts |->
                                    Filled(job[p].parts[i], job[p].data)])

\* Nobody else writes to the run's directory.
Alone(p) == \A q \in Run \ {p} : pc[q] = "idle" \/ job[q].dir # job[p].dir

\* A run that has a directory to itself leaves its own document at the path it was
\* given when it says so, and else what was there, whatever earlier runs left behind:
\* conversions that failed halfway, or a modified.pdf nobody moved.  A LibreOffice that
\* ends well without writing makes it move the latter.
OutputIsOwn ==
  \A p \in Run :
    Alone(p) /\ p \notin quiet =>
      IF pc[p] = "done" THEN files[Output(p)] = Pdf(content[p])
      ELSE job[p].name # "modified" => files[Output(p)] \in {Absent, Other}

Closers(text) == Cardinality(Positions(text, "end"))

\* Whatever the template, nested and unbalanced markers included, an iteration uses up a
\* closing marker: values that hold none bring none, and the block repeated for each item
\* has none, so the search for loops runs out.
LoopsRunOut ==
  [][\A p \in Run :
       PlainData(job[p].data) /\ pc[p] = "loops" /\ pc'[p] = "loops"
         /\ content'[p] # content[p] => Closers(content'[p]) < Closers(content[p])]_vars

\* A command ends, even for a template whose loops are nested or unbalanced.  A FIFO
\* without a writer is waited for.
CommandEnds ==
  \A p \in Run :
    PlainData(job[p].data) /\ Opens(job[p].source) /\ pc[p] = "start" ~> pc[p] \in Final
=============================================================================
