--------------------------- MODULE MCOdtTemplate ---------------------------
(* Small instances of OdtTemplate for TLC: one run with any small template *)
(* and data, or two runs with the simplest.                                *)
EXTENDS OdtTemplate, TLC

CONSTANTS r1, r2

Val(text) == [type |-> "text", text |-> text]
Item(text) == [type |-> "object", at |-> ("y" :> Val(text))]
NoItem == [type |-> "text", at |-> <<>>]
Of(items) == [type |-> "list", items |-> items]

\* Lists of no, one and two items, an item that is no object, and values with markers: of
\* a variable, and of a loop over the list they are in.
Data ==
  {("x" :> Val(<<Word("one")>>)) @@ ("a" :> Of(<<>>)),
   ("x" :> Val(<<Word("one")>>)) @@ ("a" :> Of(<<Item(<<Word("two")>>), Item(<<>>)>>)),
   ("y" :> Val(<<Word("top")>>)) @@ ("a" :> Of(<<Item(<<Word("two")>>), NoItem>>)),
   ("y" :> Val(<<Word("top")>>)) @@ ("a" :> Val(<<Word("text")>>)),
   ("x" :> Val(<<Word("one")>>)) @@ ("a" :> Of(<<Item(<<Var("x")>>)>>)),
   ("a" :> Of(<<Item(<<For("a"), Var("y"), End>>)>>))}

Plain(text) == [loop |-> "", text |-> text]
Loop(name, text) == [loop |-> name, text |-> text]

Parts == {Plain(<<Word("t")>>), Plain(<<Var("x"), Var("y")>>),
          Loop("a", <<Var("y"), Word("t")>>), Loop("a", <<>>), Loop("b", <<Var("y")>>)}

FlatParts == UNION {[1..n -> Parts] : n \in 1..3}

\* Any order of markers, nested and unbalanced ones among them.
Tokens == {Word("t"), Var("y"), For("a"), For("b"), End}
AnyParts == {<<Plain(text)>> : text \in [1..4 -> Tokens]
                                         \cup [1..6 -> {Var("y"), For("a"), End}]}

GoodSource == [stdin |-> FALSE, type |-> "regular", private |-> TRUE, bytes |-> 100,
               json |-> "object"]
Sources ==
  {[GoodSource EXCEPT !.type = t] : t \in {"fifo", "symlink", "absent"}}
  \cup {[GoodSource EXCEPT !.private = FALSE, !.stdin = b] : b \in BOOLEAN}
  \cup {[GoodSource EXCEPT !.bytes = n] : n \in {0, MaxJsonBytes, MaxJsonBytes + 1}}
  \cup {[GoodSource EXCEPT !.json = j] : j \in {"list", "duplicate", "unreadable"}}

Office(name, path) == [configured |-> name, path |-> path]
Offices == {Office("", {"libreoffice", "soffice"}), Office("", {"soffice"}), Office("", {}),
            Office("/office", {"/office"}), Office("/office", {"libreoffice"})}

JobOf(parts, data) ==
  [parts |-> parts, data |-> data, source |-> GoodSource, office |-> Office("", {"soffice"}),
   dir |-> "d1", name |-> "out"]

NoJob == JobOf(<<>>, <<>>)
SomeData == ("x" :> Val(<<Word("one")>>)) @@ ("a" :> Of(<<>>))
Simple == JobOf(<<Plain(<<Word("t")>>)>>, SomeData)
SimpleElse == JobOf(<<Plain(<<Var("x")>>)>>, SomeData)

Single == {JobOf(parts, data) : parts \in FlatParts \cup AnyParts, data \in Data}
          \cup {[Simple EXCEPT !.source = s] : s \in Sources}
          \cup {[Simple EXCEPT !.office = o] : o \in Offices}

Double == {[SimpleElse EXCEPT !.dir = d, !.name = n] : d \in Dir, n \in Name}

Files == [Dir \X Name -> {Absent, Other}]
Leftover == [f \in Dir \X Name |-> Other]

Cases == [job : {(r1 :> j) @@ (r2 :> NoJob) : j \in Single}, files : {Leftover}]
         \cup [job : {(r1 :> [Simple EXCEPT !.name = n]) @@ (r2 :> j) : n \in Name, j \in Double},
               files : Files]
=============================================================================
