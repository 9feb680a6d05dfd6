------------------------------ MODULE MCDriver ------------------------------
(***************************************************************************)
(* Projects for the tool: single functions with every kind of path that    *)
(* the contract plugins tell apart, and projects of one or two files.      *)
(***************************************************************************)
EXTENDS ToolRun

-----------------------------------------------------------------------------
(* Paths.                                                                  *)

Path(state, conditions, memory, result, returnsStruct) ==
  [state |-> state, conditions |-> conditions, memory |-> memory,
   result |-> result, returnsStruct |-> returnsStruct]

Condition(term, holds) == [term |-> term, holds |-> holds]

Targets ==
  {At("p", off) : off \in {Literal(0), Literal(1), ParamAt("Old"), ParamAt("After"), Local}}
    \cup {Address("p", Literal(0), ParamAt(at), FALSE) : at \in Points}
    \cup {At("new", Literal(0)), At("arr", Literal(0))}

Terms ==
  {Literal(1), ParamAt("Old"), ParamAt("After"), ElementAt("Old", 0), ElementAt("Old", 1),
   ElementAt("After", 0), Local, Unknown}

Entries ==
  {Entry(a, v, FALSE) : a \in Targets, v \in Terms}
    \cup {Entry(At("p", off), Itself, FALSE) : off \in {Literal(1), ParamAt("Old"), Local}}
    \cup {Entry(At(b, Literal(0)), v, TRUE) : b \in {"s", "new"}, v \in Terms}

PairedEntries ==
  {Entry(a, v, FALSE) : a \in Targets, v \in {Literal(1), ElementAt("Old", 0)}}
    \cup {Entry(At("s", Literal(0)), Literal(1), TRUE)}

Memories ==
  {{}} \cup {{e} : e \in Entries}
    \cup {m \in {{d, e} : d, e \in PairedEntries} : \A d, e \in m : d # e => d.addr # e.addr}

SmallMemories ==
  {{}, {Entry(At("p", Literal(0)), Literal(1), FALSE)},
   {Entry(At("p", Literal(1)), ElementAt("Old", 0), FALSE)}, {Entry(At("p", Literal(0)), ElementAt("Old", 0), FALSE)}}

Conditions ==
  {Condition(t, h) : t \in {ParamAt("Old"), ParamAt("After"), ElementAt("Old", 0), AllZero, Local, Unknown},
                     h \in BOOLEAN}

Results == {None, NewPointer} \cup Terms

OnePath ==
  {{Path("Return", {}, m, r, FALSE)} : m \in Memories, r \in Results}
    \cup {{Path("Normal", {}, m, None, FALSE)} : m \in Memories}
    \cup {{Path("Return", {c}, m, Literal(1), FALSE)} : m \in Memories, c \in Conditions}
    \cup {{Path("Return", {}, m, r, TRUE)} : m \in SmallMemories, r \in Terms}

TwoPaths ==
  {{Path(s, {Condition(t, TRUE)}, m, IF s = "Return" THEN ParamAt("Old") ELSE None, FALSE),
    Path("Return", {Condition(t, FALSE)}, n, r, FALSE)} :
     s \in {"Return", "Normal"}, t \in {c.term : c \in Conditions}, m, n \in SmallMemories,
     r \in {None, Literal(1)}}

-----------------------------------------------------------------------------
(* Projects.                                                               *)

Declaration(name, isDefinition, inMainFile, usesParams, setsParams, sameParams, paths, loops, calls) ==
  [name |-> name, isDefinition |-> isDefinition, inMainFile |-> inMainFile,
   usesParams |-> usesParams, setsParams |-> setsParams, sameParams |-> sameParams,
   paths |-> paths, loops |-> loops, calls |-> calls]

Sets1 == {Path("Return", {}, {Entry(At("p", Literal(0)), Literal(1), FALSE)}, None, FALSE)}

Function(name, loops, calls) == Declaration(name, TRUE, TRUE, TRUE, FALSE, TRUE, Sets1, loops, calls)

Prototype(name, sameParams) == Declaration(name, FALSE, TRUE, FALSE, FALSE, sameParams, {}, 0, <<>>)

InHeader(d) == [d EXCEPT !.inMainFile = FALSE]

SourceFile(dir, stem, comments, decls) ==
  [dir |-> dir, stem |-> stem, comments |-> comments, decls |-> decls]

Project(files, given, targets, outDir, noOutput) ==
  [files |-> files, given |-> given, targets |-> targets, outDir |-> outDir, noOutput |-> noOutput]

FileA ==
  {SourceFile("a", "x", {"requires", "ensures"}, decls) :
     decls \in {<<Function("f", 1, <<>>)>>,
                <<Prototype("f", TRUE), Function("f", 1, <<>>)>>,
                <<Prototype("f", FALSE), Function("f", 0, <<>>)>>,
                <<Function("main", 1, <<>>), Function("f", 0, <<>>)>>,
                <<InHeader(Function("h", 1, <<>>)), Function("f", 1, <<"h">>)>>,
                <<InHeader(Function("f", 1, <<>>)), Prototype("f", TRUE)>>,
                <<Prototype("g", TRUE), Function("f", 0, <<"g">>), Function("main", 1, <<"f", "g">>)>>,
                <<Function("g", 1, <<>>), Function("f", 1, <<"g", "g">>)>>,
                <<[Function("f", 0, <<>>) EXCEPT !.setsParams = TRUE], Prototype("f", TRUE)>>}}

FileB ==
  {SourceFile(dir, stem, {"assigns"}, decls) :
     dir \in {"a", "b"}, stem \in {"x", "y"},
     decls \in {<<Function("g", 1, <<>>)>>,
                <<Prototype("f", TRUE), Function("g", 1, <<"f">>), Function("f", 1, <<>>)>>,
                <<Prototype("f", TRUE), Function("e", 1, <<"f">>)>>,
                <<Function("main", 1, <<>>), Function("f", 0, <<>>), Function("g", 0, <<>>)>>}}

FileC == SourceFile("b", "z", {}, <<Prototype("f", TRUE), Function("d", 1, <<"f">>)>>)

SingleFunctions ==
  {Project(<<SourceFile("a", "x", {}, <<[Function("f", 0, <<>>) EXCEPT !.paths = paths]>>)>>, 1, {}, "", FALSE) :
     paths \in OnePath \cup TwoPaths}

Targeted == {{}, {"f"}, {"main"}, {"f", "main"}, {"g"}}

MCProjects ==
  SingleFunctions
    \cup {Project(<<a>>, 1, t, out, none) : a \in FileA, t \in Targeted, out \in {"", "out"}, none \in BOOLEAN}
    \cup {p \in {Project(fs, given, t, out, FALSE) :
                   fs \in {<<a, b, FileC>> : a \in FileA, b \in FileB}, given \in 1 .. 3, t \in Targeted, out \in {"", "out"}} :
            \A m, n \in DOMAIN p.files :
              m # n => <<p.files[m].dir, p.files[m].stem>> # <<p.files[n].dir, p.files[n].stem>>}

=============================================================================
