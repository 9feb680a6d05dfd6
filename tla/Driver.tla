------------------------------- MODULE Driver -------------------------------
(***************************************************************************)
(* One invocation of the tool: main (src/src/main.cpp) hands each source   *)
(* file to a TUASTConsumer, which analyses the functions of the file       *)
(* (src/src/Analyzer/analysis.cpp), collects the edits in the context of   *)
(* the file (src/src/Context) and writes the edited file.  A call of a     *)
(* function without a body is looked up in the files of the compilation    *)
(* database (src/src/Analyzer/crossTU.cpp), with a cache that all the      *)
(* files share.                                                            *)
(***************************************************************************)
EXTENDS Contract, SequencesExt

(* A project: the files that the database lists, how many of them (the     *)
(* first) are given to the tool, and the options.  A file has a path, its old ACSL  *)
(* comments and its function declarations: a name, the place (the file     *)
(* itself or a header), whether it is the definition, whether a prototype  *)
(* names its parameters like the definition does, and for a definition     *)
(* the paths it ends with, its loops and the functions it calls.           *)
CONSTANT Projects

(* A definition has a number of loops and calls functions by their names.  *)
ASSUME ProjectsAssumption ==
  \A p \in Projects :
    /\ p.files \in Seq(ToSet(p.files)) /\ p.given \in 1 .. Len(p.files)
    /\ \A file \in ToSet(p.files) :
         /\ file.decls \in Seq(ToSet(file.decls))
         /\ \A d \in ToSet(file.decls) : d.loops \in Nat /\ d.calls \in Seq(ToSet(d.calls))

VARIABLES
  project,
  current,   \* the number of the file that is analysed, 0 before the first
  next,      \* the number of the next declaration of that file
  count,     \* the static counter of analyzeFunctions
  seen,      \* seenTargetFunctions_
  edits,     \* what has been inserted, into whatever buffer
  points,    \* usedPoints_: the labels inserted
  imported,  \* gImportedByKey: name -> the file in whose AST the definition is
  removed,   \* the comments that the comment handler removes from its rewriter
  outputs,   \* the files written: path -> what is in it
  status     \* "running", "aborted" or "done"

vars == <<project, current, next, count, seen, edits, points, imported, removed, outputs, status>>

File == project.files[current]

DefinitionIn(file, name) == {d \in ToSet(file.decls) : d.name = name /\ d.isDefinition}

(* FunctionDecl::hasBody: of a prototype too, if the file has the body.    *)
hasBody(file, name) == DefinitionIn(file, name) # {}

Definition(file, name) == CHOOSE d \in DefinitionIn(file, name) : TRUE

-----------------------------------------------------------------------------
(* importDefinitionIfAvailable.                                            *)

(* The file whose definition is imported: the first in the database that   *)
(* has one.                                                                *)
findAndImportDefinition(name) ==
  {n \in DOMAIN project.files :
     /\ hasBody(project.files[n], name)
     /\ \A m \in 1 .. n - 1 : ~hasBody(project.files[m], name)}

(* The file that the definition of a called function is taken from.        *)
SourceOf(name) ==
  IF hasBody(File, name) THEN {current}
  ELSE IF name \in DOMAIN imported THEN {imported[name].from}
  ELSE findAndImportDefinition(name)

(* The cache remembers into which AST the definition was imported.  A call *)
(* of any of these names adds an entry, the first one in a body.           *)
CacheWith(names) ==
  LET new == {name \in names : /\ ~hasBody(File, name) /\ name \notin DOMAIN imported
                               /\ findAndImportDefinition(name) # {}}
  IN  [n \in DOMAIN imported \cup new |->
         IF n \in DOMAIN imported THEN imported[n]
         ELSE [from |-> CHOOSE f \in findAndImportDefinition(n) : TRUE, into |-> current]]

-----------------------------------------------------------------------------
(* Edits.  File n of an edit is the file whose buffer it goes to.          *)

Edit(kind, n, name, what) == [kind |-> kind, file |-> n, name |-> name, what |-> what]

(* stepLoop: the annotation of a loop, each time the loop is stepped; a    *)
(* function of a header is annotated in the buffer of the header, file 0.  *)
LoopEdits(n, d) ==
  [l \in 1 .. d.loops |-> Edit("loop", IF d.inMainFile THEN n ELSE 0, d.name, l)]

(* What stepping the body of definition d inserts: its loops and those of  *)
(* the calls, which are inlined (one level of calls).                      *)
CallEdits(name) ==
  LET n == CHOOSE m \in SourceOf(name) : TRUE
  IN  LoopEdits(n, Definition(project.files[n], name))

BodyEdits(d) ==
  LoopEdits(current, d) \o FlattenSeq([c \in DOMAIN d.calls |-> CallEdits(d.calls[c])])

(* insertUsedPoints: one label per point, once.                            *)
Labels(new) == {<<e.file, e.name, e.what>> : e \in {f \in ToSet(new) : f.kind = "loop"}}

ContractEdit(d) ==
  Edit("contract", current, d.name,
       [at |-> next, text |-> emitFunctionContract(Definition(File, d.name).paths)])

-----------------------------------------------------------------------------
(* analyzeFunctions.                                                       *)

shouldAnalyze(name) == project.targets = {} \/ name \in project.targets

(* Mutant: declarations of headers are accepted. *)
AcceptedAnywhere(d) ==
  hasBody(File, d.name) /\ shouldAnalyze(d.name) /\ ~(d.name = "main" /\ count > 0)

Accepted(d) ==
  /\ hasBody(File, d.name)
  /\ d.inMainFile
  /\ shouldAnalyze(d.name)
  /\ ~(d.name = "main" /\ count > 0)

(* The body refers to the parameters of the definition.  Stepping it for a *)
(* prototype finds them by their names, for reads only.                    *)
ParametersAreFound(d) ==
  \/ d.isDefinition
  \/ ~Definition(File, d.name).usesParams
  \/ d.sameParams /\ ~Definition(File, d.name).setsParams

(* A call whose callee has no body anywhere stops the tool, if the callee  *)
(* has parameters; here all have.                                          *)
CallsAreFound(body) == \A c \in DOMAIN body.calls : SourceOf(body.calls[c]) # {}

(* An AST is freed when its file is done, the cache keeps pointing at it.  *)
UsesFreedAST(body) ==
  \E c \in DOMAIN body.calls :
    /\ ~hasBody(File, body.calls[c])
    /\ body.calls[c] \in DOMAIN imported
    /\ imported[body.calls[c]].into # current

(* Mutant: a name is noted when the function is analysed. *)
SeenIfAccepted(d) == IF Accepted(d) THEN seen \cup {d.name} ELSE seen

(* shouldAnalyze notes the requested names before main is filtered out.    *)
SeenWith(d) ==
  IF hasBody(File, d.name) /\ d.inMainFile /\ d.name \in project.targets
  THEN seen \cup {d.name} ELSE seen

(* generateFunctionSpec *)
generateFunctionSpec(d) ==
  \E body \in {Definition(File, d.name)} : \E new \in {BodyEdits(body)} :
      /\ imported' = CacheWith(ToSet(body.calls))
      /\ points' = points \cup Labels(new)
      /\ edits' = edits \o new \o IF d.name = "main" THEN <<>> ELSE <<ContractEdit(d)>>

Analyze ==
  /\ status = "running" /\ current # 0
  /\ next <= Len(File.decls)
  /\ LET d == File.decls[next]
     IN  /\ seen' = SeenWith(d)
         /\ IF Accepted(d)
            THEN /\ count' = count + 1
                 /\ \/ /\ ParametersAreFound(d)
                       /\ CallsAreFound(Definition(File, d.name))
                       /\ generateFunctionSpec(d)
                       /\ next' = next + 1
                       /\ UNCHANGED status
                    \/ /\ \/ ~ParametersAreFound(d)
                          \/ ~CallsAreFound(Definition(File, d.name))
                          \/ UsesFreedAST(Definition(File, d.name))
                       /\ status' = "aborted"
                       /\ UNCHANGED <<imported, points, edits, next>>
            ELSE next' = next + 1 /\ UNCHANGED <<count, imported, points, edits, status>>
  /\ UNCHANGED <<project, current, removed, outputs>>

-----------------------------------------------------------------------------
(* main, TUFrontendAction and TUASTConsumer.                               *)

(* HandleComment: of the old annotations all but requires are removed,     *)
(* from a copy of a rewriter that belongs to the handler.                  *)
HandleComments(file) == {c \in file.comments : c # "requires"}

Fresh(n) ==
  /\ current' = n /\ next' = 1
  /\ seen' = {} /\ edits' = <<>> /\ points' = {}

(* A new file is parsed; its context and its analyzer are new.             *)
Parse ==
  /\ status = "running" /\ current = 0
  /\ Fresh(1)
  /\ removed' = HandleComments(project.files[1])
  /\ UNCHANGED <<project, count, imported, outputs, status>>

(* verifyRequestedFunctionsFound *)
AllFound == project.targets \subseteq seen

OutputPath(file) ==
  <<IF project.outDir = "" THEN file.dir ELSE project.outDir, file.stem>>

(* What is written: the edits of the buffer of the main file.              *)
OutputOf(file) ==
  [of |-> current,
   edits |-> FlattenSeq([i \in DOMAIN edits |-> IF edits[i].file = current THEN <<edits[i]>> ELSE <<>>]),
   labels |-> {p \in points : p[1] = current},
   comments |-> file.comments]

WithOutput(file) ==
  IF project.noOutput THEN outputs
  ELSE [p \in DOMAIN outputs \cup {OutputPath(file)} |->
          IF p = OutputPath(file) THEN OutputOf(file) ELSE outputs[p]]

(* The end of HandleTranslationUnit, and the beginning of the next file.   *)
HandleTranslationUnit ==
  /\ status = "running" /\ current # 0
  /\ next > Len(File.decls)
  /\ IF ~AllFound
     THEN /\ status' = "aborted"
          /\ UNCHANGED <<current, next, seen, edits, points, removed, outputs>>
     ELSE /\ outputs' = WithOutput(File)
          /\ IF current < project.given
             THEN Fresh(current + 1) /\ removed' = HandleComments(project.files[current + 1])
                    /\ UNCHANGED status
             ELSE status' = "done" /\ UNCHANGED <<current, next, seen, edits, points, removed>>
  /\ UNCHANGED <<project, count, imported>>

Init ==
  /\ project \in Projects
  /\ current = 0 /\ next = 1 /\ count = 0
  /\ seen = {} /\ edits = <<>> /\ points = {}
  /\ imported = [n \in {} |-> [from |-> 0, into |-> 0]]
  /\ removed = {} /\ outputs = [p \in {} |-> <<>>] /\ status = "running"

Next == Parse \/ Analyze \/ HandleTranslationUnit

Spec == Init /\ [][Next]_vars /\ WF_vars(Next)
=============================================================================
