------------------------------- MODULE Driver -------------------------------
(***************************************************************************)
(* The driver (src/main.c): reading and parsing the files given, chaining  *)
(* their declarations into one program, the phases that follow, and the    *)
(* exit status.  Files are regular files; what is in them is only whether  *)
(* they parse, and how many declarations they have.                        *)
(***************************************************************************)
EXTENDS Naturals, Sequences

CONSTANTS
  MaxFiles,  \* how many files are given (bounds the model only)
  MaxDecls   \* how many declarations a file has (bounds the model only)

ASSUME DriverAssumption == MaxFiles \in Nat /\ MaxDecls \in Nat

\* A file that cannot be opened, one too large to hold, one that does not
\* parse, or one with its declarations.
File == [is : {"missing", "large", "broken"}, decls : {0}]
          \cup [is : {"good"}, decls : 0 .. MaxDecls]
Config == [unknown : BOOLEAN, lex_only : BOOLEAN, parse_only : BOOLEAN]

VARIABLES
  config, files,       \* the arguments
  pc,
  i,                   \* the file at hand
  sources,             \* the files whose text is held
  program,             \* the file whose program node is the program, or 0
  next, next_decl,     \* the list of declarations, and the cell at its end
  resolver, tc,        \* what their had_error is
  status               \* the exit status

args == <<config, files>>
vars == <<config, files, pc, i, sources, program, next, next_decl, resolver, tc, status>>

\* A declaration is known by its file and its place there.
NULL == <<0, 0>>
Declarations == <<0, 1>>   \* the cell program->as.program.declarations
Decls == (1 .. MaxFiles) \X (1 .. MaxDecls)
Cells == Decls \cup {Declarations}

HadError == {"unset", "no", "yes"}

----------------------------------------------------------------------------

Init ==
  /\ config \in Config
  /\ files \in UNION {[1 .. n -> File] : n \in 0 .. MaxFiles}
  /\ pc = "args"
  /\ i = 1
  /\ sources = {}
  /\ program = 0
  /\ next = [cell \in Cells |-> NULL]
  /\ next_decl = NULL
  /\ resolver = "unset"
  /\ tc = "unset"
  /\ status = 0

Exit(code) == pc' = "exited" /\ status' = code
Goto(label) == pc' = label /\ UNCHANGED status

\* parse_args
RefuseOption ==
  /\ pc = "args"
  /\ config.unknown
  /\ Exit(1)
  /\ UNCHANGED <<args, i, sources, program, next, next_decl, resolver, tc>>

Start ==
  /\ pc = "args"
  /\ ~config.unknown
  /\ IF files = <<>> THEN Exit(1) ELSE Goto("file")
  /\ UNCHANGED <<args, i, sources, program, next, next_decl, resolver, tc>>

\* The loop over the files: a file is read,
AtFile == pc = "file" /\ i <= Len(files)

FailToRead ==
  /\ AtFile
  /\ files[i].is \in {"missing", "large"}
  /\ Exit(1)
  /\ UNCHANGED <<args, i, sources, program, next, next_decl, resolver, tc>>

ReadFile ==
  /\ AtFile
  /\ files[i].is \in {"broken", "good"}
  /\ sources' = sources \cup {i}
  /\ Goto(IF config.lex_only THEN "lex" ELSE "parse")
  /\ UNCHANGED <<args, i, program, next, next_decl, resolver, tc>>

\* its tokens printed,
LexFile ==
  /\ pc = "lex"
  /\ i' = i + 1
  /\ Goto("file")
  /\ UNCHANGED <<args, sources, program, next, next_decl, resolver, tc>>

\* or parsed, and its declarations put at the end of the list.
OnParseErrorCleanup == Goto("cleanup")   \* a mutant
OnParseError == Exit(1)

FailToParse ==
  /\ pc = "parse"
  /\ files[i].is = "broken"
  /\ OnParseError
  /\ UNCHANGED <<args, i, sources, program, next, next_decl, resolver, tc>>

LinkedOnePast(cells, f) ==   \* a mutant: a list without its end
  [cell \in Cells |-> IF cell[1] = f THEN <<f, cell[2] + 1>> ELSE cells[cell]]
First(f) == IF files[f].decls = 0 THEN NULL ELSE <<f, 1>>
Linked(cells, f) ==
  [cell \in Cells |->
     IF cell[1] = f THEN IF cell[2] < files[f].decls THEN <<f, cell[2] + 1>> ELSE NULL
     ELSE cells[cell]]

\* The first program is the program, the others' declarations are appended.
EndOfListNever == NULL   \* a mutant: next_decl is only set by the first file
EndOfList == IF program = 0 THEN Declarations ELSE next_decl
MergeFile ==
  /\ pc = "parse"
  /\ files[i].is = "good"
  /\ program' = IF program = 0 THEN i ELSE program
  /\ next' = [cell \in Cells |->
                IF cell = EndOfList THEN First(i) ELSE Linked(next, i)[cell]]
  /\ next_decl' = Declarations
  /\ Goto("walk")
  /\ UNCHANGED <<args, i, sources, resolver, tc>>

FollowingStuck(cell) == cell   \* a mutant
Following(cell) == next[cell]
WalkList ==
  /\ pc = "walk"
  /\ next[next_decl] # NULL
  /\ next_decl' = Following(next_decl)
  /\ UNCHANGED <<args, pc, i, sources, program, next, resolver, tc, status>>

EndWalk ==
  /\ pc = "walk"
  /\ next[next_decl] = NULL
  /\ i' = i + 1
  /\ Goto("file")
  /\ UNCHANGED <<args, sources, program, next, next_decl, resolver, tc>>

\* --dump-ast prints here and changes nothing; nothing asks for parse_only.
EndOfFiles ==
  /\ pc = "file"
  /\ i > Len(files)
  /\ Goto(IF config.lex_only THEN "cleanup" ELSE "resolve")
  /\ UNCHANGED <<args, i, sources, program, next, next_decl, resolver, tc>>

Resolve ==
  /\ pc = "resolve"
  /\ resolver' \in {"no", "yes"}
  /\ Goto(IF resolver' = "yes" THEN "cleanup" ELSE "typecheck")
  /\ UNCHANGED <<args, i, sources, program, next, next_decl, tc>>

\* The resolver may read through a wild pointer (Resolver: UsePunned), the type
\* checker too (Collect), and has to if there is no declaration it could read.
Crash ==
  /\ pc \in {"resolve", "typecheck"}
  /\ Goto("crashed")
  /\ UNCHANGED <<args, i, sources, program, next, next_decl, resolver, tc>>

Typecheck ==
  /\ pc = "typecheck"
  /\ next[Declarations] # NULL
  /\ tc' \in {"no", "yes"}
  /\ Goto("cleanup")
  /\ UNCHANGED <<args, i, sources, program, next, next_decl, resolver>>

\* What a had_error can be read as: any value if nothing has set it.
MayRead(had_error) ==
  IF had_error = "unset" THEN BOOLEAN ELSE {had_error = "yes"}
Failed(r, t) == r \/ t

Cleanup ==
  /\ pc = "cleanup"
  /\ sources' = {}
  /\ \E r \in MayRead(resolver), t \in MayRead(tc) : Exit(IF Failed(r, t) THEN 1 ELSE 0)
  /\ UNCHANGED <<args, i, program, next, next_decl, resolver, tc>>

Next ==
  \/ RefuseOption
  \/ Start
  \/ FailToRead
  \/ ReadFile
  \/ LexFile
  \/ FailToParse
  \/ MergeFile
  \/ WalkList
  \/ EndWalk
  \/ EndOfFiles
  \/ Resolve
  \/ Crash
  \/ Typecheck
  \/ Cleanup

Spec == Init /\ [][Next]_vars /\ WF_vars(Next)

----------------------------------------------------------------------------
(* Properties                                                              *)

\* Types; next_decl is a cell whenever it is used.
TypeOK ==
  /\ config \in Config
  /\ files \in Seq(File)
  /\ Len(files) <= MaxFiles
  /\ pc \in {"args", "file", "lex", "parse", "walk", "resolve", "typecheck", "cleanup", "exited",
             "crashed"}
  /\ i \in 1 .. MaxFiles + 1
  /\ sources \subseteq 1 .. MaxFiles
  /\ program \in 0 .. MaxFiles
  /\ next \in [Cells -> Decls \cup {NULL}]
  /\ next_decl \in Cells \cup {NULL}
  /\ program # 0 => next_decl \in Cells
  /\ resolver \in HadError
  /\ tc \in HadError
  /\ status \in {0, 1}

Exists(decl) == decl[1] <= Len(files) /\ decl[2] <= files[decl[1]].decls
Before(c, d) == c[1] < d[1] \/ (c[1] = d[1] /\ c[2] < d[2])

\* The cell leads to the first of the declarations given, if there is one.
Leads(cell, later) ==
  IF later = {} THEN next[cell] = NULL
  ELSE next[cell] \in later /\ \A d \in later : d = next[cell] \/ Before(next[cell], d)

\* What is resolved and checked is every declaration of every file, in order:
\* from the cell of the program on, each cell leads to the next declaration,
\* files without declarations in between or not.
Merged ==
  pc \in {"resolve", "typecheck"} =>
    \A cell \in Cells :
      (cell = Declarations \/ Exists(cell)) => Leads(cell, {d \in Decls : Exists(d) /\ Before(cell, d)})

\* The cleanup frees the text of every file of the command line: it is reached
\* only when each holds one.
CleanupFreesRead == pc = "cleanup" => sources = 1 .. Len(files)

\* "Exit code 0 = clean. Exit code 1 = errors" (README.md), unless only tokens
\* are printed: every file was read and parsed and both phases found nothing.
ExitStatus ==
  pc = "exited" /\ ~config.lex_only =>
    (status = 0 <=> /\ ~config.unknown
                    /\ files # <<>>
                    /\ \A f \in 1 .. Len(files) : files[f].is = "good"
                    /\ resolver = "no"
                    /\ tc = "no")

\* Two promises of the way out: the cleanup has what it frees, and the status
\* says how it went.
LeavesInOrder == CleanupFreesRead /\ ExitStatus

\* The list while the first m files have been merged: their declarations.
OnList(cell, m) == cell = Declarations \/ (cell \in Decls /\ Exists(cell) /\ cell[1] <= m)
Later(cell, m) == {d \in Decls : OnList(d, m) /\ Before(cell, d)}
ListOf(m) == \A cell \in Cells : OnList(cell, m) => Leads(cell, Later(cell, m))

\* The list holds the files before the one at hand, and next_decl is its end; and
\* while next_decl moves there, it is on the list, with the file at hand.
ListGrows ==
  ~config.lex_only =>
    /\ pc \in {"args", "file", "parse", "resolve", "typecheck"} => ListOf(i - 1)
    /\ pc \in {"file", "parse"} =>
         IF program = 0 THEN i = 1
         ELSE OnList(next_decl, i - 1) /\ next[next_decl] = NULL
    /\ pc = "walk" => ListOf(i) /\ OnList(next_decl, i) /\ program # 0

\* What has been read, and found good, where the driver is.
Progress ==
  /\ pc \in {"args", "file"} => i <= Len(files) + 1
  /\ pc = "args" => i = 1 /\ program = 0 /\ sources = {}
  /\ pc \in {"lex", "parse", "walk"} => i <= Len(files)
  /\ pc \in {"resolve", "typecheck"} => i = Len(files) + 1
  /\ pc \notin {"args", "exited"} => ~config.unknown /\ files # <<>>
  /\ pc = "lex" => config.lex_only
  /\ pc \in {"parse", "walk", "resolve", "typecheck"} => ~config.lex_only
  /\ pc = "file" => sources = 1 .. i - 1
  /\ pc \in {"lex", "parse", "walk"} => sources = 1 .. i
  /\ pc \in {"resolve", "typecheck", "cleanup"} => sources = 1 .. Len(files)
  /\ ~config.lex_only =>
       /\ pc \in {"file", "parse"} => \A f \in 1 .. i - 1 : files[f].is = "good"
       /\ pc = "walk" => \A f \in 1 .. i : files[f].is = "good"
       /\ pc \in {"resolve", "typecheck", "cleanup"} =>
            \A f \in 1 .. Len(files) : files[f].is = "good"

\* Which phases have set their had_error, where the driver is.
PhasesSet ==
  /\ pc \in {"args", "file", "lex", "parse", "walk", "resolve"} =>
       resolver = "unset" /\ tc = "unset"
  /\ pc = "typecheck" => resolver = "no" /\ tc = "unset"
  /\ pc = "cleanup" /\ ~config.lex_only => resolver = "yes" \/ (resolver = "no" /\ tc # "unset")

\* What every step preserves: the invariant the proofs go by.
DriverInv ==
  /\ TypeOK
  /\ Progress
  /\ PhasesSet
  /\ ListGrows
  /\ ExitStatus

\* The same where only tokens are printed: what can be read is clean.
LexOnlyExitStatus ==
  pc = "exited" /\ config.lex_only /\ ~config.unknown /\ files # <<>> =>
    (status = 0 <=> \A f \in 1 .. Len(files) : files[f].is \in {"good", "broken"})

\* "For --parse-only mode: Return after parse completes" (ARCHITECTURE.md).
ParseOnlyStops == config.parse_only => resolver = "unset" /\ tc = "unset"

\* The compiler ends, if by a crash, given that its steps are taken: the walk to the end of
\* the list never runs in a circle.
Termination == <>(pc \in {"exited", "crashed"})
=============================================================================
