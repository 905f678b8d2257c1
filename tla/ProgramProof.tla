---------------------------- MODULE ProgramProof ----------------------------
(***************************************************************************)
(* Proofs about a whole program: how the driver makes one of any number of *)
(* files and leaves, and what the type checker collects from any list of   *)
(* its declarations.                                                       *)
(***************************************************************************)
EXTENDS Driver, Collect, SequenceTheorems, WellFoundedInduction, TLAPS

----------------------------------------------------------------------------
(* The driver                                                              *)

\* The cells of the list are those of Declarations, and pairs.
LEMMA CellTypes ==
  ASSUME NEW cell \in Cells
  PROVE  /\ cell[1] \in Nat /\ cell[2] \in Nat
         /\ cell = <<cell[1], cell[2]>>
         /\ cell \in Decls <=> cell # Declarations
         /\ cell = Declarations => cell[1] = 0 /\ cell[2] = 1
         /\ cell \in Decls => cell[1] \in 1 .. MaxFiles /\ cell[2] \in 1 .. MaxDecls
BY DriverAssumption DEF Cells, Decls, Declarations

LEMMA NullNoCell == NULL \notin Cells
BY DriverAssumption DEF NULL, Cells, Decls, Declarations

\* How many declarations a file has.
LEMMA FileDecls ==
  ASSUME TypeOK, NEW f \in 1 .. Len(files)
  PROVE  files[f].decls \in 0 .. MaxDecls /\ f \in 1 .. MaxFiles
<1>1. files[f] \in File
  BY DEF TypeOK
<1>2. files[f].decls \in 0 .. MaxDecls
  BY <1>1, DriverAssumption DEF File
<1>3. Len(files) \in Nat /\ Len(files) <= MaxFiles
  BY DEF TypeOK
<1> QED BY <1>2, <1>3, DriverAssumption

LEMMA BeforeTotal ==
  ASSUME NEW c \in Cells, NEW d \in Cells
  PROVE  c = d \/ Before(c, d) \/ Before(d, c)
BY CellTypes DEF Before

----------------------------------------------------------------------------

LEMMA InitInv == Init => DriverInv
<1> SUFFICES ASSUME Init PROVE DriverInv
  OBVIOUS
<1> USE DEF Init
<1>1. files \in Seq(File) /\ Len(files) \in 0 .. MaxFiles
  <2>1. PICK n \in 0 .. MaxFiles : files \in [1 .. n -> File]
    OBVIOUS
  <2> QED BY <2>1, DriverAssumption
<1>2. TypeOK
  BY <1>1, DriverAssumption DEF TypeOK, HadError
<1>3. Progress /\ PhasesSet /\ ExitStatus
  BY <1>1 DEF Progress, PhasesSet, ExitStatus
<1>4. ListOf(0)
  <2> SUFFICES ASSUME NEW cell \in Cells PROVE Leads(cell, Later(cell, 0))
    BY DEF ListOf
  <2>1. Later(cell, 0) = {}
    <3> SUFFICES ASSUME NEW d \in Decls, OnList(d, 0) PROVE FALSE
      BY DEF Later
    <3>1. d[1] >= 1
      BY CellTypes DEF Cells
    <3>2. d # Declarations /\ d[1] <= 0
      BY CellTypes DEF Cells, OnList
    <3> QED BY <3>1, <3>2, CellTypes DEF Cells
  <2> QED BY <2>1 DEF Leads
<1>5. ListGrows
  BY <1>4 DEF ListGrows
<1> QED BY <1>2, <1>3, <1>5 DEF DriverInv

\* What the list is depends on the files and the cells only.
LEMMA ListStays ==
  ASSUME UNCHANGED <<files, next>>, NEW m
  PROVE  /\ ListOf(m)' <=> ListOf(m)
         /\ \A cell : OnList(cell, m)' <=> OnList(cell, m)
<1>1. \A cell : OnList(cell, m)' <=> OnList(cell, m)
  BY DEF OnList, Exists
<1>2. \A cell : Later(cell, m)' = Later(cell, m)
  BY DEF Later, OnList, Exists, Before
<1> QED BY <1>1, <1>2 DEF ListOf, Leads

\* The driver leaves at once: with a reason for the status.
LEMMA ExitInv ==
  ASSUME DriverInv, Exit(1), UNCHANGED <<args, i, sources, program, next, next_decl, resolver, tc>>,
         pc # "exited",
         config.unknown \/ files = <<>> \/ \E f \in 1 .. Len(files) : files[f].is # "good"
  PROVE  DriverInv'
<1> USE DEF DriverInv, Exit, args
<1>1. TypeOK'
  BY DEF TypeOK
<1>2. Progress' /\ PhasesSet' /\ ListGrows'
  BY DEF Progress, PhasesSet, ListGrows
<1>3. ExitStatus'
  BY DEF ExitStatus
<1> QED BY <1>1, <1>2, <1>3

LEMMA RefuseOptionInv ==
  ASSUME DriverInv, RefuseOption
  PROVE  DriverInv'
BY ExitInv DEF RefuseOption

LEMMA StartInv ==
  ASSUME DriverInv, Start
  PROVE  DriverInv'
<1>1. CASE files = <<>>
  BY <1>1, ExitInv DEF Start
<1>2. CASE files # <<>>
  <2> USE <1>2 DEF DriverInv, Start, Goto, args
  <2>1. TypeOK'
    BY DEF TypeOK
  <2>2. Progress' /\ PhasesSet' /\ ExitStatus'
    BY DEF Progress, PhasesSet, ExitStatus
  <2>3. ListGrows'
    BY ListStays DEF ListGrows, Progress
  <2> QED BY <2>1, <2>2, <2>3
<1> QED BY <1>1, <1>2

LEMMA FailToReadInv ==
  ASSUME DriverInv, FailToRead
  PROVE  DriverInv'
<1>1. i \in 1 .. Len(files) /\ files[i].is # "good"
  BY DEF FailToRead, AtFile, DriverInv, TypeOK
<1> QED BY <1>1, ExitInv DEF FailToRead, AtFile

LEMMA ReadFileInv ==
  ASSUME DriverInv, ReadFile
  PROVE  DriverInv'
<1> USE DEF DriverInv, ReadFile, AtFile, Goto, args
<1>1. i \in 1 .. Len(files) /\ i \in 1 .. MaxFiles
  BY DriverAssumption DEF TypeOK
<1>2. TypeOK'
  BY <1>1 DEF TypeOK
<1>3. Progress'
  <2>1. sources' = 1 .. i
    BY <1>1 DEF Progress
  <2> QED BY <1>1, <2>1 DEF Progress
<1>4. PhasesSet' /\ ExitStatus'
  BY DEF PhasesSet, ExitStatus
<1>5. ListGrows'
  BY ListStays DEF ListGrows
<1> QED BY <1>2, <1>3, <1>4, <1>5

LEMMA LexFileInv ==
  ASSUME DriverInv, LexFile
  PROVE  DriverInv'
<1> USE DEF DriverInv, LexFile, Goto, args
<1>1. i \in 1 .. Len(files) /\ Len(files) \in Nat /\ i + 1 \in 1 .. MaxFiles + 1 /\ (i + 1) - 1 = i
  BY DriverAssumption DEF TypeOK, Progress
<1>2. TypeOK'
  BY <1>1 DEF TypeOK
<1>3. Progress'
  BY <1>1 DEF Progress
<1>4. PhasesSet' /\ ExitStatus' /\ ListGrows'
  BY DEF PhasesSet, ExitStatus, ListGrows, Progress
<1> QED BY <1>2, <1>3, <1>4

LEMMA FailToParseInv ==
  ASSUME DriverInv, FailToParse
  PROVE  DriverInv'
<1>1. i \in 1 .. Len(files) /\ files[i].is # "good"
  BY DEF FailToParse, DriverInv, TypeOK, Progress
<1> QED BY <1>1, ExitInv DEF FailToParse, OnParseError

----------------------------------------------------------------------------
(* The list of declarations.                                               *)

\* A cell whose list is at its end is behind all other cells.
LEMMA EndIsLast ==
  ASSUME NEW m \in Nat, NEW end \in Cells, OnList(end, m), Later(end, m) = {},
         NEW cell \in Cells, OnList(cell, m), cell # end
  PROVE  end \in Later(cell, m)
<1>1. ~Before(end, cell)
  <2>1. CASE cell = Declarations
    BY <2>1, CellTypes DEF Before
  <2>2. CASE cell # Declarations
    BY <2>2, CellTypes DEF Later
  <2> QED BY <2>1, <2>2
<1>2. Before(cell, end)
  BY <1>1, BeforeTotal
<1>3. end \in Decls
  BY <1>2, CellTypes DEF Before
<1> QED BY <1>2, <1>3 DEF Later

\* The next_decl of the list, or its first cell, is its end when a file is parsed.
LEMMA AtTheEnd ==
  ASSUME DriverInv, MergeFile
  PROVE  /\ EndOfList \in Cells
         /\ OnList(EndOfList, i - 1)
         /\ Later(EndOfList, i - 1) = {}
<1> USE DEF DriverInv
<1>1. i \in 1 .. Len(files) /\ ~config.lex_only /\ i \in Nat
  BY DEF MergeFile, Progress, TypeOK
<1>2. ListOf(i - 1)
  BY <1>1 DEF ListGrows, MergeFile
<1>3. CASE program = 0
  <2>1. EndOfList = Declarations /\ i = 1
    BY <1>1, <1>3 DEF EndOfList, ListGrows, MergeFile
  <2>2. ASSUME NEW d \in Decls, OnList(d, 0)
        PROVE  FALSE
    <3>1. d \in Cells /\ d # Declarations /\ d[1] <= 0
      BY <2>2, CellTypes DEF Cells, OnList
    <3> QED BY <3>1, CellTypes
  <2> QED BY <2>1, <2>2 DEF Later, Cells, OnList
<1>4. CASE program # 0
  <2>1. /\ EndOfList = next_decl
        /\ next_decl \in Cells
        /\ OnList(next_decl, i - 1)
        /\ next[next_decl] = NULL
    BY <1>1, <1>4 DEF EndOfList, ListGrows, MergeFile, TypeOK
  <2>2. Leads(next_decl, Later(next_decl, i - 1))
    BY <1>2, <2>1 DEF ListOf
  <2>3. NULL \notin Later(next_decl, i - 1)
    BY NullNoCell DEF Later, Cells
  <2> QED BY <2>1, <2>2, <2>3 DEF Leads
<1> QED BY <1>3, <1>4

\* MergeFile: the list of the files before this one becomes that of this one too.
LEMMA MergeList ==
  ASSUME DriverInv, MergeFile
  PROVE  ListOf(i)'
<1> USE DEF DriverInv, MergeFile, args
<1> DEFINE m == i - 1
           last == files[i].decls
<1>1. i \in 1 .. Len(files) /\ ~config.lex_only /\ i \in Nat /\ m \in Nat /\ m < i
  BY DEF Progress, TypeOK
<1>2. last \in 0 .. MaxDecls /\ last \in Nat /\ i \in 1 .. MaxFiles
  BY <1>1, FileDecls, DriverAssumption
<1>3. ListOf(m) /\ i' = i /\ files' = files
  BY <1>1 DEF ListGrows
<1>4. EndOfList \in Cells /\ OnList(EndOfList, m) /\ Later(EndOfList, m) = {}
  BY AtTheEnd
<1>5. \A cell \in Cells :
        next'[cell] = IF cell = EndOfList THEN First(i)
                      ELSE IF cell[1] = i THEN IF cell[2] < last THEN <<i, cell[2] + 1>> ELSE NULL
                      ELSE next[cell]
  BY DEF Linked
<1>6. \A cell \in Cells : OnList(cell, i)' <=> OnList(cell, i)
  BY <1>3 DEF OnList, Exists
<1>7. \A cell \in Cells : Later(cell, i)' = Later(cell, i)
  BY <1>3 DEF Later, OnList, Exists, Before
<1>8. \A d \in Decls : OnList(d, i) <=> OnList(d, m) \/ (d[1] = i /\ d[2] <= last)
  <2> SUFFICES ASSUME NEW d \in Decls
               PROVE  OnList(d, i) <=> OnList(d, m) \/ (d[1] = i /\ d[2] <= last)
    OBVIOUS
  <2>1. d \in Cells /\ d # Declarations /\ d[1] \in Nat /\ d[2] \in Nat
    BY CellTypes DEF Cells
  <2> QED BY <2>1, <1>1, <1>2 DEF OnList, Exists, m
<1> SUFFICES ASSUME NEW cell \in Cells, OnList(cell, i)
             PROVE  IF Later(cell, i) = {} THEN next'[cell] = NULL
                    ELSE /\ next'[cell] \in Later(cell, i)
                         /\ \A d \in Later(cell, i) : d = next'[cell] \/ Before(next'[cell], d)
  BY <1>3, <1>6, <1>7 DEF ListOf, Leads, Before
<1>9. ASSUME NEW k \in 1 .. last
      PROVE  <<i, k>> \in Decls /\ OnList(<<i, k>>, i)
  <2>1. <<i, k>> \in Decls
    BY <1>2, DriverAssumption DEF Decls
  <2> QED BY <2>1, <1>8, <1>2
<1>10. ASSUME NEW d \in Later(cell, i), d[1] = i
       PROVE  d = <<i, d[2]>> /\ d[2] \in 1 .. last
  <2>1. d \in Decls /\ d \in Cells /\ OnList(d, i) /\ d[2] \in 1 .. MaxDecls /\ d = <<d[1], d[2]>>
    BY <1>10, CellTypes DEF Later, Cells
  <2>2. ~OnList(d, m)
    BY <1>1, <1>10, <2>1, CellTypes DEF OnList
  <2> QED BY <1>2, <1>8, <1>10, <2>1, <2>2
<1>11. CASE cell = EndOfList
  <2>1. cell[1] < i
    BY <1>1, <1>4, <1>11, CellTypes DEF OnList
  <2>2. \A d \in Later(cell, i) : d[1] = i
    BY <1>4, <1>8, <1>11 DEF Later
  <2>3. CASE last = 0
    <3>1. Later(cell, i) = {}
      BY <2>2, <1>10, <2>3
    <3> QED BY <3>1, <1>5, <1>11, <2>3 DEF First
  <2>4. CASE last # 0
    <3>1. next'[cell] = <<i, 1>>
      BY <1>5, <1>11, <2>4 DEF First
    <3>2. <<i, 1>> \in Later(cell, i)
      BY <1>2, <1>9, <2>1, <2>4 DEF Later, Before
    <3>3. \A d \in Later(cell, i) : d = <<i, 1>> \/ Before(<<i, 1>>, d)
      BY <2>2, <1>10, <1>2 DEF Before
    <3> QED BY <3>1, <3>2, <3>3
  <2> QED BY <2>3, <2>4
<1>12. CASE cell # EndOfList /\ cell[1] = i
  <2>1. cell \in Decls /\ cell[2] \in 1 .. last /\ cell[1] = i
    <3>1. cell # Declarations
      BY <1>1, <1>12, CellTypes
    <3>2. cell \in Decls /\ cell[2] \in 1 .. MaxDecls
      BY <3>1, CellTypes
    <3>3. ~OnList(cell, m)
      BY <1>1, <1>12, <3>1 DEF OnList
    <3> QED BY <1>2, <1>8, <1>12, <3>2, <3>3
  <2>2. \A d \in Later(cell, i) : d[1] = i /\ d[2] > cell[2]
    <3> SUFFICES ASSUME NEW d \in Later(cell, i) PROVE d[1] = i /\ d[2] > cell[2]
      OBVIOUS
    <3>1. d \in Decls /\ d \in Cells /\ d # Declarations /\ OnList(d, i) /\ Before(cell, d)
      BY CellTypes DEF Later, Cells
    <3>2. d[1] <= i /\ d[1] \in Nat
      BY <3>1, CellTypes DEF OnList
    <3> QED BY <1>1, <2>1, <3>1, <3>2 DEF Before
  <2>3. CASE cell[2] < last
    <3>1. next'[cell] = <<i, cell[2] + 1>>
      BY <1>5, <1>12, <2>3
    <3>2. <<i, cell[2] + 1>> \in Later(cell, i)
      BY <1>1, <1>2, <1>9, <2>1, <2>3 DEF Later, Before
    <3>3. \A d \in Later(cell, i) : d = <<i, cell[2] + 1>> \/ Before(<<i, cell[2] + 1>>, d)
      BY <2>1, <2>2, <1>10, <1>2 DEF Before
    <3> QED BY <3>1, <3>2, <3>3
  <2>4. CASE cell[2] = last
    <3>1. Later(cell, i) = {}
      BY <2>2, <1>10, <2>4, <1>2
    <3>2. ~(cell[2] < last)
      BY <1>2, <2>4
    <3>3. next'[cell] = NULL
      BY <1>5, <1>12, <3>2
    <3> QED BY <3>1, <3>3
  <2> QED BY <2>1, <2>3, <2>4, <1>2
<1>13. CASE cell # EndOfList /\ cell[1] # i
  <2>1. OnList(cell, m)
    <3>1. CASE cell = Declarations
      BY <3>1 DEF OnList
    <3>2. CASE cell # Declarations
      BY <3>2, <1>8, <1>13, CellTypes
    <3> QED BY <3>1, <3>2
  <2>2. next'[cell] = next[cell]
    BY <1>5, <1>13
  <2>3. EndOfList \in Later(cell, m)
    BY <1>1, <1>4, <1>13, <2>1, EndIsLast
  <2>4. /\ next[cell] \in Later(cell, m)
        /\ \A d \in Later(cell, m) : d = next[cell] \/ Before(next[cell], d)
    BY <1>3, <2>1, <2>3 DEF ListOf, Leads
  <2>5. Later(cell, m) \subseteq Later(cell, i)
    BY <1>8 DEF Later
  <2>6. ASSUME NEW d \in Later(cell, i), d \notin Later(cell, m)
        PROVE  Before(next[cell], d)
    <3>1. d[1] = i
      BY <1>8, <2>6 DEF Later
    <3>2. next[cell] \in Decls /\ next[cell] \in Cells /\ OnList(next[cell], m)
      BY <2>4 DEF Later, Cells
    <3>3. next[cell][1] < i
      BY <1>1, <3>2, CellTypes DEF OnList
    <3> QED BY <3>1, <3>3 DEF Before
  <2> QED BY <2>2, <2>4, <2>5, <2>6
<1> QED BY <1>11, <1>12, <1>13

LEMMA MergeFileInv ==
  ASSUME DriverInv, MergeFile
  PROVE  DriverInv'
<1>1. ListOf(i)'
  BY MergeList
<1> USE DEF DriverInv, MergeFile, Goto, args
<1>2. i \in 1 .. Len(files) /\ i \in 1 .. MaxFiles /\ i \in Nat /\ ~config.lex_only
  BY DriverAssumption DEF Progress, TypeOK
<1>3. First(i) \in Decls \cup {NULL}
  BY <1>2, FileDecls, DriverAssumption DEF First, Decls
<1>4. \A cell \in Cells : Linked(next, i)[cell] \in Decls \cup {NULL}
  <2> SUFFICES ASSUME NEW cell \in Cells
               PROVE  Linked(next, i)[cell] \in Decls \cup {NULL}
    OBVIOUS
  <2>1. CASE cell[1] = i /\ cell[2] < files[i].decls
    <3>1. cell[2] + 1 \in 1 .. MaxDecls
      BY <1>2, <2>1, FileDecls, CellTypes, DriverAssumption
    <3> QED BY <1>2, <2>1, <3>1 DEF Linked, Decls
  <2>2. CASE ~(cell[1] = i /\ cell[2] < files[i].decls)
    BY <2>2 DEF Linked, TypeOK
  <2> QED BY <2>1, <2>2
<1>5. Declarations \in Cells
  BY DEF Cells
<1>6. TypeOK'
  <2>1. next' \in [Cells -> Decls \cup {NULL}]
    BY <1>3, <1>4
  <2>2. program' \in 0 .. MaxFiles
    BY <1>2 DEF TypeOK
  <2> QED BY <1>5, <2>1, <2>2 DEF TypeOK
<1>7. Progress'
  <2>1. \A f \in 1 .. i : files[f].is = "good"
    BY <1>2 DEF Progress
  <2> QED BY <1>2, <2>1 DEF Progress
<1>8. PhasesSet' /\ ExitStatus'
  BY DEF PhasesSet, ExitStatus
<1>9. program' # 0
  BY <1>2
<1>10. ListGrows'
  BY <1>1, <1>2, <1>9 DEF ListGrows, OnList
<1> QED BY <1>6, <1>7, <1>8, <1>10

LEMMA WalkListInv ==
  ASSUME DriverInv, WalkList
  PROVE  DriverInv'
<1> USE DEF DriverInv, WalkList, Following, args
<1>1. i \in Nat /\ ~config.lex_only /\ program # 0
  BY DEF Progress, TypeOK, ListGrows
<1>2. next_decl \in Cells /\ OnList(next_decl, i) /\ ListOf(i)
  BY <1>1 DEF TypeOK, ListGrows
<1>3. next[next_decl] \in Later(next_decl, i)
  BY <1>2 DEF ListOf, Leads
<1>4. next_decl' \in Cells /\ OnList(next_decl', i)
  BY <1>3 DEF Later, Cells
<1>5. TypeOK'
  BY <1>4 DEF TypeOK
<1>6. Progress' /\ PhasesSet' /\ ExitStatus'
  BY DEF Progress, PhasesSet, ExitStatus
<1>7. ListOf(i)' /\ OnList(next_decl, i)'
  BY <1>2, <1>4 DEF ListOf, Leads, Later, OnList, Exists, Before
<1>8. ListGrows'
  BY <1>1, <1>7 DEF ListGrows
<1> QED BY <1>5, <1>6, <1>8

LEMMA EndWalkInv ==
  ASSUME DriverInv, EndWalk
  PROVE  DriverInv'
<1> USE DEF DriverInv, EndWalk, Goto, args
<1>1. /\ i \in 1 .. Len(files) /\ Len(files) \in Nat /\ Len(files) <= MaxFiles
      /\ i + 1 \in 1 .. MaxFiles + 1
      /\ i' = i + 1 /\ (i + 1) - 1 = i
      /\ ~config.lex_only /\ program # 0
  BY DriverAssumption DEF TypeOK, Progress, ListGrows
<1>2. TypeOK'
  BY <1>1 DEF TypeOK
<1>3. Progress'
  BY <1>1 DEF Progress
<1>4. PhasesSet' /\ ExitStatus'
  BY DEF PhasesSet, ExitStatus
<1>5. ListOf(i) /\ OnList(next_decl, i) /\ i' - 1 = i
  BY <1>1 DEF ListGrows
<1>6. ListOf(i - 1)' /\ OnList(next_decl, i - 1)'
  BY <1>5 DEF ListOf, Leads, Later, OnList, Exists, Before
<1>7. ListGrows'
  BY <1>1, <1>6 DEF ListGrows
<1> QED BY <1>2, <1>3, <1>4, <1>7

----------------------------------------------------------------------------
(* The phases, and the way out.                                            *)

LEMMA EndOfFilesInv ==
  ASSUME DriverInv, EndOfFiles
  PROVE  DriverInv'
<1> USE DEF DriverInv, EndOfFiles, Goto, args
<1>1. i \in Nat /\ Len(files) \in Nat /\ i = Len(files) + 1 /\ i - 1 = Len(files)
  BY DEF TypeOK, Progress
<1>2. TypeOK'
  BY DEF TypeOK
<1>3. Progress' /\ PhasesSet' /\ ExitStatus'
  BY <1>1 DEF Progress, PhasesSet, ExitStatus
<1>4. ~config.lex_only => ListOf(i - 1)
  BY DEF ListGrows
<1>5. ListOf(i - 1)' <=> ListOf(i - 1)
  BY DEF ListOf, Leads, Later, OnList, Exists, Before
<1>6. ListGrows'
  BY <1>4, <1>5 DEF ListGrows
<1> QED BY <1>2, <1>3, <1>6

LEMMA ResolveInv ==
  ASSUME DriverInv, Resolve
  PROVE  DriverInv'
<1> USE DEF DriverInv, Resolve, Goto, args
<1>1. TypeOK'
  BY DEF TypeOK, HadError
<1>2. Progress' /\ PhasesSet' /\ ExitStatus'
  BY DEF Progress, PhasesSet, ExitStatus
<1>3. ListOf(i - 1)' <=> ListOf(i - 1)
  BY DEF ListOf, Leads, Later, OnList, Exists, Before
<1>4. ListGrows'
  BY <1>3 DEF ListGrows
<1> QED BY <1>1, <1>2, <1>4

LEMMA CrashInv ==
  ASSUME DriverInv, Crash
  PROVE  DriverInv'
BY DEF DriverInv, Crash, Goto, args, TypeOK, Progress, PhasesSet, ExitStatus, ListGrows

LEMMA TypecheckInv ==
  ASSUME DriverInv, Typecheck
  PROVE  DriverInv'
BY DEF DriverInv, Typecheck, Goto, args, TypeOK, HadError, Progress, PhasesSet, ExitStatus, ListGrows

LEMMA CleanupInv ==
  ASSUME DriverInv, Cleanup
  PROVE  DriverInv'
<1> USE DEF DriverInv, Cleanup, Exit, args
<1>1. PICK r \in MayRead(resolver), t \in MayRead(tc) :
        pc' = "exited" /\ status' = IF Failed(r, t) THEN 1 ELSE 0
  OBVIOUS
<1>2. TypeOK'
  BY <1>1 DEF TypeOK
<1>3. Progress' /\ PhasesSet' /\ ListGrows'
  BY DEF Progress, PhasesSet, ListGrows
<1>4. ExitStatus'
  <2>1. CASE config.lex_only
    BY <2>1 DEF ExitStatus
  <2>2. CASE ~config.lex_only
    <3>1. /\ ~config.unknown /\ files # <<>>
          /\ \A f \in 1 .. Len(files) : files[f].is = "good"
      BY <2>2 DEF Progress
    <3>2. resolver = "yes" \/ (resolver = "no" /\ tc \in {"no", "yes"})
      BY <2>2 DEF PhasesSet, TypeOK, HadError
    <3>3. status' = 0 <=> resolver = "no" /\ tc = "no"
      <4>1. (r <=> resolver = "yes") /\ (resolver = "no" => (t <=> tc = "yes"))
        <5>1. r \in {resolver = "yes"} /\ (resolver = "no" => t \in {tc = "yes"})
          BY <3>2 DEF MayRead
        <5> QED BY <5>1, Zenon
      <4>2. status' = 0 <=> ~(r \/ t)
        BY <1>1 DEF Failed
      <4> QED BY <3>2, <4>1, <4>2
    <3> QED BY <3>1, <3>3 DEF ExitStatus
  <2> QED BY <2>1, <2>2
<1> QED BY <1>2, <1>3, <1>4

LEMMA NextInv ==
  ASSUME DriverInv, [Next]_vars
  PROVE  DriverInv'
<1>1. CASE UNCHANGED vars
  <2> USE <1>1 DEF vars, args, DriverInv
  <2>1. TypeOK' /\ Progress' /\ PhasesSet' /\ ExitStatus'
    BY DEF TypeOK, Progress, PhasesSet, ExitStatus
  <2>2. ListGrows'
    BY DEF ListGrows, ListOf, Leads, Later, OnList, Exists, Before
  <2> QED BY <2>1, <2>2
<1> QED
  BY <1>1, RefuseOptionInv, StartInv, FailToReadInv, ReadFileInv, LexFileInv, FailToParseInv,
     MergeFileInv, WalkListInv, EndWalkInv, EndOfFilesInv, ResolveInv, CrashInv, TypecheckInv,
     CleanupInv DEF Next

----------------------------------------------------------------------------

\* The inductive invariant holds in every state of the driver.
THEOREM DriverSafe == Spec => []DriverInv
<1>1. Init => DriverInv
  BY InitInv
<1>2. DriverInv /\ [Next]_vars => DriverInv'
  BY NextInv
<1> QED BY <1>1, <1>2, PTL DEF Spec

\* The list that is resolved and checked holds every declaration of every file, in
\* order, however many files there are and whichever of them are empty.
THEOREM DriverMerged == Spec => []Merged
<1>1. ASSUME DriverInv PROVE Merged
  <2> USE <1>1 DEF DriverInv
  <2> SUFFICES ASSUME pc \in {"resolve", "typecheck"}, NEW cell \in Cells,
                      cell = Declarations \/ Exists(cell)
               PROVE  Leads(cell, {d \in Decls : Exists(d) /\ Before(cell, d)})
    BY DEF Merged
  <2>1. i - 1 = Len(files) /\ Len(files) \in Nat /\ ListOf(i - 1)
    BY DEF Progress, TypeOK, ListGrows
  <2>2. \A d \in Decls : OnList(d, i - 1) <=> Exists(d)
    <3> SUFFICES ASSUME NEW d \in Decls PROVE OnList(d, i - 1) <=> Exists(d)
      OBVIOUS
    <3>1. d \in Cells /\ d # Declarations
      BY CellTypes DEF Cells
    <3> QED BY <2>1, <3>1 DEF OnList, Exists
  <2>3. OnList(cell, i - 1)
    BY <2>2, CellTypes DEF OnList
  <2>4. Later(cell, i - 1) = {d \in Decls : Exists(d) /\ Before(cell, d)}
    BY <2>2 DEF Later
  <2> QED BY <2>1, <2>3, <2>4 DEF ListOf
<1> QED BY <1>1, DriverSafe, PTL

\* The cleanup frees only texts that were read, and unless only tokens are printed
\* the exit status is 0 just if every file and every phase was without error.
THEOREM DriverLeaves == Spec => []LeavesInOrder
<1>1. DriverInv => LeavesInOrder
  BY DEF DriverInv, LeavesInOrder, Progress, CleanupFreesRead
<1> QED BY <1>1, DriverSafe, PTL

----------------------------------------------------------------------------
(* Loops over lists                                                        *)

\* Every set of numbers has a least element.
LEMMA Least ==
  ASSUME NEW T \in SUBSET Nat, T # {}
  PROVE  \E k \in T : \A j \in T : k <= j
<1> DEFINE R == {ss \in Nat \X Nat : ss[1] < ss[2]}
<1>1. IsWellFoundedOn(R, Nat)
  BY NatLessThanWellFounded DEF OpToRel
<1>2. ASSUME NEW k \in Nat, NEW j \in Nat, <<j, k>> \notin R
      PROVE  k <= j
  <2>1. <<j, k>> \in Nat \X Nat /\ <<j, k>>[1] = j /\ <<j, k>>[2] = k
    OBVIOUS
  <2> QED
    BY <1>2, <2>1
<1> HIDE DEF R
<1>3. \E k \in T : \A j \in T : <<j, k>> \notin R
  BY <1>1, WFMin
<1> QED
  BY <1>2, <1>3

LEMMA Greatest ==
  ASSUME NEW n \in Nat, NEW T \in SUBSET (1 .. n), T # {}
  PROVE  \E k \in T : \A j \in T : j <= k
<1> DEFINE U == {d \in Nat : \E k \in T : d = n - k}
<1>1. \A k \in T : k \in 1 .. n /\ n - k \in Nat /\ n - k \in U
  OBVIOUS
<1>2. U # {}
  BY <1>1
<1>3. \E u \in U : \A y \in U : u <= y
  <2> HIDE DEF U
  <2> QED
    BY <1>2, Least DEF U
<1>4. PICK k \in T : \A y \in U : n - k <= y
  BY <1>3
<1>5. \A j \in T : n - k <= n - j
  BY <1>1, <1>4
<1> QED
  BY <1>1, <1>5

\* Induction up to n, for the members of a set.
LEMMA UpTo ==
  ASSUME NEW n \in Nat, NEW T, 0 \in T, \A k \in 1 .. n : k - 1 \in T => k \in T
  PROVE  0 .. n \subseteq T
<1> DEFINE U == {k \in 0 .. n : k \notin T}
<1>1. SUFFICES ASSUME U # {} PROVE FALSE
  OBVIOUS
<1>2. PICK k \in U : \A j \in U : k <= j
  <2>1. U \in SUBSET Nat
    OBVIOUS
  <2> HIDE DEF U
  <2> QED
    BY <1>1, <2>1, Least
<1>3. k \in 1 .. n /\ k - 1 \in 0 .. n
  BY <1>2
<1>4. k - 1 \in T
  BY <1>2, <1>3
<1> QED
  BY <1>2, <1>3, <1>4

\* What a loop makes of x, round by round.
Rounds(f, n, x, step) == f[0] = x /\ \A k \in 1 .. n : f[k] = step[k][f[k - 1]]

LEMMA RoundsExist ==
  ASSUME NEW n \in Nat, NEW S, NEW x \in S, NEW step \in [1 .. n -> [S -> S]]
  PROVE  \E f \in [0 .. n -> S] : Rounds(f, n, x, step)
<1> DEFINE T == {m \in 0 .. n : \E f \in [0 .. n -> S] : Rounds(f, m, x, step)}
<1>1. 0 \in T
  <2>1. [k \in 0 .. n |-> x] \in [0 .. n -> S] /\ Rounds([k \in 0 .. n |-> x], 0, x, step)
    BY DEF Rounds
  <2> QED
    BY <2>1
<1>2. ASSUME NEW m \in 1 .. n, m - 1 \in T
      PROVE  m \in T
  <2>1. PICK f \in [0 .. n -> S] : Rounds(f, m - 1, x, step)
    BY <1>2
  <2>2. m \in 0 .. n /\ m - 1 \in 0 .. n /\ m # 0 /\ f[m - 1] \in S
    OBVIOUS
  <2> DEFINE g == [f EXCEPT ![m] = step[m][f[m - 1]]]
  <2>3. g \in [0 .. n -> S] /\ g[0] = x /\ g[m] = step[m][f[m - 1]]
    BY <2>1, <2>2 DEF Rounds
  <2>4. \A k \in 0 .. n : k # m => g[k] = f[k]
    BY <2>2
  <2> HIDE DEF g
  <2>5. ASSUME NEW k \in 1 .. m
        PROVE  g[k] = step[k][g[k - 1]]
    <3>1. k - 1 \in 0 .. n /\ k - 1 # m /\ g[k - 1] = f[k - 1]
      BY <2>2, <2>4
    <3>2. k # m => k \in 1 .. m - 1 /\ k \in 0 .. n /\ g[k] = f[k]
      BY <2>2, <2>4
    <3> QED
      BY <2>1, <2>3, <3>1, <3>2 DEF Rounds
  <2>6. Rounds(g, m, x, step)
    BY <2>3, <2>5 DEF Rounds
  <2> QED
    BY <2>2, <2>3, <2>6
<1>3. n \in T
  <2>1. 0 .. n \subseteq T
    <3> HIDE DEF T
    <3> QED
      BY <1>1, <1>2, UpTo
  <2>2. n \in 0 .. n
    OBVIOUS
  <2> HIDE DEF T
  <2> QED
    BY <2>1, <2>2
<1> QED
  BY <1>3

\* Two functions that agree at 0 and from each number to the next agree up to n.
Agreeing(f, g, n) == f[0] = g[0] /\ \A k \in 1 .. n : f[k - 1] = g[k - 1] => f[k] = g[k]

LEMMA RoundsAgree ==
  ASSUME NEW n \in Nat, NEW f, NEW g, Agreeing(f, g, n)
  PROVE  f[n] = g[n]
<1> DEFINE T == {k \in 0 .. n : f[k] = g[k]}
<1>1. 0 \in T /\ \A k \in 1 .. n : k - 1 \in T => k \in T
  BY DEF Agreeing
<1>2. 0 .. n \subseteq T
  <2> HIDE DEF T
  <2> QED
    BY <1>1, UpTo
<1> QED
  BY <1>2

NewTypesKeeps(S, n, list) == \A k \in 1 .. n, y \in S : NewTypes(y, list[k]) \in S
NewTypesAfter(x, list, n) ==
  LET after[k \in 0 .. n] == IF k = 0 THEN x ELSE NewTypes(after[k - 1], list[k]) IN after[n]
NewTypesRun(f, n, x, list) == f[0] = x /\ \A k \in 1 .. n : f[k] = NewTypes(f[k - 1], list[k])
PopulateKeeps(S, n, list) == \A k \in 1 .. n, y \in S : Populate(y, list[k]) \in S
PopulateAfter(x, list, n) ==
  LET after[k \in 0 .. n] == IF k = 0 THEN x ELSE Populate(after[k - 1], list[k]) IN after[n]
PopulateRun(f, n, x, list) == f[0] = x /\ \A k \in 1 .. n : f[k] = Populate(f[k - 1], list[k])
DeclareKeeps(S, n, list) == \A k \in 1 .. n, y \in S : Declare(y, list[k]) \in S
DeclareAfter(x, list, n) ==
  LET after[k \in 0 .. n] == IF k = 0 THEN x ELSE Declare(after[k - 1], list[k]) IN after[n]
DeclareRun(f, n, x, list) == f[0] = x /\ \A k \in 1 .. n : f[k] = Declare(f[k - 1], list[k])

LEMMA NewTypesRounds ==
  ASSUME NEW list, NEW n \in Nat, NEW S, NEW x \in S,
         NewTypesKeeps(S, n, list)
  PROVE  \E f \in [0 .. n -> S] :
           NewTypesRun(f, n, x, list) /\ NewTypesAfter(x, list, n) = f[n]
<1> DEFINE Round(f, k) == IF k = 0 THEN x ELSE NewTypes(f[k - 1], list[k])
           after == CHOOSE f : f = [k \in 0 .. n |-> Round(f, k)]
<1> HIDE DEF Round, after
<1>1. PICK step \in [1 .. n -> [S -> S]] :
        \A k \in 1 .. n, y \in S : step[k][y] = NewTypes(y, list[k])
  <2>1. [k \in 1 .. n |-> [y \in S |-> NewTypes(y, list[k])]] \in [1 .. n -> [S -> S]]
    BY DEF NewTypesKeeps
  <2> QED
    BY <2>1
<1>2. PICK f \in [0 .. n -> S] : Rounds(f, n, x, step)
  BY RoundsExist
<1>3. ASSUME NEW k \in 1 .. n
      PROVE  k # 0 /\ k \in 0 .. n /\ f[k] = NewTypes(f[k - 1], list[k])
  <2>1. k - 1 \in 0 .. n /\ f[k - 1] \in S
    OBVIOUS
  <2> QED
    BY <1>1, <1>2, <2>1 DEF Rounds
<1>4. f = [k \in 0 .. n |-> Round(f, k)]
  BY <1>2, <1>3 DEF Round, Rounds
<1>5. after = [k \in 0 .. n |-> Round(after, k)]
  BY <1>4 DEF after
<1>6. Agreeing(after, f, n)
  BY <1>2, <1>3, <1>5 DEF Round, Rounds, Agreeing
<1>7. after[n] = f[n]
  BY <1>6, RoundsAgree
<1>8. NewTypesRun(f, n, x, list)
  BY <1>2, <1>3 DEF NewTypesRun, Rounds
<1> QED
  BY <1>7, <1>8 DEF after, Round, NewTypesAfter

LEMMA NewTypesThrough ==
  ASSUME NEW list, NEW n \in Nat, n = Len(list), NEW S, NEW x \in S, NewTypesKeeps(S, n, list)
  PROVE  \E f \in [0 .. n -> S] :
           NewTypesRun(f, n, x, list) /\ Through(NewTypes, x, list) = f[n]
<1>1. Through(NewTypes, x, list) = NewTypesAfter(x, list, n)
  BY DEF Through, NewTypesAfter
<1> QED
  BY <1>1, NewTypesRounds

LEMMA PopulateRounds ==
  ASSUME NEW list, NEW n \in Nat, NEW S, NEW x \in S,
         PopulateKeeps(S, n, list)
  PROVE  \E f \in [0 .. n -> S] :
           PopulateRun(f, n, x, list) /\ PopulateAfter(x, list, n) = f[n]
<1> DEFINE Round(f, k) == IF k = 0 THEN x ELSE Populate(f[k - 1], list[k])
           after == CHOOSE f : f = [k \in 0 .. n |-> Round(f, k)]
<1> HIDE DEF Round, after
<1>1. PICK step \in [1 .. n -> [S -> S]] :
        \A k \in 1 .. n, y \in S : step[k][y] = Populate(y, list[k])
  <2>1. [k \in 1 .. n |-> [y \in S |-> Populate(y, list[k])]] \in [1 .. n -> [S -> S]]
    BY DEF PopulateKeeps
  <2> QED
    BY <2>1
<1>2. PICK f \in [0 .. n -> S] : Rounds(f, n, x, step)
  BY RoundsExist
<1>3. ASSUME NEW k \in 1 .. n
      PROVE  k # 0 /\ k \in 0 .. n /\ f[k] = Populate(f[k - 1], list[k])
  <2>1. k - 1 \in 0 .. n /\ f[k - 1] \in S
    OBVIOUS
  <2> QED
    BY <1>1, <1>2, <2>1 DEF Rounds
<1>4. f = [k \in 0 .. n |-> Round(f, k)]
  BY <1>2, <1>3 DEF Round, Rounds
<1>5. after = [k \in 0 .. n |-> Round(after, k)]
  BY <1>4 DEF after
<1>6. Agreeing(after, f, n)
  BY <1>2, <1>3, <1>5 DEF Round, Rounds, Agreeing
<1>7. after[n] = f[n]
  BY <1>6, RoundsAgree
<1>8. PopulateRun(f, n, x, list)
  BY <1>2, <1>3 DEF PopulateRun, Rounds
<1> QED
  BY <1>7, <1>8 DEF after, Round, PopulateAfter

LEMMA PopulateThrough ==
  ASSUME NEW list, NEW n \in Nat, n = Len(list), NEW S, NEW x \in S, PopulateKeeps(S, n, list)
  PROVE  \E f \in [0 .. n -> S] :
           PopulateRun(f, n, x, list) /\ Through(Populate, x, list) = f[n]
<1>1. Through(Populate, x, list) = PopulateAfter(x, list, n)
  BY DEF Through, PopulateAfter
<1> QED
  BY <1>1, PopulateRounds

LEMMA DeclareRounds ==
  ASSUME NEW list, NEW n \in Nat, NEW S, NEW x \in S,
         DeclareKeeps(S, n, list)
  PROVE  \E f \in [0 .. n -> S] :
           DeclareRun(f, n, x, list) /\ DeclareAfter(x, list, n) = f[n]
<1> DEFINE Round(f, k) == IF k = 0 THEN x ELSE Declare(f[k - 1], list[k])
           after == CHOOSE f : f = [k \in 0 .. n |-> Round(f, k)]
<1> HIDE DEF Round, after
<1>1. PICK step \in [1 .. n -> [S -> S]] :
        \A k \in 1 .. n, y \in S : step[k][y] = Declare(y, list[k])
  <2>1. [k \in 1 .. n |-> [y \in S |-> Declare(y, list[k])]] \in [1 .. n -> [S -> S]]
    BY DEF DeclareKeeps
  <2> QED
    BY <2>1
<1>2. PICK f \in [0 .. n -> S] : Rounds(f, n, x, step)
  BY RoundsExist
<1>3. ASSUME NEW k \in 1 .. n
      PROVE  k # 0 /\ k \in 0 .. n /\ f[k] = Declare(f[k - 1], list[k])
  <2>1. k - 1 \in 0 .. n /\ f[k - 1] \in S
    OBVIOUS
  <2> QED
    BY <1>1, <1>2, <2>1 DEF Rounds
<1>4. f = [k \in 0 .. n |-> Round(f, k)]
  BY <1>2, <1>3 DEF Round, Rounds
<1>5. after = [k \in 0 .. n |-> Round(after, k)]
  BY <1>4 DEF after
<1>6. Agreeing(after, f, n)
  BY <1>2, <1>3, <1>5 DEF Round, Rounds, Agreeing
<1>7. after[n] = f[n]
  BY <1>6, RoundsAgree
<1>8. DeclareRun(f, n, x, list)
  BY <1>2, <1>3 DEF DeclareRun, Rounds
<1> QED
  BY <1>7, <1>8 DEF after, Round, DeclareAfter

LEMMA DeclareThrough ==
  ASSUME NEW list, NEW n \in Nat, n = Len(list), NEW S, NEW x \in S, DeclareKeeps(S, n, list)
  PROVE  \E f \in [0 .. n -> S] :
           DeclareRun(f, n, x, list) /\ Through(Declare, x, list) = f[n]
<1>1. Through(Declare, x, list) = DeclareAfter(x, list, n)
  BY DEF Through, DeclareAfter
<1> QED
  BY <1>1, DeclareRounds

----------------------------------------------------------------------------
(* What is looked up                                                       *)

Scope == [Names -> Symbols \cup {NoSymbol}]

LEMMA SymbolIs ==
  \A type \in SymbolTypes : /\ Symbol(type) \in Symbols
                            /\ Symbol(type) # NoSymbol
                            /\ Symbol(type).type = type
BY CollectAssumption DEF Symbol, Symbols

\* TypeOf is the type of the innermost symbol of the name, if there is any.
LEMMA TypeOfIs ==
  ASSUME NEW ch \in Seq(Scope), NEW name \in Names
  PROVE  \/ /\ TypeOf(ch, name) = NoType
            /\ \A j \in 1 .. Len(ch) : ch[j][name] = NoSymbol
         \/ \E k \in 1 .. Len(ch) :
              /\ TypeOf(ch, name) = ch[k][name].type
              /\ ch[k][name] # NoSymbol
              /\ \A j \in k + 1 .. Len(ch) : ch[j][name] = NoSymbol
<1>1. CASE Defining(ch, name) = {}
  BY <1>1 DEF TypeOf, Lookup, Defining
<1>2. CASE Defining(ch, name) # {}
  <2>1. Defining(ch, name) \in SUBSET (1 .. Len(ch)) /\ Len(ch) \in Nat
    BY DEF Defining
  <2>2. \E k \in Defining(ch, name) : \A j \in Defining(ch, name) : j <= k
    BY <1>2, <2>1, Greatest
  <2>3. /\ Innermost(ch, name) \in Defining(ch, name)
        /\ \A j \in Defining(ch, name) : j <= Innermost(ch, name)
    BY <2>2 DEF Innermost
  <2> DEFINE k == Innermost(ch, name)
  <2>4. k \in 1 .. Len(ch) /\ ch[k][name] # NoSymbol
    BY <2>3 DEF Defining
  <2>5. TypeOf(ch, name) = ch[k][name].type
    BY <1>2, <2>4 DEF TypeOf, Lookup
  <2>6. ASSUME NEW j \in k + 1 .. Len(ch)
        PROVE  ch[j][name] = NoSymbol
    <3>1. j \in 1 .. Len(ch) /\ ~(j <= k)
      BY <2>1, <2>4
    <3> QED
      BY <2>3, <3>1 DEF Defining
  <2> QED
    BY <2>4, <2>5, <2>6
<1> QED
  BY <1>1, <1>2

----------------------------------------------------------------------------
(* Lists that collect nothing                                              *)

\* What the checker takes for a list has no declarations of types or values.
LEMMA NothingCollected ==
  ASSUME NEW ch, NEW list, list = <<>> \/ \E name \in Names : list = <<[kind |-> "method", of |-> name]>>
  PROVE  CollectFrom(ch, list).chain = ch
<1> DEFINE n == Len(list)
<1>1. n \in Nat /\ \A k \in 1 .. n : list[k].kind = "method"
  OBVIOUS
<1> HIDE DEF n
<1>2. Through(NewTypes, ch, list) = ch
  <2>1. NewTypesKeeps({ch}, n, list)
    BY <1>1 DEF NewTypesKeeps, NewTypes
  <2>2. \E f \in [0 .. n -> {ch}] : NewTypesRun(f, n, ch, list) /\ Through(NewTypes, ch, list) = f[n]
    BY <1>1, <2>1, NewTypesThrough DEF n
  <2> QED
    BY <1>1, <2>2
<1>3. Through(Populate, ch, list) = ch
  <2>1. PopulateKeeps({ch}, n, list)
    BY <1>1 DEF PopulateKeeps, Populate
  <2>2. \E f \in [0 .. n -> {ch}] : PopulateRun(f, n, ch, list) /\ Through(Populate, ch, list) = f[n]
    BY <1>1, <2>1, PopulateThrough DEF n
  <2> QED
    BY <1>1, <2>2
<1> DEFINE S == [chain : {ch}, reported : Seq(BOOLEAN)]
           out == [chain |-> ch, reported |-> <<>>]
<1>4. out \in S
  OBVIOUS
<1>5. DeclareKeeps(S, n, list)
  <2> SUFFICES ASSUME NEW k \in 1 .. n, NEW y \in S
               PROVE  Declare(y, list[k]) \in S
    BY DEF DeclareKeeps
  <2>1. Typed(y.chain, list[k]) = ch
    BY <1>1 DEF Typed
  <2>2. Reports(y.chain, list[k]) \in BOOLEAN
    BY DEF Reports
  <2>3. Append(y.reported, Reports(y.chain, list[k])) \in Seq(BOOLEAN)
    BY <2>2
  <2> QED
    BY <2>1, <2>3 DEF Declare
<1> HIDE DEF S
<1>6. \E f \in [0 .. n -> S] : DeclareRun(f, n, out, list) /\ Through(Declare, out, list) = f[n]
  <2> HIDE DEF out
  <2> QED
    BY <1>1, <1>4, <1>5, DeclareThrough DEF n
<1>7. Through(Declare, out, list) \in S
  <2> HIDE DEF out
  <2> QED
    BY <1>1, <1>6
<1>8. CollectFrom(ch, list) = Through(Declare, out, list)
  BY <1>2, <1>3 DEF CollectFrom, Collect
<1> QED
  BY <1>7, <1>8 DEF S

----------------------------------------------------------------------------
(* The log                                                                 *)

LEMMA OpenIs ==
  ASSUME log \in Seq(Events)
  PROVE  /\ Len(log) \in Nat
         /\ DOMAIN log = 1 .. Len(log)
         /\ Open \in Nat
         /\ Len(log) > 0 => Open = log[Len(log)].open
         /\ \A j \in 1 .. Len(log) : log[j] \in Events /\ log[j].open \in Nat
<1>1. Len(log) \in Nat /\ DOMAIN log = 1 .. Len(log) /\ (log # <<>> <=> Len(log) > 0)
  BY EmptySeq
<1>2. \A j \in 1 .. Len(log) : log[j] \in Events
  BY ElementOfSeq
<1> QED
  BY <1>1, <1>2 DEF Open, Events

\* What an event with these names, after which this many scopes are open, adds.
Noted(event, names, open) ==
  /\ log' \in Seq(Events)
  /\ Len(log') = Len(log) + 1
  /\ \A j \in 1 .. Len(log) : log'[j] = log[j]
  /\ log'[Len(log) + 1] = [event |-> event, names |-> names, open |-> open]
  /\ Open' = open

LEMMA NoteIs ==
  ASSUME log \in Seq(Events), NEW names \in SUBSET Names, NEW open \in Nat,
         NEW event \in {"open", "var", "use", "undefined", "close", "end"},
         Note(event, names),
         open = CASE event = "open" -> Open + 1
                  [] event = "close" -> Open - 1
                  [] event = "end" -> 0
                  [] OTHER -> Open
  PROVE  Noted(event, names, open)
<1> DEFINE e == [event |-> event, names |-> names, open |-> open]
<1>1. e \in Events /\ log' = Append(log, e)
  BY DEF Events, Note
<1> HIDE DEF e
<1>2. /\ log' \in Seq(Events)
      /\ Len(log') = Len(log) + 1
      /\ \A j \in 1 .. Len(log) : log'[j] = log[j]
      /\ log'[Len(log) + 1] = e
  BY <1>1, AppendProperties
<1>3. Open' = e.open
  <2>1. log' # <<>>
    BY <1>2, OpenIs, EmptySeq
  <2> QED
    BY <1>2, <2>1 DEF Open
<1> QED
  BY <1>2, <1>3 DEF Noted, e

LEMMA StillOpenNext ==
  ASSUME log \in Seq(Events), NEW event, NEW names, NEW open, Noted(event, names, open),
         NEW n, n = Len(log)
  PROVE  /\ \A j, m \in 1 .. n : StillOpen(j, m)' <=> StillOpen(j, m)
         /\ \A j \in 1 .. n :
              StillOpen(j, n + 1)' <=> StillOpen(j, n) /\ open >= log[j].open
         /\ StillOpen(n + 1, n + 1)'
<1>1. n = Len(log) /\ n \in Nat
  BY OpenIs
<1>2. ASSUME NEW j \in 1 .. n, NEW m \in 1 .. n
      PROVE  StillOpen(j, m)' <=> StillOpen(j, m)
  <2>1. \A k \in j + 1 .. m : k \in 1 .. n
    BY <1>1
  <2> QED
    BY <1>1, <2>1 DEF StillOpen, Noted
<1>3. ASSUME NEW j \in 1 .. n
      PROVE  StillOpen(j, n + 1)' <=> StillOpen(j, n) /\ open >= log[j].open
  <2>1. log'[n + 1].open = open /\ log'[j] = log[j]
    BY DEF Noted
  <2>2. \A k \in j + 1 .. n : log'[k] = log[k] /\ k \in j + 1 .. n + 1
    BY <1>1 DEF Noted
  <2>3. ASSUME StillOpen(j, n + 1)'
        PROVE  StillOpen(j, n) /\ open >= log[j].open
    <3>1. \A k \in j + 1 .. n + 1 : log'[k].open >= log[j].open
      BY <2>1, <2>3 DEF StillOpen
    <3>2. n + 1 \in j + 1 .. n + 1
      BY <1>1
    <3>3. open >= log[j].open
      BY <2>1, <3>1, <3>2
    <3>4. StillOpen(j, n)
      BY <2>2, <3>1 DEF StillOpen
    <3> QED
      BY <3>3, <3>4
  <2>4. ASSUME StillOpen(j, n), open >= log[j].open
        PROVE  StillOpen(j, n + 1)'
    <3>1. ASSUME NEW k \in j + 1 .. n + 1
          PROVE  log'[k].open >= log[j].open
      <4>1. k = n + 1 \/ k \in j + 1 .. n
        BY <1>1
      <4> QED
        BY <2>1, <2>2, <2>4, <4>1 DEF StillOpen
    <3> QED
      BY <2>1, <3>1 DEF StillOpen
  <2> QED
    BY <2>3, <2>4
<1>4. StillOpen(n + 1, n + 1)'
  BY <1>1 DEF StillOpen
<1> QED
  BY <1>2, <1>3, <1>4

\* What is noted to be defined in scope k, and what an event adds to it or ends.
Has(k, name) == \E j \in DOMAIN log : Defines(j, k, name)

LEMMA HasOpen ==
  ASSUME log \in Seq(Events), NEW k \in Nat, NEW name, Has(k, name)
  PROVE  k - 1 <= Open
<1>1. PICK j \in 1 .. Len(log) : Defines(j, k, name)
  BY OpenIs DEF Has
<1>2. Len(log) \in Nat /\ log[j].open = k - 1 /\ Open = log[Len(log)].open
  BY <1>1, OpenIs DEF Defines
<1>3. CASE j = Len(log)
  BY <1>2, <1>3, OpenIs
<1>4. CASE j # Len(log)
  <2>1. Len(log) \in j + 1 .. Len(log)
    BY <1>2, <1>4
  <2> QED
    BY <1>1, <1>2, <2>1, OpenIs DEF Defines, StillOpen
<1> QED
  BY <1>3, <1>4

LEMMA HasNext ==
  ASSUME log \in Seq(Events), NEW event, NEW names, NEW open, Noted(event, names, open),
         NEW k \in Nat, NEW name
  PROVE  Has(k, name)' <=> \/ Has(k, name) /\ open >= k - 1
                           \/ event \in {"var", "open"} /\ name \in names /\ open = k - 1
<1>0. PICK n : n = Len(log)
  OBVIOUS
<1>1. /\ DOMAIN log = 1 .. n /\ n = Len(log) /\ n \in Nat
      /\ (DOMAIN log)' = 1 .. n + 1 /\ Len(log') = n + 1
  BY <1>0, OpenIs DEF Noted
<1>2. ASSUME NEW j \in 1 .. n
      PROVE  Defines(j, k, name)' <=> Defines(j, k, name) /\ open >= k - 1
  <2>1. log'[j] = log[j]
    BY <1>1 DEF Noted
  <2>2. StillOpen(j, n + 1)' <=> StillOpen(j, n) /\ open >= log[j].open
    BY <1>1, StillOpenNext
  <2> QED
    BY <1>1, <2>1, <2>2 DEF Defines, StillOpen
<1>3. Defines(n + 1, k, name)' <=>
        event \in {"var", "open"} /\ name \in names /\ open = k - 1
  <2>1. StillOpen(n + 1, n + 1)'
    BY <1>1, StillOpenNext
  <2> QED
    BY <1>1, <2>1 DEF Defines, Noted, StillOpen
<1>4. Has(k, name)' <=> \/ \E j \in 1 .. n : Defines(j, k, name)'
                        \/ Defines(n + 1, k, name)'
  <2>1. Has(k, name)' <=> \E j \in 1 .. n + 1 : Defines(j, k, name)'
    BY <1>1 DEF Has
  <2>2. \A j : j \in 1 .. n + 1 <=> j \in 1 .. n \/ j = n + 1
    BY <1>1
  <2> QED
    BY <2>1, <2>2
<1> QED
  BY <1>1, <1>2, <1>3, <1>4 DEF Has

----------------------------------------------------------------------------
(* What every step of the type checker preserves                           *)

Value == Symbol(NewType("VALUE", {}))

LEMMA ValueIs ==
  /\ Value \in Symbols /\ Value # NoSymbol
  /\ Value.type # NoType
  /\ Symbol(NoType) \in Symbols /\ Symbol(NoType) # NoSymbol /\ Symbol(NoType).type = NoType
<1>1. NoType \in SymbolTypes /\ NewType("VALUE", {}) \in SymbolTypes
  BY DEF SymbolTypes, NewType
<1>2. NoType # NewType("VALUE", {})
  BY DEF NoType, NewType
<1> QED
  BY <1>1, <1>2, SymbolIs DEF Value

LEMMA RootIs == Root \in Scope /\ \A name \in Names : Root[name] \in {Symbol(NoType), NoSymbol}
BY ValueIs DEF Root, Scope

\* The scopes, by what is noted.
LEMMA ScopesAre ==
  ScopesNoted <=>
    /\ Len(chain) = Open + 1
    /\ chain[1] = Root
    /\ \A k \in 2 .. Len(chain), name \in Names :
         chain[k][name] = IF Has(k, name) THEN Value ELSE NoSymbol
    /\ \A j \in DOMAIN log : log[j].event \in {"var", "open"} => log[j].open > 0
BY DEF ScopesNoted, Has, Value

\* An event that is no use of a name keeps what is noted of uses.
LEMMA KnownNext ==
  ASSUME log \in Seq(Events), NEW event, NEW names, NEW open, Noted(event, names, open),
         KnownIffEarlier,
         event \in {"use", "undefined"} =>
           (event = "use" <=>
              \E j \in 1 .. Len(log) : /\ log[j].event \in {"var", "open"}
                                       /\ names \subseteq log[j].names
                                       /\ StillOpen(j, Len(log)) /\ open >= log[j].open)
  PROVE  KnownIffEarlier'
<1>0. PICK n : n = Len(log)
  OBVIOUS
<1>1. /\ DOMAIN log = 1 .. n /\ n = Len(log) /\ n \in Nat
      /\ (DOMAIN log)' = 1 .. n + 1
      /\ \A j \in 1 .. n : log'[j] = log[j]
      /\ log'[n + 1] = [event |-> event, names |-> names, open |-> open]
  BY <1>0, OpenIs DEF Noted
<1> DEFINE Earlier(m) == \E j \in 1 .. m - 1 : /\ log[j].event \in {"var", "open"}
                                               /\ log[m].names \subseteq log[j].names
                                               /\ StillOpen(j, m)
<1>2. ASSUME NEW m \in 1 .. n
      PROVE  Earlier(m)' <=> Earlier(m)
  <2>1. \A j \in 1 .. m - 1 : j \in 1 .. n /\ (StillOpen(j, m)' <=> StillOpen(j, m))
    BY <1>1, StillOpenNext
  <2> QED
    BY <1>1, <2>1
<1>3. Earlier(n + 1)' <=>
        \E j \in 1 .. n : /\ log[j].event \in {"var", "open"}
                          /\ names \subseteq log[j].names
                          /\ StillOpen(j, n) /\ open >= log[j].open
  <2>1. \A j \in 1 .. n : StillOpen(j, n + 1)' <=> StillOpen(j, n) /\ open >= log[j].open
    BY <1>1, StillOpenNext
  <2>2. n + 1 - 1 = n
    BY <1>1
  <2> QED
    BY <1>1, <2>1, <2>2
<1>4. ASSUME NEW m \in 1 .. n + 1, log'[m].event \in {"use", "undefined"}
      PROVE  log'[m].event = "use" <=> Earlier(m)'
  <2>1. CASE m \in 1 .. n
    BY <1>1, <1>2, <1>4, <2>1 DEF KnownIffEarlier
  <2>2. CASE m = n + 1
    BY <1>1, <1>3, <1>4, <2>2
  <2> QED
    BY <1>1, <2>1, <2>2
<1> QED
  BY <1>1, <1>4 DEF KnownIffEarlier

\* The type of a name in a function is known if it is noted in a scope still open.
LEMMA KnownIs ==
  ASSUME CollectTypeOK, ScopesNoted, NEW name \in Names
  PROVE  Known(name) <=>
           \E j \in 1 .. Len(log) : /\ log[j].event \in {"var", "open"}
                                    /\ {name} \subseteq log[j].names
                                    /\ StillOpen(j, Len(log)) /\ Open >= log[j].open
<1>1. /\ chain \in Seq(Scope) /\ log \in Seq(Events)
      /\ Len(chain) \in Nat /\ Len(chain) = Open + 1
      /\ chain[1] = Root
      /\ DOMAIN log = 1 .. Len(log)
  BY OpenIs, ScopesAre DEF CollectTypeOK, Scope
<1>2. Known(name) <=> \E k \in 2 .. Len(chain) : Has(k, name)
  <2>1. \A k \in 2 .. Len(chain) : chain[k][name] = IF Has(k, name) THEN Value ELSE NoSymbol
    BY ScopesAre
  <2>2. CASE /\ TypeOf(chain, name) = NoType
             /\ \A j \in 1 .. Len(chain) : chain[j][name] = NoSymbol
    BY <2>1, <2>2, ValueIs DEF Known
  <2>3. ASSUME NEW k \in 1 .. Len(chain),
               TypeOf(chain, name) = chain[k][name].type,
               chain[k][name] # NoSymbol,
               \A j \in k + 1 .. Len(chain) : chain[j][name] = NoSymbol
        PROVE  Known(name) <=> \E m \in 2 .. Len(chain) : Has(m, name)
    <3>1. CASE k = 1
      <4>1. ~Known(name)
        BY <1>1, <2>3, <3>1, RootIs, ValueIs DEF Known
      <4>2. \A m \in 2 .. Len(chain) : m \in k + 1 .. Len(chain)
        BY <3>1
      <4> QED
        BY <2>1, <2>3, <4>1, <4>2, ValueIs
    <3>2. CASE k # 1
      <4>1. k \in 2 .. Len(chain)
        BY <1>1, <3>2
      <4> QED
        BY <2>1, <2>3, <4>1, ValueIs DEF Known
    <3> QED
      BY <3>1, <3>2
  <2> QED
    BY <1>1, <2>2, <2>3, TypeOfIs
<1>3. ASSUME NEW k \in 2 .. Len(chain), Has(k, name)
      PROVE  \E j \in 1 .. Len(log) : /\ log[j].event \in {"var", "open"}
                                      /\ {name} \subseteq log[j].names
                                      /\ StillOpen(j, Len(log)) /\ Open >= log[j].open
  <2>1. PICK j \in 1 .. Len(log) : Defines(j, k, name)
    BY <1>1, <1>3 DEF Has
  <2>2. log[j].open = k - 1 /\ k - 1 <= Open
    BY <1>1, <1>3, <2>1, HasOpen DEF Defines
  <2>3. Open \in Nat
    BY <1>1, OpenIs
  <2> QED
    BY <2>1, <2>2, <2>3 DEF Defines
<1>4. ASSUME NEW j \in 1 .. Len(log),
             log[j].event \in {"var", "open"}, {name} \subseteq log[j].names,
             StillOpen(j, Len(log)), Open >= log[j].open
      PROVE  \E k \in 2 .. Len(chain) : Has(k, name)
  <2>1. log[j].open \in Nat /\ log[j].open > 0 /\ Open \in Nat
    BY <1>1, <1>4, OpenIs, ScopesAre
  <2>2. log[j].open + 1 \in 2 .. Len(chain)
    BY <1>1, <1>4, <2>1
  <2>3. Defines(j, log[j].open + 1, name)
    BY <1>4, <2>1 DEF Defines
  <2> QED
    BY <1>1, <2>2, <2>3 DEF Has
<1> QED
  BY <1>2, <1>3, <1>4

\* Outside of functions nothing is noted but what was.
LEMMA SameLog ==
  ASSUME UNCHANGED <<decls, chain, log>>, ScopesNoted, KnownIffEarlier
  PROVE  ScopesNoted' /\ KnownIffEarlier'
BY DEF ScopesNoted, KnownIffEarlier, Defines, StillOpen, Open, Root, Declared

\* The scopes are those that were there and what the event declares in the last.
ScopesAfter(event, names, open) ==
  /\ chain' \in Seq(Scope) /\ Len(chain') = open + 1 /\ chain'[1] = chain[1]
  /\ \A k \in 2 .. open + 1, name \in Names :
       chain'[k][name] =
         IF \/ Has(k, name)
            \/ event \in {"var", "open"} /\ name \in names /\ open = k - 1
         THEN Value ELSE NoSymbol

LEMMA NoteScopes ==
  ASSUME CollectTypeOK, ScopesNoted, decls' = decls,
         NEW event, NEW names, NEW open \in Nat, Noted(event, names, open),
         event \in {"var", "open"} => open > 0,
         ScopesAfter(event, names, open)
  PROVE  ScopesNoted'
<1>0. PICK n : n = Len(log)
  OBVIOUS
<1>1. /\ log \in Seq(Events) /\ DOMAIN log = 1 .. n /\ n \in Nat
      /\ (DOMAIN log)' = 1 .. n + 1
      /\ \A j \in 1 .. n : log'[j] = log[j]
      /\ log'[n + 1] = [event |-> event, names |-> names, open |-> open]
      /\ Open' = open
  BY <1>0, OpenIs DEF CollectTypeOK, Noted
<1>2. Root' = Root
  BY DEF Root, Declared
<1>3. ASSUME NEW k \in 2 .. open + 1, NEW name \in Names
      PROVE  chain'[k][name] = IF Has(k, name)' THEN Value ELSE NoSymbol
  <2>1. k \in Nat /\ open >= k - 1
    OBVIOUS
  <2>2. Has(k, name)' <=> \/ Has(k, name) /\ open >= k - 1
                          \/ event \in {"var", "open"} /\ name \in names /\ open = k - 1
    BY <1>1, <2>1, HasNext
  <2> QED
    BY <2>1, <2>2 DEF ScopesAfter
<1>4. ASSUME NEW j \in 1 .. n + 1, log'[j].event \in {"var", "open"}
      PROVE  log'[j].open > 0
  <2>1. CASE j \in 1 .. n
    BY <1>1, <1>4, <2>1 DEF ScopesNoted
  <2>2. CASE j = n + 1
    BY <1>1, <1>4, <2>2
  <2> QED
    BY <1>1, <2>1, <2>2
<1> QED
  BY <1>1, <1>2, <1>3, <1>4 DEF ScopesNoted, ScopesAfter, Has, Value

LEMMA CollectInitInv == CollectInit => CollectInv
<1> SUFFICES ASSUME CollectInit PROVE CollectInv
  OBVIOUS
<1> USE DEF CollectInit
<1>1. /\ Len(chain) = 1 /\ chain[1] = Root /\ chain \in Seq(Scope)
      /\ log \in Seq(Events) /\ Len(log) = 0 /\ DOMAIN log = {}
      /\ Open = 0
  BY RootIs DEF Open
<1>2. WellFormed(decls) /\ Len(decls) \in Nat
  BY CollectAssumption DEF WellFormed
<1>3. CollectTypeOK
  <2>1. Len(log) <= Length + (IF phase = "block" THEN 0 ELSE 1)
    BY <1>1, CollectAssumption
  <2>2. Len(chain) >= CASE phase = "block" -> 2 [] phase = "statements" -> 3 [] OTHER -> 1
    BY <1>1
  <2>3. at \in 1 .. Len(decls) + 1
    BY <1>2
  <2> QED
    BY <1>1, <1>2, <2>1, <2>2, <2>3 DEF CollectTypeOK, Scope
<1>4. ScopesNoted
  BY <1>1 DEF ScopesNoted
<1>5. KnownIffEarlier
  BY <1>1 DEF KnownIffEarlier
<1> QED
  BY <1>3, <1>4, <1>5 DEF CollectInv

LEMMA CollectTypes ==
  ASSUME CollectTypeOK
  PROVE  /\ chain \in Seq(Scope) /\ Len(chain) \in Nat
         /\ log \in Seq(Events) /\ Len(log) \in Nat /\ Open \in Nat
         /\ Len(decls) \in Nat /\ at \in Nat
         /\ \A k \in 1 .. Len(decls) : decls[k] \in Declaration
         /\ Length \in Nat
BY OpenIs, CollectAssumption DEF CollectTypeOK, Scope, WellFormed

LEMMA CheckProgramInv == CollectInv /\ CheckProgram => CollectInv'
<1> SUFFICES ASSUME CollectInv, CheckProgram PROVE CollectInv'
  OBVIOUS
<1> USE DEF CollectInv
<1>1. /\ UNCHANGED <<decls, at, chain, log>>
      /\ phase = "start" /\ phase' \in {"decls", "crashed"}
      /\ had_error' \in BOOLEAN
  <2>1. PICK first \in IF decls = <<>> THEN {Junk} ELSE FirstWord(decls[1]) :
          IF first = Junk
          THEN phase' = "crashed" /\ UNCHANGED <<chain, had_error>>
          ELSE LET out == CollectFrom(chain, first) IN
               /\ phase' = "decls"
               /\ chain' = out.chain
               /\ had_error' = \E k \in DOMAIN out.reported : out.reported[k]
    BY DEF CheckProgram
  <2>2. first \in {Junk, <<>>}
    BY DEF FirstWord
  <2>3. first # Junk => CollectFrom(chain, first).chain = chain
    BY <2>2, NothingCollected
  <2> QED
    BY <2>1, <2>3 DEF CheckProgram, CollectTypeOK
<1>2. CollectTypeOK'
  BY <1>1, CollectTypes DEF CollectTypeOK, WellFormed
<1> QED
  BY <1>1, <1>2, SameLog

LEMMA CheckOtherInv == CollectInv /\ CheckOther => CollectInv'
<1> SUFFICES ASSUME CollectInv, CheckOther PROVE CollectInv'
  OBVIOUS
<1>1. CollectTypeOK'
  BY CollectTypes DEF CollectInv, CollectTypeOK, CheckOther, InDecls, WellFormed
<1> QED
  BY <1>1, SameLog DEF CollectInv, CheckOther

LEMMA CheckVarInv == CollectInv /\ CheckVar => CollectInv'
<1> SUFFICES ASSUME CollectInv, CheckVar PROVE CollectInv'
  OBVIOUS
<1> USE DEF CollectInv
<1>1. at \in 1 .. Len(decls) /\ Current.kind = "var"
  BY DEF CheckVar, InDecls, CollectTypeOK
<1>2. Current.name \in Names /\ Current.name \in Declared
  BY <1>1 DEF CollectTypeOK, WellFormed, Named, Current, Declared
<1>3. Len(chain) = 1 /\ chain[1] = Root
  BY DEF CheckVar, InDecls, CollectTypeOK, ScopesNoted
<1>4. Root[Current.name] # NoSymbol
  BY <1>2, ValueIs DEF Root
<1>5. chain' = chain
  BY <1>3, <1>4 DEF CheckVar, Define, LookupLocal
<1>6. CollectTypeOK'
  BY <1>1, <1>5, CollectTypes DEF CollectTypeOK, CheckVar, InDecls, WellFormed
<1> QED
  BY <1>5, <1>6, SameLog DEF CheckVar

LEMMA CheckFuncInv == CollectInv /\ CheckFunc => CollectInv'
<1> SUFFICES ASSUME CollectInv, CheckFunc PROVE CollectInv'
  OBVIOUS
<1> USE DEF CollectInv
<1>1. PICK params \in SUBSET Names :
        /\ chain' = Push(chain, [name \in Names |->
                      IF name \in params THEN Symbol(NewType("VALUE", {})) ELSE NoSymbol])
        /\ Note("open", params)
  BY DEF CheckFunc
<1> DEFINE scope == [name \in Names |-> IF name \in params THEN Value ELSE NoSymbol]
<1>2. scope \in Scope
  BY ValueIs DEF Scope
<1>3. \A name \in Names : scope[name] = IF name \in params THEN Value ELSE NoSymbol
  OBVIOUS
<1>4. chain' = Append(chain, scope)
  BY <1>1 DEF Push, Value
<1> HIDE DEF scope
<1>5. Len(chain) = 1 /\ Open = 0 /\ phase = "decls" /\ Len(log) < Length
  BY CollectTypes DEF CheckFunc, InDecls, Room, CollectTypeOK, ScopesNoted
<1>6. /\ chain' \in Seq(Scope) /\ Len(chain') = 2
      /\ chain'[1] = chain[1] /\ chain'[2] = scope
  <2>1. chain \in Seq(Scope)
    BY CollectTypes
  <2>2. /\ chain' \in Seq(Scope) /\ Len(chain') = Len(chain) + 1
        /\ \A k \in 1 .. Len(chain) : chain'[k] = chain[k]
        /\ chain'[Len(chain) + 1] = scope
    BY <1>2, <1>4, <2>1, AppendProperties
  <2> QED
    BY <1>5, <2>2
<1>7. Noted("open", params, 1)
  <2>1. 1 = CASE "open" = "open" -> Open + 1
              [] "open" = "close" -> Open - 1
              [] "open" = "end" -> 0
              [] OTHER -> Open
    BY <1>5
  <2> QED
    BY <1>1, <2>1, CollectTypes, NoteIs
<1>8. CollectTypeOK'
  BY <1>5, <1>6, <1>7, CollectTypes
     DEF CollectTypeOK, CheckFunc, InDecls, WellFormed, Noted, Scope
<1>9. ScopesNoted'
  <2>1. ASSUME NEW k \in 2 .. 1 + 1, NEW name \in Names
        PROVE  chain'[k][name] =
                 IF \/ Has(k, name)
                    \/ "open" \in {"var", "open"} /\ name \in params /\ 1 = k - 1
                 THEN Value ELSE NoSymbol
    <3>1. k = 2
      OBVIOUS
    <3>2. ~Has(2, name)
      BY <1>5, HasOpen, CollectTypes
    <3> QED
      BY <1>3, <1>6, <3>1, <3>2
  <2>2. ScopesAfter("open", params, 1)
    BY <1>6, <2>1 DEF ScopesAfter
  <2> QED
    BY <1>7, <2>2, NoteScopes DEF CheckFunc
<1>10. KnownIffEarlier'
  BY <1>7, KnownNext, CollectTypes
<1> QED
  BY <1>8, <1>9, <1>10

LEMMA EnterBlockInv == CollectInv /\ EnterBlock => CollectInv'
<1> SUFFICES ASSUME CollectInv, EnterBlock PROVE CollectInv'
  OBVIOUS
<1> USE DEF CollectInv
<1>1. PICK first \in FirstWords :
        IF first = Junk
        THEN phase' = "crashed" /\ UNCHANGED <<chain, had_error, log>>
        ELSE LET out == CollectFrom(Push(chain, EmptyScope), first) IN
             /\ phase' = "statements"
             /\ chain' = out.chain
             /\ had_error' = (had_error \/ \E k \in DOMAIN out.reported : out.reported[k])
             /\ Note("open", {})
  BY DEF EnterBlock
<1>2. CASE first = Junk
  <2>1. UNCHANGED <<decls, at, chain, had_error, log>> /\ phase' = "crashed"
    BY <1>1, <1>2 DEF EnterBlock
  <2>2. CollectTypeOK'
    BY <2>1, CollectTypes DEF CollectTypeOK, EnterBlock, WellFormed
  <2> QED
    BY <2>1, <2>2, SameLog
<1>3. CASE first # Junk
  <2>1. /\ phase = "block" /\ phase' = "statements" /\ had_error' \in BOOLEAN
        /\ UNCHANGED <<decls, at>>
        /\ Note("open", {})
    BY <1>1, <1>3 DEF EnterBlock, CollectTypeOK
  <2>2. chain' = Append(chain, EmptyScope)
    <3>1. first = <<>> \/ \E name \in Names : first = <<[kind |-> "method", of |-> name]>>
      BY <1>3 DEF FirstWords
    <3> QED
      BY <1>1, <1>3, <3>1, NothingCollected DEF Push
  <2>3. EmptyScope \in Scope /\ \A name \in Names : EmptyScope[name] = NoSymbol
    BY DEF EmptyScope, Scope
  <2>4. /\ chain' \in Seq(Scope) /\ Len(chain') = Len(chain) + 1
        /\ \A k \in 1 .. Len(chain) : chain'[k] = chain[k]
        /\ chain'[Len(chain) + 1] = EmptyScope
    <3>1. chain \in Seq(Scope)
      BY CollectTypes
    <3> QED
      BY <2>2, <2>3, <3>1, AppendProperties
  <2>5. Len(chain) = Open + 1 /\ Len(chain) >= 2
    BY <2>1 DEF CollectTypeOK, ScopesNoted
  <2>6. Noted("open", {}, Open + 1)
    <3>1. Open + 1 = CASE "open" = "open" -> Open + 1
                       [] "open" = "close" -> Open - 1
                       [] "open" = "end" -> 0
                       [] OTHER -> Open
      OBVIOUS
    <3>2. Open + 1 \in Nat /\ log \in Seq(Events) /\ {} \in SUBSET Names
      BY CollectTypes
    <3> QED
      BY <2>1, <3>1, <3>2, NoteIs
  <2>7. CollectTypeOK'
    <3>1. log' \in Seq(Events) /\ Len(log') = Len(log) + 1
      BY <2>6 DEF Noted
    <3>2. Len(log') <= Length + (IF phase' = "block" THEN 0 ELSE 1)
      <4>1. Len(log) <= Length + 0
        BY <2>1 DEF CollectTypeOK
      <4> QED
        BY <2>1, <3>1, <4>1, CollectTypes
    <3>3. /\ chain' \in Seq([Names -> Symbols \cup {NoSymbol}])
          /\ Len(chain') >= CASE phase' = "block" -> 2 [] phase' = "statements" -> 3 [] OTHER -> 1
      BY <2>1, <2>4, <2>5 DEF Scope
    <3>4. WellFormed(decls)' /\ at' \in 1 .. Len(decls') + 1 /\ at' <= Len(decls')
      BY <2>1 DEF CollectTypeOK, WellFormed
    <3> QED
      BY <2>1, <3>1, <3>2, <3>3, <3>4 DEF CollectTypeOK
  <2>8. ScopesNoted'
    <3>1. ASSUME NEW k \in 2 .. Open + 1 + 1, NEW name \in Names
          PROVE  chain'[k][name] = IF Has(k, name) THEN Value ELSE NoSymbol
      <4>1. CASE k \in 2 .. Len(chain)
        BY <2>4, <4>1, ScopesAre
      <4>2. CASE k = Len(chain) + 1
        <5>1. k \in Nat /\ ~(k - 1 <= Open)
          BY <2>5, <4>2, CollectTypes
        <5>2. ~Has(k, name)
          BY <5>1, HasOpen, CollectTypes
        <5> QED
          BY <2>3, <2>4, <4>2, <5>2
      <4> QED
        BY <2>5, <4>1, <4>2, CollectTypes
    <3>2. ScopesAfter("open", {}, Open + 1)
      BY <2>4, <2>5, <3>1, CollectTypes DEF ScopesAfter
    <3> QED
      BY <2>1, <2>6, <3>2, NoteScopes, CollectTypes
  <2>9. KnownIffEarlier'
    BY <2>6, KnownNext, CollectTypes
  <2> QED
    BY <2>7, <2>8, <2>9
<1> QED
  BY <1>2, <1>3

LEMMA NestedBlockInv == CollectInv /\ NestedBlock => CollectInv'
<1> SUFFICES ASSUME CollectInv, NestedBlock PROVE CollectInv'
  OBVIOUS
<1>1. CollectTypeOK'
  BY CollectTypes DEF CollectInv, CollectTypeOK, NestedBlock, InBlock, Room, WellFormed
<1> QED
  BY <1>1, SameLog DEF CollectInv, NestedBlock

LEMMA LocalVarInv == CollectInv /\ LocalVar => CollectInv'
<1> SUFFICES ASSUME CollectInv, LocalVar PROVE CollectInv'
  OBVIOUS
<1> USE DEF CollectInv
<1>1. PICK name \in Names : chain' = Define(chain, name, Value) /\ Note("var", {name})
  BY DEF LocalVar, Value
<1>2. /\ phase = "statements" /\ Len(log) < Length
      /\ Len(chain) = Open + 1 /\ Len(chain) >= 3
  BY DEF LocalVar, InBlock, Room, CollectTypeOK, ScopesNoted
<1> DEFINE top == chain[Len(chain)]
<1>3. top \in Scope
  BY <1>2, CollectTypes
<1>4. /\ chain' \in Seq(Scope) /\ Len(chain') = Len(chain)
      /\ \A k \in 1 .. Len(chain) - 1 : chain'[k] = chain[k]
      /\ \A other \in Names :
           chain'[Len(chain)][other] =
             IF other = name /\ top[name] = NoSymbol THEN Value ELSE top[other]
  <2>1. CASE top[name] # NoSymbol
    BY <1>1, <1>2, <2>1, CollectTypes DEF Define, LookupLocal
  <2>2. CASE top[name] = NoSymbol
    <3> DEFINE new == [top EXCEPT ![name] = Value]
    <3>1. /\ new \in Scope
          /\ \A other \in Names : new[other] = IF other = name THEN Value ELSE top[other]
      BY <1>3, ValueIs DEF Scope
    <3>2. chain' = [chain EXCEPT ![Len(chain)] = new]
      BY <1>1, <2>2 DEF Define, LookupLocal
    <3> HIDE DEF new
    <3>3. /\ chain' \in Seq(Scope) /\ Len(chain') = Len(chain)
          /\ \A k \in 1 .. Len(chain) - 1 : chain'[k] = chain[k]
          /\ chain'[Len(chain)] = new
      <4>1. chain \in Seq(Scope) /\ Len(chain) \in 1 .. Len(chain) /\ Len(chain) \in Nat
        BY <1>2, CollectTypes
      <4> QED
        BY <3>1, <3>2, <4>1
    <3> QED
      BY <2>2, <3>1, <3>3
  <2> QED
    BY <2>1, <2>2
<1>5. Noted("var", {name}, Open)
  <2>1. Open = CASE "var" = "open" -> Open + 1
                 [] "var" = "close" -> Open - 1
                 [] "var" = "end" -> 0
                 [] OTHER -> Open
    OBVIOUS
  <2>2. Open \in Nat /\ log \in Seq(Events) /\ {name} \in SUBSET Names
    BY CollectTypes
  <2> QED
    BY <1>1, <2>1, <2>2, NoteIs
<1>6. CollectTypeOK'
  BY <1>2, <1>4, <1>5, CollectTypes DEF CollectTypeOK, WellFormed, Noted, Scope, LocalVar
<1>7. ScopesNoted'
  <2>1. ASSUME NEW k \in 2 .. Open + 1, NEW other \in Names
        PROVE  chain'[k][other] =
                 IF \/ Has(k, other)
                    \/ "var" \in {"var", "open"} /\ other \in {name} /\ Open = k - 1
                 THEN Value ELSE NoSymbol
    <3>1. chain[k][other] = IF Has(k, other) THEN Value ELSE NoSymbol
      BY <1>2, ScopesAre
    <3>2. CASE k = Len(chain)
      BY <1>2, <1>4, <3>1, <3>2, ValueIs, CollectTypes
    <3>3. CASE k # Len(chain)
      <4>1. k \in 1 .. Len(chain) - 1 /\ Open # k - 1
        BY <1>2, <3>3, CollectTypes
      <4>2. chain'[k] = chain[k]
        BY <1>4, <4>1
      <4> QED
        BY <3>1, <4>1, <4>2
    <3> QED
      BY <3>2, <3>3
  <2>2. 1 \in 1 .. Len(chain) - 1
    BY <1>2, CollectTypes
  <2>3. chain' \in Seq(Scope) /\ Len(chain') = Open + 1 /\ chain'[1] = chain[1]
    BY <1>2, <1>4, <2>2
  <2>4. ScopesAfter("var", {name}, Open)
    BY <2>1, <2>3 DEF ScopesAfter
  <2> QED
    BY <1>2, <1>5, <2>4, NoteScopes, CollectTypes DEF LocalVar
<1>8. KnownIffEarlier'
  BY <1>5, KnownNext, CollectTypes
<1> QED
  BY <1>6, <1>7, <1>8

LEMMA UseNameInv == CollectInv /\ UseName => CollectInv'
<1> SUFFICES ASSUME CollectInv, UseName PROVE CollectInv'
  OBVIOUS
<1> USE DEF CollectInv
<1>1. PICK name \in Names :
        /\ had_error' = (had_error \/ ~Known(name))
        /\ Note(IF Known(name) THEN "use" ELSE "undefined", {name})
  BY DEF UseName
<1>2. /\ phase = "statements" /\ Len(log) < Length
      /\ Len(chain) = Open + 1 /\ Len(chain) >= 3
      /\ UNCHANGED <<decls, phase, at, chain>>
  BY DEF UseName, InBlock, Room, CollectTypeOK, ScopesNoted
<1>3. PICK event \in {"use", "undefined"} : event = IF Known(name) THEN "use" ELSE "undefined"
  OBVIOUS
<1>4. Noted(event, {name}, Open)
  <2>1. Open = CASE event = "open" -> Open + 1
                 [] event = "close" -> Open - 1
                 [] event = "end" -> 0
                 [] OTHER -> Open
    BY <1>3
  <2>2. Open \in Nat /\ log \in Seq(Events) /\ {name} \in SUBSET Names
    BY CollectTypes
  <2>3. Note(event, {name})
    BY <1>1, <1>3
  <2> QED
    BY <2>1, <2>2, <2>3, NoteIs
<1>5. CollectTypeOK'
  BY <1>1, <1>2, <1>4, CollectTypes DEF CollectTypeOK, WellFormed, Noted
<1>6. ScopesNoted'
  <2>1. ASSUME NEW k \in 2 .. Open + 1, NEW other \in Names
        PROVE  chain'[k][other] =
                 IF \/ Has(k, other)
                    \/ event \in {"var", "open"} /\ other \in {name} /\ Open = k - 1
                 THEN Value ELSE NoSymbol
    BY <1>2, <1>3, ScopesAre
  <2>2. ScopesAfter(event, {name}, Open)
    BY <1>2, <2>1, CollectTypes DEF ScopesAfter
  <2> QED
    BY <1>2, <1>3, <1>4, <2>2, NoteScopes, CollectTypes
<1>7. KnownIffEarlier'
  <2>1. event = "use" <=> Known(name)
    BY <1>3
  <2>2. Known(name) <=>
           \E j \in 1 .. Len(log) : /\ log[j].event \in {"var", "open"}
                                    /\ {name} \subseteq log[j].names
                                    /\ StillOpen(j, Len(log)) /\ Open >= log[j].open
    BY KnownIs
  <2> QED
    BY <1>4, <2>1, <2>2, KnownNext, CollectTypes
<1> QED
  BY <1>5, <1>6, <1>7

LEMMA LeaveBlockInv == CollectInv /\ LeaveBlock => CollectInv'
<1> SUFFICES ASSUME CollectInv, LeaveBlock PROVE CollectInv'
  OBVIOUS
<1> USE DEF CollectInv
<1>1. /\ phase = "statements" /\ Len(log) < Length
      /\ Len(chain) = Open + 1 /\ Len(chain) >= 3
      /\ UNCHANGED <<decls, had_error>>
  BY DEF LeaveBlock, InBlock, Room, CollectTypeOK, ScopesNoted
<1>2. PICK event \in {"close", "end"} : event = IF Len(chain) > 3 THEN "close" ELSE "end"
  OBVIOUS
<1>3. PICK open \in Nat : open = IF Len(chain) > 3 THEN Open - 1 ELSE 0
  BY <1>1, CollectTypes
<1>4. Noted(event, {}, open)
  <2>1. open = CASE event = "open" -> Open + 1
                 [] event = "close" -> Open - 1
                 [] event = "end" -> 0
                 [] OTHER -> Open
    BY <1>2, <1>3
  <2>2. log \in Seq(Events) /\ {} \in SUBSET Names
    BY CollectTypes
  <2>3. Note(event, {})
    BY <1>2 DEF LeaveBlock
  <2> QED
    BY <2>1, <2>2, <2>3, NoteIs
<1>5. chain' \in Seq(Scope) /\ Len(chain') = open + 1
      /\ \A k \in 1 .. open + 1 : chain'[k] = chain[k]
  <2>1. /\ chain \in Seq(Scope) /\ Len(chain) \in Nat
        /\ chain' = SubSeq(chain, 1, open + 1)
    <3>1. CASE Len(chain) > 3
      BY <1>1, <1>3, <3>1, CollectTypes DEF LeaveBlock, Pop
    <3>2. CASE ~(Len(chain) > 3)
      <4>1. Len(chain) = 3 /\ chain \in Seq(Scope) /\ open = 0
        BY <1>1, <1>3, <3>2, CollectTypes
      <4>2. Pop(chain) = SubSeq(chain, 1, 2) /\ Len(Pop(chain)) = 2
        BY <4>1 DEF Pop
      <4>3. Pop(Pop(chain)) = SubSeq(chain, 1, 1)
        BY <4>1, <4>2 DEF Pop
      <4> QED
        BY <3>2, <4>1, <4>3 DEF LeaveBlock
    <3> QED
      BY <3>1, <3>2
  <2>2. open + 1 <= Len(chain) /\ open + 1 >= 1
    BY <1>1, <1>3, CollectTypes
  <2> QED
    BY <2>1, <2>2
<1>6. CollectTypeOK'
  <2>1. /\ log' \in Seq(Events) /\ Len(log') = Len(log) + 1
        /\ Len(log') <= Length + (IF phase' = "block" THEN 0 ELSE 1)
    BY <1>1, <1>4, CollectTypes DEF Noted
  <2>2. \/ phase' = "statements" /\ Len(chain') >= 3 /\ at' = at
        \/ phase' = "decls" /\ Len(chain') = 1 /\ at' = at + 1
    <3>1. CASE Len(chain) > 3
      BY <1>1, <1>3, <1>5, <3>1, CollectTypes DEF LeaveBlock
    <3>2. CASE ~(Len(chain) > 3)
      BY <1>3, <1>5, <3>2 DEF LeaveBlock
    <3> QED
      BY <3>1, <3>2
  <2>3. at \in 1 .. Len(decls) /\ had_error \in BOOLEAN /\ WellFormed(decls)
    BY <1>1, CollectTypes DEF CollectTypeOK
  <2>4. at' \in 1 .. Len(decls') + 1 /\ (phase' \in {"block", "statements"} => at' <= Len(decls'))
    BY <1>1, <2>2, <2>3, CollectTypes
  <2>5. WellFormed(decls)' /\ had_error' \in BOOLEAN
    BY <1>1, <2>3 DEF WellFormed
  <2>6. chain' \in Seq([Names -> Symbols \cup {NoSymbol}])
    BY <1>5 DEF Scope
  <2>7. Len(chain') >= CASE phase' = "block" -> 2 [] phase' = "statements" -> 3 [] OTHER -> 1
    BY <2>2
  <2>8. /\ phase' \in {"start", "decls", "block", "statements", "crashed"}
        /\ phase' \in {"start", "decls"} => Len(chain') = 1
    BY <2>2
  <2> QED
    BY <2>1, <2>4, <2>5, <2>6, <2>7, <2>8 DEF CollectTypeOK
<1>7. ScopesNoted'
  <2>1. ASSUME NEW k \in 2 .. open + 1, NEW name \in Names
        PROVE  chain'[k][name] =
                 IF \/ Has(k, name)
                    \/ event \in {"var", "open"} /\ name \in {} /\ open = k - 1
                 THEN Value ELSE NoSymbol
    <3>1. k \in 2 .. Len(chain)
      BY <1>1, <1>3, CollectTypes
    <3> QED
      BY <1>5, <3>1, ScopesAre
  <2>2. ScopesAfter(event, {}, open)
    BY <1>5, <2>1 DEF ScopesAfter
  <2> QED
    BY <1>1, <1>2, <1>4, <2>2, NoteScopes
<1>8. KnownIffEarlier'
  BY <1>2, <1>4, KnownNext, CollectTypes
<1> QED
  BY <1>6, <1>7, <1>8

LEMMA CollectNextInv == CollectInv /\ [CollectNext]_collect_vars => CollectInv'
<1> SUFFICES ASSUME CollectInv, [CollectNext]_collect_vars PROVE CollectInv'
  OBVIOUS
<1>1. CASE CollectNext
  BY <1>1, CheckProgramInv, CheckOtherInv, CheckVarInv, CheckFuncInv, EnterBlockInv,
     NestedBlockInv, LocalVarInv, UseNameInv, LeaveBlockInv DEF CollectNext
<1>2. CASE UNCHANGED collect_vars
  <2>1. CollectTypeOK'
    BY <1>2 DEF CollectInv, CollectTypeOK, WellFormed, collect_vars
  <2> QED
    BY <1>2, <2>1, SameLog DEF CollectInv, collect_vars
<1> QED
  BY <1>1, <1>2

\* Whatever the program and however long the text of its functions, the scopes of
\* the type checker hold, with their types, just the parameters and variables of
\* the functions they are scopes of, over a scope of declarations without types.
THEOREM CollectSafe == CollectSpec => []CollectInv
<1>1. CollectInv /\ [CollectNext]_collect_vars => CollectInv'
  BY CollectNextInv
<1> QED
  BY CollectInitInv, <1>1, PTL DEF CollectSpec

\* A name is reported as undefined just if no variable and no parameter of the
\* name was declared before it in a scope still open (the case AST_IDENTIFIER of
\* typechecker_infer_expr).
THEOREM CollectKnown == CollectSpec => []KnownIffEarlier
<1>1. CollectInv => KnownIffEarlier
  BY DEF CollectInv
<1> QED
  BY CollectSafe, <1>1, PTL

----------------------------------------------------------------------------
(* What the three passes give to the declarations of a program             *)

\* Chains of one scope that has the declared names, and the names it has types of.
Kept ==
  {ch \in Seq(Scope) : /\ Len(ch) = 1
                       /\ \A name \in Names : ch[1][name] = NoSymbol <=> name \notin Declared}
KnownIn(ch) == {name \in Names : TypeOf(ch, name) # NoType}

LEMMA KeptTypes ==
  ASSUME NEW ch \in Kept, NEW name \in Names
  PROVE  /\ ch \in Seq(Scope) /\ Len(ch) = 1
         /\ LookupLocal(ch, name) = ch[1][name]
         /\ LookupLocal(ch, name) # NoSymbol <=> name \in Declared
         /\ name \in Declared => TypeOf(ch, name) = ch[1][name].type
         /\ name \notin Declared => TypeOf(ch, name) = NoType
         /\ TypeOf(ch, name) \in SymbolTypes
<1>1. ch \in Seq(Scope) /\ Len(ch) = 1 /\ ch[1] \in Scope
  BY DEF Kept
<1>2. ch[1][name] = NoSymbol <=> name \notin Declared
  BY DEF Kept
<1>3. \/ TypeOf(ch, name) = NoType /\ ch[1][name] = NoSymbol
      \/ TypeOf(ch, name) = ch[1][name].type /\ ch[1][name] # NoSymbol
  BY <1>1, TypeOfIs
<1>4. NoType \in SymbolTypes
  BY DEF SymbolTypes
<1>5. ch[1][name] # NoSymbol => ch[1][name].type \in SymbolTypes
  BY <1>1 DEF Scope, Symbols
<1> QED
  BY <1>1, <1>2, <1>3, <1>4, <1>5 DEF LookupLocal

LEMMA OnlyExcept ==
  ASSUME NEW S, NEW s \in Seq(S), Len(s) = 1, NEW e \in S
  PROVE  [s EXCEPT ![1] = e] \in Seq(S) /\ Len([s EXCEPT ![1] = e]) = 1 /\ [s EXCEPT ![1] = e][1] = e
<1>1. 1 \in 1 .. Len(s)
  OBVIOUS
<1>2. /\ [s EXCEPT ![1] = e] \in Seq(S)
      /\ Len([s EXCEPT ![1] = e]) = Len(s)
      /\ \A j \in 1 .. Len(s) : [s EXCEPT ![1] = e][j] = IF j = 1 THEN e ELSE s[j]
  BY <1>1, ExceptSeq
<1> QED
  BY <1>1, <1>2

LEMMA SetTypeIs ==
  ASSUME NEW ch \in Kept, NEW name \in Names, name \in Declared,
         NEW type \in SymbolTypes, type # NoType
  PROVE  /\ SetType(ch, name, type) \in Kept
         /\ TypeOf(SetType(ch, name, type), name) = type
         /\ \A other \in Names \ {name} : TypeOf(SetType(ch, name, type), other) = TypeOf(ch, other)
         /\ KnownIn(SetType(ch, name, type)) = KnownIn(ch) \cup {name}
<1>1. /\ ch \in Seq(Scope) /\ Len(ch) = 1 /\ ch[1] \in Scope
      /\ LookupLocal(ch, name) # NoSymbol
  BY KeptTypes
<1> DEFINE new == [ch[1] EXCEPT ![name] = Symbol(type)]
           ch2 == SetType(ch, name, type)
<1>2. /\ new \in Scope /\ new[name] = Symbol(type)
      /\ \A other \in Names \ {name} : new[other] = ch[1][other]
  BY <1>1, SymbolIs DEF Scope
<1>3. ch2 = [ch EXCEPT ![1] = new]
  BY <1>1 DEF SetType
<1> HIDE DEF new, ch2
<1>4. ch2 \in Seq(Scope) /\ Len(ch2) = 1 /\ ch2[1] = new
  BY <1>1, <1>2, <1>3, OnlyExcept
<1>5. ch2 \in Kept
  <2>1. ASSUME NEW other \in Names
        PROVE  ch2[1][other] = NoSymbol <=> other \notin Declared
    BY <1>2, <1>4, SymbolIs DEF Kept
  <2> QED
    BY <1>4, <2>1 DEF Kept
<1>6. TypeOf(ch2, name) = type
  BY <1>2, <1>4, <1>5, KeptTypes, SymbolIs
<1>7. ASSUME NEW other \in Names \ {name}
      PROVE  TypeOf(ch2, other) = TypeOf(ch, other)
  BY <1>2, <1>4, <1>5, KeptTypes
<1>8. KnownIn(ch2) = KnownIn(ch) \cup {name}
  BY <1>6, <1>7 DEF KnownIn
<1> QED
  BY <1>5, <1>6, <1>7, <1>8 DEF ch2

LEMMA UnresolvedIs ==
  ASSUME NEW ch, NEW names \in SUBSET Names
  PROVE  /\ Unresolved(ch, names) = names \ KnownIn(ch)
         /\ Unresolved(ch, names) \in SUBSET Names
BY DEF Unresolved, KnownIn

\* Declarations of a program that is well formed.
LEMMA DeclIs ==
  ASSUME WellFormed(decls), NEW d \in 1 .. Len(decls)
  PROVE  /\ decls[d] \in Declaration /\ decls[d].names \in SUBSET Names
         /\ decls[d].of \in Names \cup {NoSymbol}
         /\ decls[d].kind # "method" => decls[d].name \in Names /\ decls[d].name \in Declared
         /\ decls[d].kind = "method" => decls[d].of \in Names
<1>1. decls \in Seq(Declaration) /\ DOMAIN decls = 1 .. Len(decls)
  BY DEF WellFormed
<1>2. decls[d] \in Declaration
  BY <1>1
<1> QED
  BY <1>1, <1>2 DEF WellFormed, Named, Declaration, Declared

LEMMA GivesIs ==
  ASSUME WellFormed(decls), NEW d \in 1 .. Len(decls), Gives(d)
  PROVE  decls[d].name \in Names /\ decls[d].name \in Declared
BY DeclIs DEF Gives

LEMMA TypesGive == \A d : IsType(d) => Gives(d)
BY DEF IsType, Gives, TypeKinds

KnownTypes == [kind : {"STRUCT", "VARIANT", "FUNCTION", "VALUE"}, unknown : SUBSET Names]

LEMMA NewTypeIs ==
  ASSUME NEW kind \in {"STRUCT", "VARIANT", "FUNCTION", "VALUE"}, NEW names \in SUBSET Names
  PROVE  /\ NewType(kind, names) \in SymbolTypes /\ NewType(kind, names) # NoType
         /\ NewType(kind, names).kind = kind /\ NewType(kind, names).unknown = names
BY DEF NewType, NoType, SymbolTypes

LEMMA KnownTypeIs ==
  ASSUME NEW type \in SymbolTypes, type # NoType
  PROVE  type \in KnownTypes /\ type = NewType(type.kind, type.unknown)
<1>1. type \in KnownTypes
  BY DEF SymbolTypes, KnownTypes
<1> QED
  BY <1>1 DEF NewType, KnownTypes

LEMMA NewTypesStep ==
  ASSUME WellFormed(decls), NEW ch \in Kept, NEW d \in 1 .. Len(decls)
  PROVE  /\ NewTypes(ch, decls[d]) \in Kept
         /\ KnownIn(NewTypes(ch, decls[d])) =
              KnownIn(ch) \cup (IF IsType(d) THEN {decls[d].name} ELSE {})
         /\ \A name \in Names :
              ~(IsType(d) /\ name = decls[d].name) =>
                TypeOf(NewTypes(ch, decls[d]), name) = TypeOf(ch, name)
         /\ IsType(d) => TypeOf(NewTypes(ch, decls[d]), decls[d].name).kind = KindGiven(d)
<1>1. CASE IsType(d)
  <2>1. decls[d].name \in Names /\ decls[d].name \in Declared
    BY <1>1, DeclIs DEF IsType, TypeKinds
  <2> DEFINE type == NewType(KindGiven(d), {})
  <2>2. type \in SymbolTypes /\ type # NoType /\ type.kind = KindGiven(d)
    <3>1. KindGiven(d) \in {"STRUCT", "VARIANT"}
      BY <1>1 DEF KindGiven, IsType, TypeKinds
    <3> QED
      BY <3>1, NewTypeIs
  <2>3. NewTypes(ch, decls[d]) = SetType(ch, decls[d].name, type)
    BY <1>1 DEF NewTypes, IsType, TypeKinds, KindGiven
  <2> DEFINE name == decls[d].name
             ch2 == NewTypes(ch, decls[d])
  <2> HIDE DEF type, name, ch2
  <2>4. /\ ch2 \in Kept /\ TypeOf(ch2, name) = type
        /\ \A other \in Names \ {name} : TypeOf(ch2, other) = TypeOf(ch, other)
        /\ KnownIn(ch2) = KnownIn(ch) \cup {name}
    BY <2>1, <2>2, <2>3, SetTypeIs DEF ch2, name
  <2> QED
    BY <1>1, <2>2, <2>4 DEF ch2, name
<1>2. CASE ~IsType(d)
  BY <1>2 DEF NewTypes, IsType, TypeKinds
<1> QED
  BY <1>1, <1>2

\* Of whatever else has a type nothing changes, nor does what kind of type it is.
LEMMA PopulateStep ==
  ASSUME WellFormed(decls), NEW ch \in Kept, NEW d \in 1 .. Len(decls),
         IsType(d) => decls[d].name \in KnownIn(ch)
  PROVE  /\ Populate(ch, decls[d]) \in Kept
         /\ KnownIn(Populate(ch, decls[d])) = KnownIn(ch)
         /\ \A name \in Names :
              ~(IsType(d) /\ name = decls[d].name) =>
                TypeOf(Populate(ch, decls[d]), name) = TypeOf(ch, name)
         /\ IsType(d) => TypeOf(Populate(ch, decls[d]), decls[d].name) =
                           NewType(TypeOf(ch, decls[d].name).kind, decls[d].names \ KnownIn(ch))
<1>1. CASE IsType(d)
  <2> DEFINE name == decls[d].name
             old == TypeOf(ch, name)
             unknown == decls[d].names \ KnownIn(ch)
             type == NewType(old.kind, unknown)
  <2>1. name \in Names /\ name \in Declared /\ decls[d].names \in SUBSET Names
    BY <1>1, DeclIs DEF IsType, TypeKinds
  <2>2. old \in SymbolTypes /\ old # NoType
    BY <1>1, <2>1, KeptTypes DEF KnownIn
  <2>3. old \in KnownTypes
    <3> HIDE DEF old
    <3> QED
      BY <2>2, KnownTypeIs
  <2>4. type \in SymbolTypes /\ type # NoType
    <3>1. unknown \in SUBSET Names /\ old.kind \in {"STRUCT", "VARIANT", "FUNCTION", "VALUE"}
      BY <2>1, <2>3 DEF KnownTypes
    <3> HIDE DEF old, unknown
    <3> QED
      BY <3>1, NewTypeIs
  <2>5. Populate(ch, decls[d]) = SetType(ch, name, type)
    <3>1. Unresolved(ch, decls[d].names) = unknown
      BY <2>1, UnresolvedIs
    <3>2. [old EXCEPT !.unknown = unknown] = type
      <4> HIDE DEF old, unknown
      <4> QED
        BY <2>3 DEF KnownTypes, NewType
    <3> QED
      BY <1>1, <2>1, <3>1, <3>2, KeptTypes DEF Populate, IsType, TypeKinds
  <2>6. KnownIn(ch) \cup {name} = KnownIn(ch)
    BY <1>1
  <2> DEFINE ch2 == Populate(ch, decls[d])
  <2> HIDE DEF type, name, ch2
  <2>7. /\ ch2 \in Kept /\ TypeOf(ch2, name) = type
        /\ \A other \in Names \ {name} : TypeOf(ch2, other) = TypeOf(ch, other)
        /\ KnownIn(ch2) = KnownIn(ch) \cup {name}
    BY <2>1, <2>4, <2>5, SetTypeIs DEF ch2
  <2> QED
    BY <1>1, <2>6, <2>7 DEF ch2, name, type
<1>2. CASE ~IsType(d)
  BY <1>2 DEF Populate, IsType, TypeKinds
<1> QED
  BY <1>1, <1>2

LEMMA TypedStep ==
  ASSUME WellFormed(decls), NEW ch \in Kept, NEW d \in 1 .. Len(decls)
  PROVE  /\ Typed(ch, decls[d]) \in Kept
         /\ KnownIn(Typed(ch, decls[d])) =
              KnownIn(ch) \cup (IF Gives(d) /\ ~IsType(d) THEN {decls[d].name} ELSE {})
         /\ \A name \in Names :
              ~(Gives(d) /\ ~IsType(d) /\ name = decls[d].name) =>
                TypeOf(Typed(ch, decls[d]), name) = TypeOf(ch, name)
         /\ Gives(d) /\ ~IsType(d) =>
              TypeOf(Typed(ch, decls[d]), decls[d].name) =
                NewType(KindGiven(d), decls[d].names \ KnownIn(ch))
         /\ decls[d].kind = "method" =>
              (Reports(ch, decls[d]) <=> decls[d].of \notin KnownIn(ch))
         /\ decls[d].kind = "schema" =>
              (Reports(ch, decls[d]) <=>
                 decls[d].of # NoSymbol /\ TypeOf(ch, decls[d].of).kind # "STRUCT")
<1>1. decls[d].kind = "method" => (Reports(ch, decls[d]) <=> decls[d].of \notin KnownIn(ch))
  BY DeclIs DEF Reports, KnownIn
<1>2. ASSUME decls[d].kind = "schema"
      PROVE  Reports(ch, decls[d]) <=>
               decls[d].of # NoSymbol /\ TypeOf(ch, decls[d].of).kind # "STRUCT"
  <2>1. LookupLocal(ch, decls[d].name) # NoSymbol
    BY <1>2, DeclIs, KeptTypes
  <2> QED
    BY <1>2, <2>1 DEF Reports
<1>3. CASE Gives(d) /\ ~IsType(d)
  <2> DEFINE name == decls[d].name
             unknown == Unresolved(ch, decls[d].names)
             type == NewType(KindGiven(d), unknown)
  <2>1. name \in Names /\ name \in Declared /\ decls[d].names \in SUBSET Names
    BY <1>3, DeclIs, GivesIs
  <2>2. unknown \in SUBSET Names /\ unknown = decls[d].names \ KnownIn(ch)
    BY <2>1, UnresolvedIs
  <2>3. Typed(ch, decls[d]) = SetType(ch, name, type)
    <3>1. decls[d].kind \in DeclKinds
      BY DeclIs DEF Declaration
    <3>2. \/ decls[d].kind \in {"func", "extern func"} /\ KindGiven(d) = "FUNCTION"
          \/ /\ decls[d].kind = "extern var" \/ (decls[d].kind = "var" /\ decls[d].names # {})
             /\ KindGiven(d) = "VALUE"
          \/ decls[d].kind = "schema" /\ KindGiven(d) = "STRUCT"
      BY <1>3, <3>1 DEF Gives, IsType, TypeKinds, DeclKinds, KindGiven
    <3> QED
      BY <3>2 DEF Typed
  <2>4. type \in SymbolTypes /\ type # NoType
    <3>1. KindGiven(d) \in {"STRUCT", "VARIANT", "FUNCTION", "VALUE"}
      BY DEF KindGiven
    <3> HIDE DEF unknown
    <3> QED
      BY <2>2, <3>1, NewTypeIs
  <2> DEFINE ch2 == Typed(ch, decls[d])
  <2> HIDE DEF name, type, ch2
  <2>5. /\ ch2 \in Kept /\ TypeOf(ch2, name) = type
        /\ \A other \in Names \ {name} : TypeOf(ch2, other) = TypeOf(ch, other)
        /\ KnownIn(ch2) = KnownIn(ch) \cup {name}
    BY <2>1, <2>3, <2>4, SetTypeIs DEF ch2
  <2> QED
    BY <1>1, <1>2, <1>3, <2>2, <2>5 DEF ch2, name, type
<1>4. CASE ~(Gives(d) /\ ~IsType(d))
  <2>1. Typed(ch, decls[d]) = ch
    BY <1>4 DEF Typed, Gives, IsType, TypeKinds
  <2> QED
    BY <1>1, <1>2, <1>4, <2>1
<1> QED
  BY <1>3, <1>4

\* The names that have types after pass 1 of k declarations, and after pass 2.
TypeNames(k) == {decls[d].name : d \in {e \in 1 .. k : IsType(e)}}
GivenBy(k) == {decls[d].name : d \in {e \in 1 .. Len(decls) : GivesBefore(e, k + 1)}}

LEMMA KnownToIs ==
  ASSUME WellFormed(decls), NEW d \in 1 .. Len(decls)
  PROVE  KnownTo(d) = IF IsType(d) THEN TypeNames(Len(decls)) ELSE GivenBy(d - 1)
<1>1. DOMAIN decls = 1 .. Len(decls) /\ Len(decls) \in Nat /\ (d - 1) + 1 = d
  BY DEF WellFormed
<1>2. CASE IsType(d)
  <2>1. \A k : GivesBefore(k, d) /\ (IsType(d) => IsType(k)) <=> IsType(k)
    BY <1>2, TypesGive DEF GivesBefore
  <2> QED
    BY <1>1, <1>2, <2>1 DEF KnownTo, TypeNames
<1>3. CASE ~IsType(d)
  BY <1>1, <1>3 DEF KnownTo, GivenBy
<1> QED
  BY <1>2, <1>3

\* The last type or variant of its name: that whose type the name is given at last.
LastType(d) ==
  /\ IsType(d)
  /\ \A e \in 1 .. Len(decls) : IsType(e) /\ decls[e].name = decls[d].name => e <= d

\* Pass 1 gives every type and variant its type, and nothing else.
LEMMA TypesNamed ==
  ASSUME WellFormed(decls), NEW ch \in Kept, KnownIn(ch) = {}
  PROVE  /\ Through(NewTypes, ch, decls) \in Kept
         /\ KnownIn(Through(NewTypes, ch, decls)) = TypeNames(Len(decls))
         /\ \A d \in 1 .. Len(decls) :
              LastType(d) => TypeOf(Through(NewTypes, ch, decls), decls[d].name).kind = KindGiven(d)
<1> DEFINE n == Len(decls)
<1>1. n \in Nat
  BY DEF WellFormed
<1> HIDE DEF n
<1>2. NewTypesKeeps(Kept, n, decls)
  BY NewTypesStep DEF NewTypesKeeps, n
<1>3. PICK f \in [0 .. n -> Kept] :
        NewTypesRun(f, n, ch, decls) /\ Through(NewTypes, ch, decls) = f[n]
  BY <1>1, <1>2, NewTypesThrough DEF n
<1> DEFINE Kind(k, d) == TypeOf(f[k], decls[d].name).kind = KindGiven(d)
           T == {k \in 0 .. n : /\ KnownIn(f[k]) = TypeNames(k)
                                /\ \A d \in 1 .. k : LastType(d) => Kind(k, d)}
<1>4. 0 \in T
  BY <1>1, <1>3 DEF NewTypesRun, TypeNames
<1>5. ASSUME NEW k \in 1 .. n, k - 1 \in T
      PROVE  k \in T
  <2>1. k \in 0 .. n /\ k - 1 \in 0 .. n /\ f[k - 1] \in Kept /\ k \in 1 .. Len(decls)
    BY <1>1 DEF n
  <2>2. f[k] = NewTypes(f[k - 1], decls[k])
    BY <1>3 DEF NewTypesRun
  <2>3. /\ KnownIn(f[k]) = KnownIn(f[k - 1]) \cup (IF IsType(k) THEN {decls[k].name} ELSE {})
        /\ \A name \in Names :
             ~(IsType(k) /\ name = decls[k].name) => TypeOf(f[k], name) = TypeOf(f[k - 1], name)
        /\ IsType(k) => Kind(k, k)
    <3> DEFINE y == NewTypes(f[k - 1], decls[k])
    <3>1. /\ KnownIn(y) = KnownIn(f[k - 1]) \cup (IF IsType(k) THEN {decls[k].name} ELSE {})
          /\ \A name \in Names :
               ~(IsType(k) /\ name = decls[k].name) => TypeOf(y, name) = TypeOf(f[k - 1], name)
          /\ IsType(k) => TypeOf(y, decls[k].name).kind = KindGiven(k)
      BY <2>1, NewTypesStep
    <3> HIDE DEF y
    <3>2. f[k] = y
      BY <2>2 DEF y
    <3> QED
      BY <3>1, <3>2
  <2>4. TypeNames(k) = TypeNames(k - 1) \cup (IF IsType(k) THEN {decls[k].name} ELSE {})
    <3>1. \A e : e \in 1 .. k <=> e \in 1 .. k - 1 \/ e = k
      BY <1>1
    <3> QED
      BY <3>1 DEF TypeNames
  <2>5. ASSUME NEW d \in 1 .. k, LastType(d), d # k
        PROVE  Kind(k, d)
    <3>1. d \in 1 .. k - 1 /\ d \in 1 .. Len(decls) /\ ~(k <= d)
      BY <1>1, <2>5 DEF n
    <3>2. decls[d].name \in Names
      BY <2>5, <3>1, TypesGive, GivesIs DEF LastType
    <3>3. ~(IsType(k) /\ decls[d].name = decls[k].name)
      BY <2>1, <2>5, <3>1 DEF LastType
    <3> QED
      BY <1>5, <2>3, <2>5, <3>1, <3>2, <3>3
  <2>6. \A d \in 1 .. k : LastType(d) => Kind(k, d)
    BY <2>3, <2>5 DEF LastType
  <2> QED
    BY <1>5, <2>1, <2>3, <2>4, <2>6
<1>6. n \in T
  <2> HIDE DEF T
  <2>1. 0 .. n \subseteq T
    BY <1>1, <1>4, <1>5, UpTo
  <2> QED
    BY <1>1, <2>1
<1>7. f[n] \in Kept
  BY <1>1
<1> QED
  BY <1>3, <1>6, <1>7 DEF n

\* Pass 1.5 resolves the names of their fields, knowing all of them and no other.
LEMMA FieldsKnown ==
  ASSUME WellFormed(decls), NEW ch \in Kept, KnownIn(ch) = TypeNames(Len(decls)),
         \A d \in 1 .. Len(decls) : LastType(d) => TypeOf(ch, decls[d].name).kind = KindGiven(d)
  PROVE  /\ Through(Populate, ch, decls) \in Kept
         /\ KnownIn(Through(Populate, ch, decls)) = TypeNames(Len(decls))
         /\ \A d \in 1 .. Len(decls) :
              LastType(d) => TypeOf(Through(Populate, ch, decls), decls[d].name) =
                               NewType(KindGiven(d), decls[d].names \ TypeNames(Len(decls)))
<1> DEFINE n == Len(decls)
           S == {c \in Kept : KnownIn(c) = TypeNames(n)}
<1>1. n \in Nat /\ ch \in S
  BY DEF WellFormed
<1>2. ASSUME NEW d \in 1 .. n, IsType(d)
      PROVE  decls[d].name \in TypeNames(n)
  BY <1>2 DEF TypeNames
<1>3. \A d \in 1 .. n : LastType(d) => TypeOf(ch, decls[d].name).kind = KindGiven(d)
  OBVIOUS
<1> HIDE DEF n
<1>4. PopulateKeeps(S, n, decls)
  BY <1>2, PopulateStep DEF PopulateKeeps, n
<1>5. PICK f \in [0 .. n -> S] :
        PopulateRun(f, n, ch, decls) /\ Through(Populate, ch, decls) = f[n]
  <2> HIDE DEF S
  <2> QED
    BY <1>1, <1>4, PopulateThrough DEF n
<1> DEFINE Kind(k, d) == TypeOf(f[k], decls[d].name).kind = KindGiven(d)
           Known1(k, d) ==
             TypeOf(f[k], decls[d].name) = NewType(KindGiven(d), decls[d].names \ TypeNames(n))
           T == {k \in 0 .. n : \A d \in 1 .. n :
                   LastType(d) => Kind(k, d) /\ (d <= k => Known1(k, d))}
<1>6. 0 \in T
  <2>1. \A d \in 1 .. n : ~(d <= 0)
    BY <1>1
  <2> QED
    BY <1>1, <1>3, <1>5, <2>1 DEF PopulateRun
<1>7. ASSUME NEW k \in 1 .. n, k - 1 \in T
      PROVE  k \in T
  <2>1. k \in 0 .. n /\ k - 1 \in 0 .. n /\ f[k - 1] \in S
    BY <1>1
  <2>2. f[k] = Populate(f[k - 1], decls[k])
    BY <1>5 DEF PopulateRun
  <2>3. /\ \A name \in Names :
             ~(IsType(k) /\ name = decls[k].name) => TypeOf(f[k], name) = TypeOf(f[k - 1], name)
        /\ IsType(k) => TypeOf(f[k], decls[k].name) =
                          NewType(TypeOf(f[k - 1], decls[k].name).kind,
                                  decls[k].names \ TypeNames(n))
    BY <1>2, <2>1, <2>2, PopulateStep DEF n
  <2>4. ASSUME NEW d \in 1 .. n, LastType(d)
        PROVE  Kind(k, d) /\ (d <= k => Known1(k, d))
    <3>1. Kind(k - 1, d) /\ (d <= k - 1 => Known1(k - 1, d))
      BY <1>7, <2>4
    <3>2. CASE d = k
      <4>1. IsType(k) /\ Known1(k, k)
        BY <2>3, <2>4, <3>1, <3>2 DEF LastType
      <4>2. NewType(KindGiven(d), decls[d].names \ TypeNames(n)).kind = KindGiven(d)
        BY DEF NewType
      <4> QED
        BY <3>2, <4>1, <4>2
    <3>3. CASE d # k /\ IsType(k) /\ decls[d].name = decls[k].name
      <4>1. k < d /\ ~(d <= k)
        BY <1>1, <2>4, <3>3 DEF LastType, n
      <4>2. TypeOf(f[k], decls[k].name).kind = TypeOf(f[k - 1], decls[k].name).kind
        <5> DEFINE kind == TypeOf(f[k - 1], decls[k].name).kind
        <5>1. NewType(kind, decls[k].names \ TypeNames(n)).kind = kind
          BY DEF NewType
        <5> QED
          BY <2>3, <3>3, <5>1
      <4>3. Kind(k, d)
        BY <3>1, <3>3, <4>2
      <4> QED
        BY <4>1, <4>3
    <3>4. CASE d # k /\ ~(IsType(k) /\ decls[d].name = decls[k].name)
      <4>1. decls[d].name \in Names
        BY <2>4, TypesGive, GivesIs DEF LastType, n
      <4>2. TypeOf(f[k], decls[d].name) = TypeOf(f[k - 1], decls[d].name)
        BY <2>3, <3>4, <4>1
      <4>3. d <= k => d <= k - 1
        BY <1>1, <3>4
      <4> QED
        BY <3>1, <4>2, <4>3
    <3> QED
      BY <3>2, <3>3, <3>4
  <2> QED
    BY <2>1, <2>4
<1>8. n \in T
  <2> HIDE DEF T
  <2>1. 0 .. n \subseteq T
    BY <1>1, <1>6, <1>7, UpTo
  <2> QED
    BY <1>1, <2>1
<1>9. \A d \in 1 .. n : d <= n /\ (LastType(d) => Known1(n, d))
  BY <1>1, <1>8
<1>10. f[n] \in S
  BY <1>1
<1> QED
  BY <1>5, <1>9, <1>10 DEF n

\* Of the declarations of a name that give it a type before m, one decides.
LEMMA DeciderExists ==
  ASSUME WellFormed(decls), NEW m \in Nat, NEW j \in 1 .. Len(decls), GivesBefore(j, m)
  PROVE  \E d \in 1 .. Len(decls) : Decides(d, m) /\ decls[d].name = decls[j].name
<1> DEFINE n == Len(decls)
           Same(late) == {e \in 1 .. n : /\ GivesBefore(e, m)
                                         /\ decls[e].name = decls[j].name
                                         /\ IsType(e) = ~late}
           late == Same(TRUE) # {}
<1>1. n \in Nat /\ DOMAIN decls = 1 .. n
  BY DEF WellFormed
<1>2. Same(late) # {} /\ Same(late) \in SUBSET (1 .. n)
  <2>1. j \in Same(TRUE) \cup Same(FALSE)
    BY DEF IsType
  <2> QED
    BY <2>1
<1>3. PICK d \in Same(late) : \A e \in Same(late) : e <= d
  <2> DEFINE T == Same(late)
  <2> HIDE DEF T
  <2>1. T # {} /\ T \in SUBSET (1 .. n)
    BY <1>2 DEF T
  <2> HIDE DEF n
  <2>2. \E d \in T : \A e \in T : e <= d
    BY <1>1, <2>1, Greatest
  <2> QED
    BY <2>2 DEF T
<1>4. d \in 1 .. n /\ GivesBefore(d, m) /\ decls[d].name = decls[j].name /\ IsType(d) = ~late
  OBVIOUS
<1>5. ASSUME NEW k \in 1 .. n, GivesBefore(k, m), decls[k].name = decls[d].name, k # d
      PROVE  Replaces(d, k)
  <2>1. CASE IsType(k) = IsType(d)
    <3>1. k \in Same(late)
      BY <1>4, <1>5, <2>1
    <3>2. k <= d /\ k # d
      BY <1>3, <1>5, <3>1
    <3> QED
      BY <1>4, <2>1, <3>2 DEF Replaces
  <2>2. CASE IsType(k) # IsType(d)
    <3>1. ~IsType(k) => k \in Same(TRUE)
      BY <1>4, <1>5 DEF IsType
    <3>2. IsType(k)
      BY <1>4, <2>2, <3>1 DEF IsType
    <3> QED
      BY <2>2, <3>2 DEF Replaces
  <2> QED
    BY <2>1, <2>2
<1> QED
  BY <1>1, <1>4, <1>5 DEF Decides

\* Pass 2, after k declarations.
TypedUpTo(out, k) ==
  /\ KnownIn(out.chain) = GivenBy(k)
  /\ \A d \in 1 .. Len(decls) :
       Decides(d, k + 1) =>
         TypeOf(out.chain, decls[d].name) = NewType(KindGiven(d), decls[d].names \ KnownTo(d))
  /\ Len(out.reported) = k
  /\ \A d \in 1 .. k :
       /\ decls[d].kind = "method" => (out.reported[d] <=> decls[d].of \notin KnownTo(d))
       /\ decls[d].kind = "schema" =>
            (out.reported[d] <=> decls[d].of \notin StructTo(d) \cup {NoSymbol})

\* The names of structs that pass 2 finds when it comes to k.
LEMMA StructsAre ==
  ASSUME WellFormed(decls), NEW k \in 1 .. Len(decls), NEW name \in Names,
         NEW out, TypedUpTo(out, k - 1)
  PROVE  TypeOf(out.chain, name).kind = "STRUCT" <=> name \in StructTo(k)
<1>1. /\ k \in Nat /\ (k - 1) + 1 = k /\ DOMAIN decls = 1 .. Len(decls)
      /\ KnownIn(out.chain) = GivenBy(k - 1)
  BY DEF WellFormed, TypedUpTo
<1>2. ASSUME NEW d \in 1 .. Len(decls), Decides(d, k)
      PROVE  TypeOf(out.chain, decls[d].name).kind = KindGiven(d)
  <2>1. Decides(d, (k - 1) + 1)
    BY <1>1, <1>2
  <2>2. TypeOf(out.chain, decls[d].name) = NewType(KindGiven(d), decls[d].names \ KnownTo(d))
    BY <2>1 DEF TypedUpTo
  <2> QED
    BY <2>2 DEF NewType
<1>3. ASSUME TypeOf(out.chain, name).kind = "STRUCT"
      PROVE  name \in StructTo(k)
  <2>1. name \in GivenBy(k - 1)
    BY <1>1, <1>3 DEF KnownIn, NoType
  <2>2. PICK j \in 1 .. Len(decls) : GivesBefore(j, k) /\ decls[j].name = name
    BY <1>1, <2>1 DEF GivenBy
  <2>3. PICK d \in 1 .. Len(decls) : Decides(d, k) /\ decls[d].name = name
    BY <1>1, <2>2, DeciderExists
  <2>4. KindGiven(d) = "STRUCT"
    BY <1>2, <1>3, <2>3
  <2> QED
    BY <1>1, <2>3, <2>4 DEF StructTo
<1>4. ASSUME name \in StructTo(k)
      PROVE  TypeOf(out.chain, name).kind = "STRUCT"
  BY <1>1, <1>2, <1>4 DEF StructTo
<1> QED
  BY <1>3, <1>4

LEMMA GivesNext ==
  ASSUME WellFormed(decls), NEW k \in 1 .. Len(decls), NEW e \in 1 .. Len(decls)
  PROVE  GivesBefore(e, k + 1) <=> (GivesBefore(e, k) \/ (e = k /\ Gives(k) /\ ~IsType(k)))
<1>1. k \in Nat /\ e \in Nat
  BY DEF WellFormed
<1>2. CASE e = k
  <2>1. k < k + 1 /\ ~(k < k)
    BY <1>1
  <2> QED
    BY <1>2, <2>1 DEF GivesBefore, Gives, IsType
<1>3. CASE e # k
  <2>1. e < k + 1 <=> e < k
    BY <1>1, <1>3
  <2> QED
    BY <1>3, <2>1 DEF GivesBefore
<1> QED
  BY <1>2, <1>3

\* What has decided after k decided before it, unless it is k.
LEMMA DecidesBefore ==
  ASSUME WellFormed(decls), NEW k \in 1 .. Len(decls), NEW d \in 1 .. Len(decls),
         Decides(d, k + 1), ~(d = k /\ ~IsType(k))
  PROVE  Decides(d, k) /\ ~(Gives(k) /\ ~IsType(k) /\ decls[d].name = decls[k].name)
<1>1. k \in Nat /\ d \in Nat /\ DOMAIN decls = 1 .. Len(decls)
  BY DEF WellFormed
<1>2. \A e \in 1 .. Len(decls) :
        GivesBefore(e, k + 1) <=> (GivesBefore(e, k) \/ (e = k /\ Gives(k) /\ ~IsType(k)))
  BY GivesNext
<1>3. GivesBefore(d, k)
  BY <1>2 DEF Decides
<1>4. Decides(d, k)
  BY <1>1, <1>2, <1>3 DEF Decides
<1>5. ASSUME Gives(k), ~IsType(k), decls[d].name = decls[k].name
      PROVE  FALSE
  <2>1. k # d /\ Replaces(d, k)
    BY <1>1, <1>2, <1>5 DEF Decides
  <2>2. ~IsType(d) /\ d > k
    BY <1>5, <2>1 DEF Replaces, IsType
  <2> QED
    BY <1>1, <1>3, <2>2 DEF GivesBefore
<1> QED
  BY <1>4, <1>5

LEMMA DeclareStep ==
  ASSUME WellFormed(decls), NEW k \in 1 .. Len(decls),
         NEW out \in [chain : Kept, reported : Seq(BOOLEAN)]
  PROVE  /\ Declare(out, decls[k]) \in [chain : Kept, reported : Seq(BOOLEAN)]
         /\ TypedUpTo(out, k - 1) => TypedUpTo(Declare(out, decls[k]), k)
<1> DEFINE ch == out.chain
           ch2 == Typed(ch, decls[k])
           reports == Reports(ch, decls[k])
           reported2 == Append(out.reported, reports)
<1>1. /\ ch \in Kept /\ out.reported \in Seq(BOOLEAN) /\ Len(decls) \in Nat
      /\ k \in Nat /\ (k - 1) + 1 = k
      /\ Declare(out, decls[k]) = [chain |-> ch2, reported |-> reported2]
  BY DEF WellFormed, Declare
<1>2. reports \in BOOLEAN
  BY DEF Reports
<1>3. /\ ch2 \in Kept
      /\ KnownIn(ch2) = KnownIn(ch) \cup (IF Gives(k) /\ ~IsType(k) THEN {decls[k].name} ELSE {})
      /\ \A name \in Names :
           ~(Gives(k) /\ ~IsType(k) /\ name = decls[k].name) => TypeOf(ch2, name) = TypeOf(ch, name)
      /\ Gives(k) /\ ~IsType(k) =>
           TypeOf(ch2, decls[k].name) = NewType(KindGiven(k), decls[k].names \ KnownIn(ch))
      /\ decls[k].kind = "method" => (reports <=> decls[k].of \notin KnownIn(ch))
      /\ decls[k].kind = "schema" =>
           (reports <=> decls[k].of # NoSymbol /\ TypeOf(ch, decls[k].of).kind # "STRUCT")
  BY <1>1, TypedStep
<1> HIDE DEF ch, ch2, reports
<1>4. /\ reported2 \in Seq(BOOLEAN)
      /\ Len(reported2) = Len(out.reported) + 1
      /\ \A d \in 1 .. Len(out.reported) : reported2[d] = out.reported[d]
      /\ reported2[Len(out.reported) + 1] = reports
  BY <1>1, <1>2, AppendProperties
<1> HIDE DEF reported2
<1>5. ASSUME TypedUpTo(out, k - 1)
      PROVE  TypedUpTo(Declare(out, decls[k]), k)
  <2>1. KnownIn(ch) = GivenBy(k - 1)
    BY <1>5 DEF TypedUpTo, ch
  <2>2. ~IsType(k) => KnownIn(ch) = KnownTo(k)
    BY <2>1, KnownToIs
  <2>3. KnownIn(ch2) = GivenBy(k)
    <3>1. \A e \in 1 .. Len(decls) :
            GivesBefore(e, k + 1) <=> (GivesBefore(e, k) \/ (e = k /\ Gives(k) /\ ~IsType(k)))
      BY GivesNext
    <3>2. GivenBy(k) = GivenBy(k - 1) \cup (IF Gives(k) /\ ~IsType(k) THEN {decls[k].name} ELSE {})
      <4>1. GivenBy(k - 1) = {decls[d].name : d \in {e \in 1 .. Len(decls) : GivesBefore(e, k)}}
        BY <1>1 DEF GivenBy
      <4> QED
        BY <3>1, <4>1 DEF GivenBy
    <3> QED
      BY <1>3, <2>1, <3>2
  <2>4. ASSUME NEW d \in 1 .. Len(decls), Decides(d, k + 1)
        PROVE  TypeOf(ch2, decls[d].name) = NewType(KindGiven(d), decls[d].names \ KnownTo(d))
    <3>1. Gives(d) /\ decls[d].name \in Names
      BY <2>4, GivesIs DEF Decides, GivesBefore
    <3>2. CASE d = k /\ ~IsType(k)
      BY <1>3, <2>2, <3>1, <3>2
    <3>3. CASE ~(d = k /\ ~IsType(k))
      <4>1. Decides(d, (k - 1) + 1) /\ ~(Gives(k) /\ ~IsType(k) /\ decls[d].name = decls[k].name)
        BY <1>1, <2>4, <3>3, DecidesBefore
      <4>2. TypeOf(ch, decls[d].name) = NewType(KindGiven(d), decls[d].names \ KnownTo(d))
        BY <1>5, <4>1 DEF TypedUpTo, ch
      <4> QED
        BY <1>3, <3>1, <4>1, <4>2
    <3> QED
      BY <3>2, <3>3
  <2>5. Len(out.reported) = k - 1 /\ Len(reported2) = k
    BY <1>1, <1>4, <1>5 DEF TypedUpTo
  <2>6. ASSUME NEW d \in 1 .. k
        PROVE  /\ decls[d].kind = "method" => (reported2[d] <=> decls[d].of \notin KnownTo(d))
               /\ decls[d].kind = "schema" =>
                    (reported2[d] <=> decls[d].of \notin StructTo(d) \cup {NoSymbol})
    <3>1. CASE d = k
      <4>1. reported2[k] = reports
        BY <1>1, <1>4, <2>5
      <4>2. decls[k].kind = "method" => KnownIn(ch) = KnownTo(k)
        BY <2>2 DEF IsType, TypeKinds
      <4>3. decls[k].of # NoSymbol =>
              (TypeOf(ch, decls[k].of).kind = "STRUCT" <=> decls[k].of \in StructTo(k))
        BY <1>5, DeclIs, StructsAre DEF ch
      <4> QED
        BY <1>3, <3>1, <4>1, <4>2, <4>3
    <3>2. CASE d # k
      <4>1. d \in 1 .. k - 1
        BY <1>1, <3>2
      <4>2. reported2[d] = out.reported[d]
        BY <1>4, <2>5, <4>1
      <4> QED
        BY <1>5, <4>1, <4>2 DEF TypedUpTo
    <3> QED
      BY <3>1, <3>2
  <2> QED
    BY <1>1, <2>3, <2>4, <2>5, <2>6 DEF TypedUpTo
<1> QED
  BY <1>1, <1>3, <1>4, <1>5

LEMMA ValuesKnown ==
  ASSUME WellFormed(decls), NEW ch \in Kept,
         TypedUpTo([chain |-> ch, reported |-> <<>>], 0)
  PROVE  LET out == Through(Declare, [chain |-> ch, reported |-> <<>>], decls) IN
         /\ out \in [chain : Kept, reported : Seq(BOOLEAN)]
         /\ TypedUpTo(out, Len(decls))
<1> DEFINE n == Len(decls)
           S == [chain : Kept, reported : Seq(BOOLEAN)]
           x == [chain |-> ch, reported |-> <<>>]
<1>1. n \in Nat /\ x \in S
  BY DEF WellFormed
<1>2. TypedUpTo(x, 0)
  OBVIOUS
<1> HIDE DEF n, x
<1>3. DeclareKeeps(S, n, decls)
  BY DeclareStep DEF DeclareKeeps, n
<1> HIDE DEF S
<1>4. PICK f \in [0 .. n -> S] :
        DeclareRun(f, n, x, decls) /\ Through(Declare, x, decls) = f[n]
  BY <1>1, <1>3, DeclareThrough DEF n
<1> DEFINE T == {k \in 0 .. n : TypedUpTo(f[k], k)}
<1>5. 0 \in T
  BY <1>1, <1>2, <1>4 DEF DeclareRun
<1>6. ASSUME NEW k \in 1 .. n, k - 1 \in T
      PROVE  k \in T
  <2>1. k \in 0 .. n /\ k - 1 \in 0 .. n /\ f[k - 1] \in S
    BY <1>1
  <2>2. f[k] = Declare(f[k - 1], decls[k])
    BY <1>4 DEF DeclareRun
  <2>3. TypedUpTo(f[k - 1], k - 1)
    BY <1>6
  <2>4. TypedUpTo(f[k], k)
    BY <2>1, <2>2, <2>3, DeclareStep DEF n, S
  <2> QED
    BY <2>1, <2>4
<1>7. n \in T
  <2> HIDE DEF T
  <2>1. 0 .. n \subseteq T
    BY <1>1, <1>5, <1>6, UpTo
  <2> QED
    BY <1>1, <2>1
<1>8. f[n] \in S
  BY <1>1
<1> QED
  BY <1>4, <1>7, <1>8 DEF n, x, S

LEMMA CollectTyped ==
  ASSUME CollectInv
  PROVE  TypesKnown
<1> SUFFICES ASSUME phase = "start" PROVE TypesKnown
  BY DEF TypesKnown
<1> USE DEF CollectInv
<1>1. /\ WellFormed(decls) /\ Len(decls) \in Nat /\ DOMAIN decls = 1 .. Len(decls)
      /\ chain \in Seq(Scope) /\ Len(chain) = 1 /\ chain[1] = Root
  BY DEF CollectTypeOK, ScopesNoted, Scope, WellFormed
<1>2. chain \in Kept /\ KnownIn(chain) = {}
  <2>1. \A name \in Names : chain[1][name] = NoSymbol <=> name \notin Declared
    BY <1>1, ValueIs DEF Root
  <2>2. chain \in Kept
    BY <1>1, <2>1 DEF Kept
  <2>3. \A name \in Names : TypeOf(chain, name) = NoType
    BY <1>1, <2>2, KeptTypes, ValueIs DEF Root
  <2> QED
    BY <2>2, <2>3 DEF KnownIn
<1> DEFINE ch1 == Through(NewTypes, chain, decls)
           ch2 == Through(Populate, ch1, decls)
           x == [chain |-> ch2, reported |-> <<>>]
           out == Collect(chain, decls)
<1>3. /\ ch1 \in Kept /\ KnownIn(ch1) = TypeNames(Len(decls))
      /\ \A d \in 1 .. Len(decls) :
           LastType(d) => TypeOf(ch1, decls[d].name).kind = KindGiven(d)
  BY <1>1, <1>2, TypesNamed
<1> HIDE DEF ch1
<1>4. /\ ch2 \in Kept /\ KnownIn(ch2) = TypeNames(Len(decls))
      /\ \A d \in 1 .. Len(decls) :
           LastType(d) => TypeOf(ch2, decls[d].name) =
                            NewType(KindGiven(d), decls[d].names \ TypeNames(Len(decls)))
  BY <1>1, <1>3, FieldsKnown
<1> HIDE DEF ch2
<1>5. TypedUpTo(x, 0)
  <2>1. \A e \in 1 .. Len(decls) : GivesBefore(e, 0 + 1) <=> IsType(e)
    BY <1>1, TypesGive DEF GivesBefore
  <2>2. TypeNames(Len(decls)) = GivenBy(0)
    BY <2>1 DEF TypeNames, GivenBy
  <2>3. ASSUME NEW d \in 1 .. Len(decls), Decides(d, 0 + 1)
        PROVE  TypeOf(ch2, decls[d].name) = NewType(KindGiven(d), decls[d].names \ KnownTo(d))
    <3>1. IsType(d)
      BY <2>1, <2>3 DEF Decides
    <3>2. LastType(d)
      <4> SUFFICES ASSUME NEW e \in 1 .. Len(decls), IsType(e), decls[e].name = decls[d].name
                   PROVE  e <= d
        BY <3>1 DEF LastType
      <4>1. e = d \/ Replaces(d, e)
        BY <1>1, <2>1, <2>3 DEF Decides
      <4>2. e = d \/ d > e
        BY <3>1, <4>1 DEF Replaces
      <4> QED
        BY <1>1, <4>2
    <3> QED
      BY <1>1, <1>4, <3>1, <3>2, KnownToIs
  <2> QED
    BY <1>4, <2>2, <2>3 DEF TypedUpTo
<1>6. out = Through(Declare, x, decls)
  BY DEF Collect, ch1, ch2
<1>7. out \in [chain : Kept, reported : Seq(BOOLEAN)] /\ TypedUpTo(out, Len(decls))
  BY <1>1, <1>4, <1>5, <1>6, ValuesKnown
<1> HIDE DEF out, x
<1>8. ASSUME NEW name \in Names
      PROVE  TypeOf(out.chain, name) # NoType <=>
               \E d \in DOMAIN decls : Gives(d) /\ decls[d].name = name
  <2>1. \A d \in 1 .. Len(decls) : GivesBefore(d, Len(decls) + 1) <=> Gives(d)
    BY <1>1 DEF GivesBefore
  <2>2. name \in KnownIn(out.chain) <=> \E d \in DOMAIN decls : Gives(d) /\ decls[d].name = name
    BY <1>1, <1>7, <2>1 DEF TypedUpTo, GivenBy
  <2> QED
    BY <2>2 DEF KnownIn
<1>9. ASSUME NEW d \in DOMAIN decls
      PROVE  /\ Decides(d, Len(decls) + 1) =>
                  TypeOf(out.chain, decls[d].name) =
                    NewType(KindGiven(d), decls[d].names \ KnownTo(d))
             /\ decls[d].kind = "method" => (out.reported[d] <=> decls[d].of \notin KnownTo(d))
             /\ decls[d].kind = "schema" =>
                  (out.reported[d] <=> decls[d].of \notin StructTo(d) \cup {NoSymbol})
  BY <1>1, <1>7 DEF TypedUpTo
<1> QED
  BY <1>8, <1>9 DEF TypesKnown, out

\* Given the list of declarations that is meant, typechecker_collect_decls leaves
\* every name the type of the declaration that decides, whatever their order and
\* however often it is declared, with nothing unknown in it but what pass 2 has yet
\* to come to; and it reports the methods and schemas it finds no types for.
THEOREM CollectTypesKnown == CollectSpec => []TypesKnown
<1>1. CollectInv => TypesKnown
  BY CollectTyped
<1> QED
  BY CollectSafe, <1>1, PTL
=============================================================================
