---------------------------- MODULE StOptimizer -----------------------------
(***************************************************************************)
(* The ST optimizer (st_optimizer_src/st_optimizer.cpp): the loop of main()*)
(* over the lines of a program, which moves the bodies of identical IF     *)
(* lines into the first of them, and the file it overwrites.  The web      *)
(* server runs it on each program it builds, once more when the same file  *)
(* is built again.                                                         *)
(*                                                                         *)
(* A line is an IF with its condition and indent (two IF lines are equal   *)
(* if both are), END_IF, ELSE or a statement with the number it was        *)
(* written as.  The programs are all those with at most MaxLines lines     *)
(* whose IFs are closed.                                                   *)
(***************************************************************************)
EXTENDS Integers, Sequences, FiniteSets

CONSTANTS
  IfLines,    \* the IF lines of programs: [kind |-> "IF", cond, indent]
  MaxLines    \* bound: the length of a program

ASSUME OptimizerAssumption ==
  /\ \A l \in IfLines : l.kind = "IF"
  /\ MaxLines \in Nat

VARIABLES
  program,       \* the file as the user wrote it
  file,          \* the file the next run reads
  phase,         \* "writing", "run" or "over"
  passes,        \* runs of the optimizer so far
  current_line, list_of_IFs, final_program

optimizerVars == <<program, file, phase, passes, current_line, list_of_IFs, final_program>>

EndIf == [kind |-> "END_IF"]
Else  == [kind |-> "ELSE"]
Statement(n) == [kind |-> "statement", number |-> n]

Count(p, i, j, kind) == Cardinality({k \in i..j : p[k].kind = kind})

\* IFs open after line j.
Depth(p, j) == Count(p, 1, j, "IF") - Count(p, 1, j, "END_IF")

\* The line that ends the IF at line i: count_for_break reaches 0.
EndOf(p, i) ==
  CHOOSE j \in (i + 1)..Len(p) :
    /\ Count(p, i, j, "IF") = Count(p, i, j, "END_IF")
    /\ \A k \in (i + 1)..(j - 1) : Count(p, i, k, "IF") > Count(p, i, k, "END_IF")

BodyOf(p, i) == SubSeq(p, i + 1, EndOf(p, i) - 1)

\* The IF at line i surrounds line k.
Surrounds(p, i, k) == p[i].kind = "IF" /\ i < k /\ k < EndOf(p, i)

\* Line k belongs to the ELSE branch of the IF at line i.
InElse(p, i, k) ==
  \E e \in (i + 1)..(k - 1) : p[e].kind = "ELSE" /\ Depth(p, e) = Depth(p, i)

-----------------------------------------------------------------------------
(* The program is written. *)

OptimizerInit ==
  /\ program = << >> /\ file = << >>
  /\ phase = "writing" /\ passes = 0
  /\ current_line = 0 /\ list_of_IFs = {} /\ final_program = << >>

MayElse ==
  /\ Depth(program, Len(program)) > 0
  /\ \A i \in DOMAIN program :
       Depth(program, i) = Depth(program, Len(program)) /\ program[i].kind = "IF"
       /\ (\A k \in i..Len(program) : Depth(program, k) >= Depth(program, i))
          => ~InElse(program, i, Len(program) + 1)

\* Lines are added as long as all IFs can still be closed.
Write(line) ==
  /\ phase = "writing"
  /\ line = Else => MayElse
  /\ line = EndIf => Depth(program, Len(program)) > 0
  /\ program' = Append(program, line)
  /\ Len(program') + Depth(program', Len(program')) <= MaxLines
  /\ UNCHANGED <<file, phase, passes, current_line, list_of_IFs, final_program>>

BuildFirst ==
  /\ phase = "writing" /\ program # << >> /\ Depth(program, Len(program)) = 0
  /\ file' = program
  /\ phase' = "run"
  /\ UNCHANGED <<program, passes, current_line, list_of_IFs, final_program>>

\* The same file is built once more.
BuildAgain ==
  /\ phase = "over" /\ passes = 1
  /\ phase' = "run"
  /\ UNCHANGED <<program, file, passes, current_line, list_of_IFs, final_program>>

-----------------------------------------------------------------------------
(* main() *)

Next1 == current_line + 1
Line  == file[Next1]
Reading == phase = "run" /\ current_line < Len(file)

CopyLine ==
  /\ Reading /\ Line.kind # "IF"
  /\ final_program' = Append(final_program, Line)
  /\ current_line' = Next1
  /\ UNCHANGED <<program, file, phase, passes, list_of_IFs>>

\* The bodies of the lines from a place on that equal an IF line, at any depth.
Later(line, from) ==
  LET later[k \in from..(Len(file) + 1)] ==
        IF k > Len(file) THEN << >>
        ELSE IF file[k] = line THEN BodyOf(file, k) \o later[EndOf(file, k) + 1]
        ELSE later[k + 1]
  IN  later[from]

\* Faulty variant of FirstIf: the IF line is not remembered.
FirstIfForgotten ==
  /\ Reading /\ Line.kind = "IF" /\ Line \notin list_of_IFs
  /\ final_program' = final_program \o <<Line>> \o BodyOf(file, Next1)
                        \o Later(Line, EndOf(file, Next1) + 1) \o <<EndIf>>
  /\ current_line' = EndOf(file, Next1)
  /\ UNCHANGED <<program, file, phase, passes, list_of_IFs>>

FirstIf ==
  /\ Reading /\ Line.kind = "IF" /\ Line \notin list_of_IFs
  /\ list_of_IFs' = list_of_IFs \cup {Line}
  /\ final_program' = final_program \o <<Line>> \o BodyOf(file, Next1)
                        \o Later(Line, EndOf(file, Next1) + 1) \o <<EndIf>>
  /\ current_line' = EndOf(file, Next1)
  /\ UNCHANGED <<program, file, phase, passes>>

\* Faulty variant of SkipDuplicate: it skips to the first END_IF in sight.
SkipToAnyEnd ==
  /\ Reading /\ Line \in list_of_IFs
  /\ current_line' = CHOOSE j \in Next1..Len(file) :
       file[j] = EndIf /\ \A k \in Next1..(j - 1) : file[k] # EndIf
  /\ UNCHANGED <<program, file, phase, passes, list_of_IFs, final_program>>

SkipDuplicate ==
  /\ Reading /\ Line \in list_of_IFs
  /\ current_line' = EndOf(file, Next1)
  /\ UNCHANGED <<program, file, phase, passes, list_of_IFs, final_program>>

\* The output overwrites the input; the process ends.
WriteFile ==
  /\ phase = "run" /\ current_line = Len(file)
  /\ file' = final_program
  /\ phase' = "over" /\ passes' = passes + 1
  /\ current_line' = 0 /\ list_of_IFs' = {} /\ final_program' = << >>
  /\ UNCHANGED program

main == CopyLine \/ FirstIf \/ SkipDuplicate \/ WriteFile

OptimizerNext ==
  \/ \E line \in IfLines \cup {EndIf, Else, Statement(Len(program) + 1)} : Write(line)
  \/ BuildFirst \/ BuildAgain
  \/ main

OptimizerSpec == OptimizerInit /\ [][OptimizerNext]_optimizerVars

-----------------------------------------------------------------------------
TopIfs(p) == {i \in DOMAIN p : p[i].kind = "IF" /\ Depth(p, i) = 1}

\* Programs as the editor writes them: an IF inside another is indented and so
\* never equals a first-level one, and no IF that comes twice has an ELSE.
Mergeable(p) ==
  \A i \in TopIfs(p) :
    /\ \A j \in DOMAIN p : p[j] = p[i] => Depth(p, j) = 1
    /\ (\E j \in TopIfs(p) \ {i} : p[j] = p[i]) => ~InElse(p, i, EndOf(p, i))

Statements(p) == {k \in DOMAIN p : p[k].kind = "statement"}

\* The statements executed where the conditions in holds hold.
Executed(p, holds) ==
  {p[k].number : k \in {l \in Statements(p) :
     \A i \in DOMAIN p : Surrounds(p, i, l) => (p[i].cond \in holds <=> ~InElse(p, i, l))}}

\* Two statements that no move may exchange: both outside of all IFs, or under
\* equal first-level IFs.
Together(p, k, l) ==
  LET Around(m) == {p[i] : i \in {j \in TopIfs(p) : Surrounds(p, j, m)}}
  IN  Around(k) = Around(l)

Conditions == {l.cond : l \in IfLines}

\* The optimized program executes the same statements, each written once, and
\* those of equal IFs, or of none, in the same order.
EffectKept ==
  phase = "over" /\ Mergeable(program) =>
    /\ Cardinality(Statements(file)) = Cardinality(Statements(program))
    /\ \A holds \in SUBSET Conditions : Executed(file, holds) = Executed(program, holds)
    /\ \A k, l \in Statements(file) :
         k < l /\ Together(program, file[k].number, file[l].number)
           => file[k].number < file[l].number

\* st_optimizer.cpp:20-21, "scan the ST file for first-level IF statements and
\* concatenate identical statements together": a second run finds nothing left
\* to concatenate, and building the same file again builds the same program.
SecondRunChangesNothing ==
  [][passes = 1 /\ passes' = 2 /\ Mergeable(program) => file' = file]_optimizerVars
=============================================================================
