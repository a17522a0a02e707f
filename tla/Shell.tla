--------------------------------- MODULE Shell ---------------------------------
(***************************************************************************)
(* The shell of homework 3: it reads lines, parses and runs one pipeline   *)
(* after the other, and keeps the pipelines for which it has forked in a   *)
(* list of jobs.                                                           *)
(*                                                                         *)
(* A line is a sequence of words, as the scanner sees it.  "run" is a      *)
(* program that can be executed and "missing" one that cannot.  The shell  *)
(* does not wait for its children, and it writes what pwd prints when it   *)
(* exits, unless its output is a terminal.                                 *)
(*                                                                         *)
(* A directory is the sequence of the names on its path.  A string that    *)
(* names one begins with "/" if it is absolute; the null pointer is <<>>.  *)
(***************************************************************************)
EXTENDS Naturals, FiniteSets, Sequences, SequencesExt

CONSTANTS
  Lines,      \* the lines a user types
  MaxTyped,   \* bound: how many of them
  Directories

ShellAssumption ==
  /\ MaxTyped \in Nat /\ <<>> \in Directories
  /\ Lines \subseteq Seq(STRING) /\ Directories \subseteq Seq(STRING)

VARIABLES
  typed,               \* the number of lines read
  rest,                \* the words of the line that are not parsed yet
  tree,                \* the commands of the pipeline that is parsed
  pipeline,            \* the pipeline that runs: its address and commands
  index, jobbed, eof,  \* variables of execute, execPipeline and main
  jobs,                \* the addresses of the pipelines in the list of jobs
  allocated,           \* the addresses that malloc has given and free not taken
  cwd, owd,            \* the strings cd keeps
  dir,                 \* the working directory of the process
  terminal,            \* the output is one
  printed,             \* all that pwd has printed
  buffered, written,   \* of the output
  children,            \* the output that each child has in its memory
  failed,              \* a child could not execute its program
  shell_pc

treeVars == <<typed, rest, tree>>
runVars == <<pipeline, index, jobbed, eof, jobs, allocated>>
cdVars == <<cwd, owd, dir>>
outVars == <<terminal, printed, buffered, written, children, failed>>
vars == <<treeVars, runVars, cdVars, outVars, shell_pc>>

Operators == {"|", "&", ";"}

\* The tail of a line without an operator that it may begin with.
Eat(words, op) == IF words # <<>> /\ Head(words) = op THEN Tail(words) ELSE words

\* exit() writes what is left in the buffer.
ExitShell ==
  /\ written' = written \o buffered
  /\ buffered' = <<>>
  /\ shell_pc' = "exited"

------------------------------------------------------------------------------
(* main and interpret                                                      *)

ReadLine ==
  /\ shell_pc = "read" /\ typed < MaxTyped
  /\ typed' = typed + 1
  /\ rest' \in Lines
  /\ shell_pc' = "parse"
  /\ UNCHANGED <<tree, runVars, cdVars, outVars>>

EndOfInput ==
  /\ shell_pc = "read"
  /\ ExitShell
  /\ UNCHANGED <<treeVars, runVars, cdVars, terminal, printed, children, failed>>

\* There is no sequence left.
EndOfLine ==
  /\ shell_pc = "parse" /\ rest = <<>>
  /\ IF eof THEN ExitShell
            ELSE shell_pc' = "read" /\ UNCHANGED <<written, buffered>>
  /\ UNCHANGED <<treeVars, runVars, cdVars, terminal, printed, children, failed>>

------------------------------------------------------------------------------
(* The parser and the interpreter of its tree.                             *)

\* The length of the command that a line begins with.  Its first word may be
\* anything, an operator too.
WordsLength(words) ==
  CHOOSE n \in 1..Len(words) :
    /\ n < Len(words) => words[n + 1] \in Operators
    /\ \A k \in 2..n : words[k] \notin Operators

\* A pipeline with these commands, at an address that is free, is executed.
i_sequence(commands) ==
  LET address == CHOOSE a \in 1..Cardinality(allocated) + 1 : a \notin allocated
  IN /\ pipeline' = [address |-> address, commands |-> commands]
     /\ allocated' = allocated \cup {address}
     /\ index' = 1 /\ jobbed' = FALSE
     /\ shell_pc' = "execute"
     /\ UNCHANGED <<eof, jobs>>

\* p_command, and the part of p_pipeline that follows it: after a "|" comes
\* another command, if there is one.
p_pipeline ==
  /\ shell_pc = "parse" /\ rest # <<>>
  /\ LET n == WordsLength(rest)
         commands == Append(tree, SubSeq(rest, 1, n))
         after == SubSeq(rest, n + 1, Len(rest))
         next == Eat(after, "|")
     IN IF next # after /\ next # <<>>
        THEN /\ tree' = commands
             /\ rest' = next
             /\ UNCHANGED <<runVars, shell_pc>>
        ELSE /\ tree' = <<>>
             /\ rest' = Eat(Eat(next, "&"), ";")
             /\ i_sequence(commands)
  /\ UNCHANGED <<typed, cdVars, outVars>>

------------------------------------------------------------------------------
(* execPipeline and execCommand                                            *)

Executing ==
  shell_pc = "execute" /\ ~eof /\ index <= Len(pipeline.commands)

argv == pipeline.commands[index]

Builtin(name) == Executing /\ Head(argv) = name

Arguments(n) == Len(argv) = n + 1

\* "wrong number of arguments to builtin command"
bi_error ==
  /\ \/ Builtin("exit") /\ ~Arguments(0)
     \/ Builtin("pwd") /\ ~Arguments(0)
     \/ Builtin("cd") /\ ~Arguments(1)
  /\ ExitShell
  /\ UNCHANGED <<treeVars, runVars, cdVars, terminal, printed, children, failed>>

bi_exit ==
  /\ Builtin("exit") /\ Arguments(0)
  /\ eof' = TRUE
  /\ index' = index + 1
  /\ UNCHANGED <<treeVars, pipeline, jobbed, jobs, allocated, cdVars, outVars, shell_pc>>

\* getcwd
Absolute(d) == <<"/">> \o d

bi_pwd ==
  /\ Builtin("pwd") /\ Arguments(0)
  /\ cwd' = IF cwd = <<>> THEN Absolute(dir) ELSE cwd
  /\ printed' = Append(printed, cwd')
  /\ IF terminal
     THEN written' = Append(written, cwd') /\ UNCHANGED buffered
     ELSE buffered' = Append(buffered, cwd') /\ UNCHANGED written
  /\ index' = index + 1
  /\ UNCHANGED <<treeVars, pipeline, jobbed, eof, jobs, allocated, owd, dir,
                 terminal, children, failed, shell_pc>>

Resolve(string) == IF Head(string) = "/" THEN Tail(string) ELSE dir \o string

\* Mutant: cd - swaps the strings and stays where it is.
cd_swaps ==
  /\ Builtin("cd") /\ Arguments(1)
  /\ IF argv[2] = "-" THEN cwd' = owd /\ owd' = cwd
                      ELSE cwd' = <<argv[2]>> /\ owd' = cwd
  /\ IF argv[2] # "-" /\ Resolve(cwd') \notin Directories
     THEN ExitShell /\ UNCHANGED <<dir, index>>
     ELSE /\ dir' = IF argv[2] # "-" THEN Resolve(cwd') ELSE dir
          /\ index' = index + 1
          /\ UNCHANGED <<written, buffered, shell_pc>>
  /\ UNCHANGED <<treeVars, pipeline, jobbed, eof, jobs, allocated,
                 terminal, printed, children, failed>>

\* The strings change before chdir is called, and the shell exits if it fails.
bi_cd ==
  /\ Builtin("cd") /\ Arguments(1)
  /\ IF argv[2] = "-" THEN cwd' = owd /\ owd' = cwd
                      ELSE cwd' = <<argv[2]>> /\ owd' = cwd
  /\ IF cwd' # <<>> /\ Resolve(cwd') \notin Directories
     THEN ExitShell /\ UNCHANGED <<dir, index>>
     ELSE /\ dir' = IF cwd' # <<>> THEN Resolve(cwd') ELSE dir
          /\ index' = index + 1
          /\ UNCHANGED <<written, buffered, shell_pc>>
  /\ UNCHANGED <<treeVars, pipeline, jobbed, eof, jobs, allocated,
                 terminal, printed, children, failed>>

\* The child has a copy of the buffer.
Fork ==
  /\ Executing /\ Head(argv) \notin {"exit", "pwd", "cd"}
  /\ jobbed' = TRUE
  /\ jobs' = IF jobbed THEN jobs ELSE Append(jobs, pipeline.address)
  /\ children' = Append(children, [program |-> Head(argv), buffered |-> buffered])
  /\ index' = index + 1
  /\ UNCHANGED <<treeVars, pipeline, eof, allocated, cdVars,
                 terminal, printed, buffered, written, failed, shell_pc>>

\* After exit, freeSequence frees the pipelines that are not run.
EndPipeline ==
  /\ shell_pc = "execute" /\ ~Executing
  /\ allocated' = IF jobbed THEN allocated ELSE allocated \ {pipeline.address}
  /\ shell_pc' = "parse"
  /\ UNCHANGED <<treeVars, pipeline, index, jobbed, eof, jobs, cdVars, outVars>>

\* child: execvp takes the memory away; if it fails, ERROR exits and writes.
ExecProgram ==
  \E c \in DOMAIN children :
    /\ children' = RemoveAt(children, c)
    /\ IF children[c].program = "run"
       THEN UNCHANGED <<written, failed>>
       ELSE /\ written' = written \o children[c].buffered
            /\ failed' = TRUE
    /\ UNCHANGED <<treeVars, runVars, cdVars, terminal, printed, buffered, shell_pc>>

------------------------------------------------------------------------------
Init ==
  /\ typed = 0 /\ rest = <<>> /\ tree = <<>>
  /\ pipeline = [address |-> 0, commands |-> <<>>]
  /\ index = 1 /\ jobbed = FALSE /\ eof = FALSE
  /\ jobs = <<>> /\ allocated = {}
  /\ cwd = <<>> /\ owd = <<>> /\ dir = <<>>
  /\ terminal \in BOOLEAN
  /\ printed = <<>> /\ buffered = <<>> /\ written = <<>>
  /\ children = <<>> /\ failed = FALSE
  /\ shell_pc = "read"

Next ==
  \/ ReadLine \/ EndOfInput \/ EndOfLine \/ p_pipeline
  \/ bi_error \/ bi_exit \/ bi_pwd \/ bi_cd \/ Fork \/ EndPipeline
  \/ ExecProgram

Spec == Init /\ [][Next]_vars

------------------------------------------------------------------------------
\* Through operators, built-ins and exits in the middle of a pipeline, the
\* pipelines in memory are those in the list of jobs, each of them once, and
\* the one that runs: none is lost, and none is freed that the list still
\* shows.
PipelinesOwned ==
  LET running == IF shell_pc = "execute" THEN {pipeline.address} ELSE {} IN
  shell_pc # "exited" =>
    /\ allocated = Range(jobs) \cup running
    /\ Cardinality(Range(jobs)) = Len(jobs)

\* As long as the shell has not exited, the absolute name that pwd prints is
\* that of the directory it is in, whatever cd and cd - came before: a
\* relative name, or none, is not one to trust.
PwdRight ==
  shell_pc # "exited" /\ cwd # <<>> /\ Head(cwd) = "/" => dir = Tail(cwd)

\* What pwd prints is written once and in order, although the children have
\* copies of it, unless one of them exits because it cannot execute its
\* program: then what was in the buffer when it was forked is there again,
\* before or after it.
OutputKept ==
  shell_pc = "exited" =>
    IF terminal \/ ~failed THEN written = printed
                           ELSE \E n \in 0..Len(written) - Len(printed) :
                                  SubSeq(written, n + 1, n + Len(printed)) = printed
==============================================================================
