-------------------------------- MODULE Exec --------------------------------
(***************************************************************************)
(* run_exec.c: commands run as child processes with pipes to their         *)
(* standard streams.  Every command is driven by a thread of its own, which *)
(* makes the calls of run_exec.h in any order; they share the process's    *)
(* table of file descriptors, in which another thread opens and closes a   *)
(* file of its own.                                                        *)
(*                                                                         *)
(* The kernel is external: it gives out the lowest free numbers, a fork    *)
(* copies the whole table (nothing here is close-on-exec), and a reader    *)
(* has the end of the file when every copy of the write end is closed, in  *)
(* whatever process.  A child reads its standard input to the end if that  *)
(* is a pipe, and then exits; before, it may write.                        *)
(***************************************************************************)
EXTENDS Integers

CONSTANTS Cmd, NULL,
          Op,            \* of each command, the calls and pipes the program may ask for
          OtherFile,     \* the file of the other thread
          MaxFd,         \* the numbers above the standard streams are 1..MaxFd
          PipeRoom,      \* what a pipe holds
          MaxPipes,      \* bound: of each command, how many pipes its fields get
          MaxWrites      \* bound: of each child, how often it writes

Pipe == {"in", "out", "err"}
Stream == {"out", "err"}
Call == {"run", "output", "combined", "start"}
NoFd == -1

\* An end of the nth pipe in the field p of c.
File(c, p, k, e) == [cmd |-> c, pipe |-> p, nth |-> k, end |-> e]

ASSUME ExecAssumption ==
  /\ Op \in [Cmd -> SUBSET (Call \cup Pipe)]
  /\ MaxFd \in Nat /\ PipeRoom \in Nat \ {0}
  /\ MaxPipes \in [Cmd -> Nat] /\ MaxWrites \in [Cmd -> Nat]
  /\ NULL # OtherFile
  /\ \A c \in Cmd, p \in Pipe, e \in {"r", "w"} : \A k \in 0..MaxPipes[c] :
       File(c, p, k, e) \notin {NULL, OtherFile}

VARIABLES
  table,         \* the process's descriptors: of each number a file, or NULL
  pipes,         \* stdin_pipe, stdout_pipe and stderr_pipe of each command: [r, w]
  turn,          \* of each of these, how many pipes have been put into it
  child,         \* of each command: "none", "running", "zombie" or "reaped"
  holds,         \* of each child, the files it has open
  std,           \* of each child, the pipe end that is its standard stream, or NULL
  data,          \* of each child's pipes, how much of each stream is in it
  wrote,         \* of each child and stream, how often it has written
  got, cut,      \* of each command: how much read_all has read, whether a read failed
  pc, op,        \* of each command: where it is, in which call
  fate           \* "ok", or "stray close": the model stops there

childVars == <<child, holds, std, wrote>>
vars == <<table, pipes, turn, childVars, data, got, cut, pc, op, fate>>

Fd == 1..MaxFd
Closed == [r |-> NoFd, w |-> NoFd]
Nothing == [s \in Stream |-> 0]
Plus(a, b) == [s \in Stream |-> a[s] + b[s]]

Init ==
  /\ table = [n \in Fd |-> NULL]
  /\ pipes = [c \in Cmd |-> [p \in Pipe |-> Closed]]
  /\ turn = [c \in Cmd |-> [p \in Pipe |-> 0]]
  /\ child = [c \in Cmd |-> "none"] /\ holds = [c \in Cmd |-> {}]
  /\ std = [c \in Cmd |-> [p \in Pipe |-> NULL]]
  /\ data = [c \in Cmd |-> [p \in Pipe |-> Nothing]]
  /\ wrote = [c \in Cmd |-> Nothing] /\ got = [c \in Cmd |-> Nothing]
  /\ cut = [c \in Cmd |-> FALSE]
  /\ pc = [c \in Cmd |-> "idle"] /\ op = [c \in Cmd |-> "none"] /\ fate = "ok"

Goto(c, at) == pc' = [pc EXCEPT ![c] = at]
Calls(c, o, at) == pc[c] = "idle" /\ Goto(c, at) /\ op' = [op EXCEPT ![c] = o]
Returns(c) == Goto(c, "idle") /\ op' = [op EXCEPT ![c] = "none"]
OpenFiles == {table[n] : n \in Fd}
\* Some process has this end of a pipe open.
IsOpen(f) == f \in OpenFiles \/ \E d \in Cmd : f \in holds[d]
\* The end of the pipe that the field p of c is for.
Own(c, p, e) == File(c, p, turn[c][p], e)
Captures(c) == op[c] \in {"output", "combined"}

-----------------------------------------------------------------------------
(* The kernel's calls on the table *)

Unused == {n \in Fd : table[n] = NULL}

\* The next pipe for the field p of c, at the numbers r and w.
MakePipe(c, p, r, w) ==
  /\ turn[c]["in"] + turn[c]["out"] + turn[c]["err"] < MaxPipes[c]
  /\ r \in Unused /\ w \in Unused \ {r} /\ \A n \in Unused : r <= n /\ (n # r => w <= n)
  /\ table' = [table EXCEPT ![r] = File(c, p, turn[c][p] + 1, "r"),
                            ![w] = File(c, p, turn[c][p] + 1, "w")]

\* close of the numbers ns on behalf of c.  One that is free is an error nobody
\* looks at; one that somebody else has got in the meantime is closed on him.
CloseFds(c, ns) ==
  LET stray == {n \in ns \cap Fd : table[n] # NULL /\ (table[n] = OtherFile \/ table[n].cmd # c)}
  IN  /\ table' = [n \in Fd |-> IF n \in ns THEN NULL ELSE table[n]]
      /\ fate' = IF stray = {} THEN fate ELSE "stray close"

OpenFile ==
  /\ OtherFile \notin OpenFiles
  /\ \E n \in Unused : /\ \A m \in Unused : n <= m
                       /\ table' = [table EXCEPT ![n] = OtherFile]
  /\ UNCHANGED <<pipes, turn, childVars, data, got, cut, pc, op, fate>>
CloseFile ==
  /\ \E n \in Fd : table[n] = OtherFile /\ table' = [table EXCEPT ![n] = NULL]
  /\ UNCHANGED <<pipes, turn, childVars, data, got, cut, pc, op, fate>>

-----------------------------------------------------------------------------
(* The pipes: a pipe that cannot be made is an error and changes nothing *)

\* run_exec_stdin_pipe and its like, at any time and again and again.  What was in
\* the field is overwritten.
StreamPipe(c, p) ==
  /\ pc[c] = "idle" /\ p \in Op[c]
  /\ \E r, w \in Fd : /\ MakePipe(c, p, r, w)
                      /\ pipes' = [pipes EXCEPT ![c][p] = [r |-> r, w |-> w]]
  /\ turn' = [turn EXCEPT ![c][p] = @ + 1]
  /\ UNCHANGED <<childVars, data, got, cut, pc, op, fate>>

\* run_exec_output and run_exec_combined_output; the latter leaves the number of
\* the same write end in stderr_pipe, whatever was there.
OutputPipe(c, o) ==
  LET both == o = "combined"
  IN  /\ o \in Op[c] \cap {"output", "combined"} /\ Calls(c, o, "fork")
      /\ \E r, w \in Fd :
           /\ MakePipe(c, "out", r, w)
           /\ pipes' = [pipes EXCEPT ![c] =
                [p \in Pipe |-> CASE p = "out" -> [r |-> r, w |-> w]
                                  [] p = "err" /\ both -> [r |-> NoFd, w |-> w]
                                  [] OTHER -> @[p]]]
      /\ turn' = [turn EXCEPT ![c] =
           [p \in Pipe |-> IF p = "out" \/ (p = "err" /\ both) THEN @[p] + 1 ELSE @[p]]]
      /\ UNCHANGED <<childVars, data, got, cut, fate>>

\* run_exec_run and run_exec_start make no pipe.
StartCall(c, o) ==
  /\ o \in Op[c] \cap {"run", "start"} /\ Calls(c, o, "fork")
  /\ UNCHANGED <<table, pipes, turn, childVars, data, got, cut, fate>>

-----------------------------------------------------------------------------
(* run_exec_do_start *)

\* The child has a copy of the table, makes its ends its standard streams and
\* closes their numbers, in this order: a stderr_pipe that is the stdout_pipe is
\* closed already when its turn to be duplicated comes, and stderr stays what it was.
Fork(c) ==
  LET fd(p, e) == pipes[c][p][e]
      inFds == IF fd("in", "r") # NoFd THEN {fd("in", "r"), fd("in", "w")} ELSE {}
      outFds == IF fd("out", "w") # NoFd THEN {fd("out", "w"), fd("out", "r")} ELSE {}
      errDup == fd("err", "w") # NoFd /\ fd("err", "w") \notin outFds
      errFds == IF errDup THEN {fd("err", "w"), fd("err", "r")} ELSE {}
      kept == {table[n] : n \in Fd \ (inFds \cup outFds \cup errFds)}
      streams == [p \in Pipe |-> CASE p = "in" /\ inFds # {} -> Own(c, p, "r")
                                   [] p = "out" /\ outFds # {} -> Own(c, p, "w")
                                   [] p = "err" /\ errDup -> Own(c, p, "w")
                                   [] OTHER -> NULL]
  IN  /\ pc[c] = "fork" /\ child[c] = "none" /\ Goto(c, "close_in")
      /\ child' = [child EXCEPT ![c] = "running"]
      /\ holds' = [holds EXCEPT ![c] = (kept \cup {streams[p] : p \in Pipe}) \ {NULL}]
      /\ std' = [std EXCEPT ![c] = streams]
      /\ UNCHANGED <<table, pipes, turn, wrote, data, got, cut, op, fate>>

\* Mutant: the numbers are forgotten and not closed.
StartFailsForgets(c) ==
  /\ pc[c] = "fork" /\ Returns(c)
  /\ pipes' = [pipes EXCEPT ![c] =
       [p \in Pipe |-> IF p = "out" /\ Captures(c) THEN Closed ELSE @[p]]]
  /\ UNCHANGED <<table, turn, childVars, data, got, cut, fate>>

\* The fork fails, or the command has been started before.  An output call closes
\* the pipe it has made.
StartFails(c) ==
  /\ pc[c] = "fork" /\ Returns(c)
  /\ IF Captures(c)
     THEN /\ CloseFds(c, {pipes[c]["out"].r, pipes[c]["out"].w})
          /\ pipes' = [pipes EXCEPT ![c] =
               [p \in Pipe |-> IF p = "out" \/ (p = "err" /\ op[c] = "combined") THEN Closed
                               ELSE @[p]]]
     ELSE UNCHANGED <<table, pipes, fate>>
  /\ UNCHANGED <<turn, childVars, data, got, cut>>

\* The parent closes the ends its child has, one after the other.
CloseIn(c) ==
  /\ pc[c] = "close_in" /\ Goto(c, "close_out")
  /\ CloseFds(c, {pipes[c]["in"].r})
  /\ pipes' = [pipes EXCEPT ![c]["in"].r = NoFd]
  /\ UNCHANGED <<turn, childVars, data, got, cut, op>>

\* Mutant: the parent keeps its copy of the write end.
CloseOutKept(c) ==
  /\ pc[c] = "close_out" /\ Goto(c, "close_err")
  /\ UNCHANGED <<table, pipes, turn, childVars, data, got, cut, op, fate>>

CloseOut(c) ==
  /\ pc[c] = "close_out" /\ Goto(c, "close_err")
  /\ CloseFds(c, {pipes[c]["out"].w})
  /\ pipes' = [pipes EXCEPT ![c]["out"].w = NoFd]
  /\ UNCHANGED <<turn, childVars, data, got, cut, op>>

\* What the call does once the child is there.
Started(c) == CASE Captures(c) -> Goto(c, "read") /\ op' = op
                [] op[c] = "run" -> Goto(c, "wait") /\ op' = op
                [] op[c] = "start" -> Returns(c)

\* stdout_pipe[1] is -1 by now, so that a stderr_pipe that was the same number is
\* taken for a pipe of its own.
CloseErr(c) ==
  /\ pc[c] = "close_err" /\ Started(c)
  /\ IF pipes[c]["err"].w # pipes[c]["out"].w THEN CloseFds(c, {pipes[c]["err"].w})
     ELSE UNCHANGED <<table, fate>>
  /\ pipes' = [pipes EXCEPT ![c]["err"].w = NoFd]
  /\ UNCHANGED <<turn, childVars, data, got, cut>>

-----------------------------------------------------------------------------
(* run_exec_read_all_fd, run_exec_do_wait and run_exec_free *)

\* The reading is over: the end is closed, and the call waits for the child.
ReadDone(c) ==
  /\ CloseFds(c, {pipes[c]["out"].r}) /\ pipes' = [pipes EXCEPT ![c]["out"].r = NoFd]
  /\ Goto(c, "wait") /\ UNCHANGED <<turn, childVars, op>>

\* Mutant: one read is taken for all.
ReadOnce(c) ==
  /\ pc[c] = "read" /\ data[c]["out"] # Nothing
  /\ got' = [got EXCEPT ![c] = Plus(@, data[c]["out"])]
  /\ data' = [data EXCEPT ![c]["out"] = Nothing]
  /\ ReadDone(c) /\ UNCHANGED cut

Read(c) ==
  /\ pc[c] = "read" /\ data[c]["out"] # Nothing
  /\ got' = [got EXCEPT ![c] = Plus(@, data[c]["out"])]
  /\ data' = [data EXCEPT ![c]["out"] = Nothing]
  /\ UNCHANGED <<table, pipes, turn, childVars, cut, pc, op, fate>>

ReadEnd(c) ==
  /\ pc[c] = "read" /\ data[c]["out"] = Nothing /\ ~IsOpen(Own(c, "out", "w"))
  /\ ReadDone(c) /\ UNCHANGED <<data, got, cut>>

\* A read that fails is taken for the end.
ReadFails(c) ==
  /\ pc[c] = "read" /\ cut' = [cut EXCEPT ![c] = TRUE]
  /\ ReadDone(c) /\ UNCHANGED <<data, got>>

\* The program closes a number that run_exec_stdin_pipe returned; the command, which
\* may still have it, is not told.
CloseInput(c) ==
  /\ child[c] # "none"
  /\ \E n \in Fd : /\ \E k \in 1..MaxPipes[c] : table[n] = File(c, "in", k, "w")
                   /\ table' = [table EXCEPT ![n] = NULL]
  /\ UNCHANGED <<pipes, turn, childVars, data, got, cut, pc, op, fate>>

\* run_exec_wait.
WaitCall(c) ==
  /\ child[c] \in {"running", "zombie"} /\ Calls(c, "wait", "wait")
  /\ UNCHANGED <<table, pipes, turn, childVars, data, got, cut, fate>>

\* What the dead child and the call that returns leave is looked at no more.
Wait(c) ==
  /\ pc[c] = "wait" /\ child[c] = "zombie" /\ child' = [child EXCEPT ![c] = "reaped"]
  /\ Returns(c)
  /\ std' = [std EXCEPT ![c] = [p \in Pipe |-> NULL]]
  /\ data' = [data EXCEPT ![c] = [p \in Pipe |-> Nothing]]
  /\ wrote' = [wrote EXCEPT ![c] = Nothing]
  /\ got' = [got EXCEPT ![c] = Nothing] /\ cut' = [cut EXCEPT ![c] = FALSE]
  /\ UNCHANGED <<table, pipes, turn, holds, fate>>

\* A child that nobody waited for stays a zombie.
Free(c) ==
  /\ pc[c] = "idle" /\ Goto(c, "freed")
  /\ CloseFds(c, UNION {{pipes[c][p].r, pipes[c][p].w} : p \in Pipe})
  /\ pipes' = [pipes EXCEPT ![c] = [p \in Pipe |-> Closed]]
  /\ UNCHANGED <<turn, childVars, data, got, cut, op>>

-----------------------------------------------------------------------------
(* The children *)

\* A stream that is no pipe of the command goes where the program's goes.
Write(c, s) ==
  LET to == std[c][s]
  IN  /\ child[c] = "running" /\ wrote[c]["out"] + wrote[c]["err"] < MaxWrites[c]
      /\ wrote' = [wrote EXCEPT ![c][s] = @ + 1]
      /\ \/ to = NULL /\ UNCHANGED data
         \/ /\ to # NULL /\ IsOpen([to EXCEPT !.end = "r"])
            /\ data[c][to.pipe]["out"] + data[c][to.pipe]["err"] < PipeRoom
            /\ data' = [data EXCEPT ![c][to.pipe][s] = @ + 1]
      /\ UNCHANGED <<table, pipes, turn, child, holds, std, got, cut, pc, op, fate>>

\* Its input, if it is a pipe, has come to its end.
Exit(c) ==
  LET input == std[c]["in"]
  IN  /\ child[c] = "running" /\ (input # NULL => ~IsOpen([input EXCEPT !.end = "w"]))
      /\ child' = [child EXCEPT ![c] = "zombie"] /\ holds' = [holds EXCEPT ![c] = {}]
      /\ UNCHANGED <<table, pipes, turn, std, wrote, data, got, cut, pc, op, fate>>

-----------------------------------------------------------------------------
\* The steps of a call that is under way.
Go(c) == \/ Fork(c) \/ StartFails(c) \/ CloseIn(c) \/ CloseOut(c) \/ CloseErr(c)
         \/ Read(c) \/ ReadEnd(c) \/ Wait(c)

Program(c) == \/ \E p \in Pipe : StreamPipe(c, p)
              \/ \E o \in Call : OutputPipe(c, o) \/ StartCall(c, o)
              \/ CloseInput(c) \/ WaitCall(c) \/ Free(c)

Next ==
  /\ fate = "ok"
  /\ \/ OpenFile \/ CloseFile
     \/ \E c \in Cmd : \/ Program(c) \/ Go(c) \/ ReadFails(c) \/ Exit(c)
                       \/ \E s \in Stream : Write(c, s)

Spec == Init /\ [][Next]_vars

\* Threads and processes run; the program closes the input of a child it started.
FairSpec ==
  /\ Spec
  /\ \A c \in Cmd : /\ WF_vars(fate = "ok" /\ Go(c))
                    /\ WF_vars(fate = "ok" /\ (Exit(c) \/ CloseInput(c)))

-----------------------------------------------------------------------------
\* "outputCmd runs the command and returns its standard output."
\* (src/stdlib/os/exec/exec.run:47) All of it, unless a read fails, however the
\* child's writes, the reads and the forks of other commands, whose children hold
\* the pipe, fall, and whatever pipes the command had before.
OutputIsComplete ==
  \A c \in Cmd : (pc[c] = "wait" /\ Captures(c) /\ ~cut[c]) => got[c]["out"] = wrote[c]["out"]

\* What run_exec_free leaves open: of the descriptors that a command has made, only
\* those outlive it that a later call has overwritten in their field, whichever of
\* its calls failed, in whatever order they came and wherever it was freed.
OnlyOverwrittenOutlive ==
  \A c \in Cmd : pc[c] = "freed" =>
    \A n \in Fd, p \in Pipe, k \in 1..MaxPipes[c], e \in {"r", "w"} :
      table[n] = File(c, p, k, e) => k < turn[c][p]

\* "freeCmd releases all resources associated with a command handle."
\* (src/stdlib/os/exec/exec.run:87; run_exec.h:64 says the same) No descriptor that
\* the command has made outlives it.
NothingLeftOpen ==
  \A c \in Cmd : pc[c] = "freed" =>
    \A p \in Pipe, k \in 1..MaxPipes[c], e \in {"r", "w"} : File(c, p, k, e) \notin OpenFiles

\* A call that reads a child's output comes to its end and returns when children
\* exit, although other children have inherited the pipe.
OutputReturns ==
  \A c \in Cmd : pc[c] = "read" ~> (pc[c] = "idle" \/ fate # "ok")

\* "Run and capture stdout+stderr combined." (run_exec.h:40)
CombinedHasStderr ==
  \A c \in Cmd : (pc[c] = "wait" /\ op[c] = "combined" /\ ~cut[c]) =>
    got[c]["err"] = wrote[c]["err"]

\* "waitCmd waits for the command to exit and releases any resources."
\* (src/stdlib/os/exec/exec.run:63)
WaitReleases ==
  \A c \in Cmd : (pc[c] = "idle" /\ child[c] = "reaped") =>
    \A p \in Pipe, k \in 1..MaxPipes[c], e \in {"r", "w"} : File(c, p, k, e) \notin OpenFiles

\* A child whose input the program has closed comes to the end of it.
InputEnds ==
  \A c \in Cmd :
    (/\ child[c] = "running" /\ std[c]["in"] # NULL
     /\ [std[c]["in"] EXCEPT !.end = "w"] \notin OpenFiles)
      ~> (child[c] # "running" \/ fate # "ok")

\* No command closes a descriptor of somebody else.
OnlyOwnFdsClosed == fate # "stray close"
=============================================================================
