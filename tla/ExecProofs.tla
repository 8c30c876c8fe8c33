------------------------------ MODULE ExecProofs ------------------------------
(***************************************************************************)
(* Proofs about Exec, for any commands, any table and any calls in any     *)
(* order: what an output call returns is all that its child wrote, and     *)
(* only descriptors that a later call has overwritten outlive a command.   *)
(***************************************************************************)
EXTENDS Exec, TLAPS

AnyFd == Fd \cup {NoFd}
End == {"r", "w"}
PipeEnd == [cmd : Cmd, pipe : Pipe, nth : Nat, end : End]
AnyFile == PipeEnd \cup {NULL, OtherFile}
PC == {"idle", "fork", "close_in", "close_out", "close_err", "read", "wait", "freed"}
Starting == {"fork", "close_in", "close_out", "close_err"}
Nth(c) == 0..MaxPipes[c]

FdTypes ==
  /\ table \in [Fd -> AnyFile]
  /\ pipes \in [Cmd -> [Pipe -> [r : AnyFd, w : AnyFd]]]
  /\ turn \in [Cmd -> [Pipe -> Nat]] /\ \A c \in Cmd, p \in Pipe : turn[c][p] <= MaxPipes[c]
  /\ pc \in [Cmd -> PC]
  /\ op \in [Cmd -> Call \cup {"none", "wait"}]

\* An open descriptor of the pipe that a field is for is in the field, and no later
\* pipe is open.  A combined call has left stderr_pipe without a pipe, and closes the
\* write end of stdout_pipe before it looks at the number there.
InField(c) ==
  \A n \in Fd, p \in Pipe : /\ table[n] = Own(c, p, "r") => pipes[c][p].r = n
                            /\ table[n] = Own(c, p, "w") => pipes[c][p].w = n
NoneLater(c) ==
  \A n \in Fd, p \in Pipe, e \in End :
    \A k \in Nth(c) : table[n] = File(c, p, k, e) => k <= turn[c][p]
NoErr(c) == \A n \in Fd, e \in End : table[n] # Own(c, "err", e)
Field(c) ==
  /\ InField(c) /\ NoneLater(c)
  /\ pc[c] = "idle" => op[c] = "none"
  /\ pc[c] \in Starting => op[c] \in Call
  /\ op[c] = "combined" => NoErr(c)
  /\ pc[c] = "close_err" => pipes[c]["out"].w = NoFd
  /\ pc[c] = "freed" => \A p \in Pipe : pipes[c][p] = Closed

FdInv == FdTypes /\ \A c \in Cmd : Field(c)

-----------------------------------------------------------------------------
LEMMA FilesDiffer ==
  ASSUME NEW c \in Cmd, NEW p \in Pipe, NEW k \in Nth(c), NEW e \in End
  PROVE  /\ File(c, p, k, e) # NULL /\ File(c, p, k, e) # OtherFile
         /\ File(c, p, k, e) \in PipeEnd
         /\ \A d, q, j, f : File(c, p, k, e) = File(d, q, j, f) =>
                              c = d /\ p = q /\ k = j /\ e = f
<1>1. MaxPipes[c] \in Nat
  BY ExecAssumption
<1>2. File(c, p, k, e) \notin {NULL, OtherFile}
  BY ExecAssumption DEF Nth, End
<1>3. QED
  BY <1>1, <1>2 DEF File, PipeEnd, Nth

LEMMA OwnFiles ==
  ASSUME FdTypes, NEW c \in Cmd, NEW p \in Pipe
  PROVE  turn[c][p] \in Nth(c) /\ MaxPipes[c] \in Nat
BY ExecAssumption DEF FdTypes, Nth

\* Closing takes files out of the table and puts none in.
LEMMA CloseFacts ==
  ASSUME FdTypes, NEW c \in Cmd, NEW ns, CloseFds(c, ns)
  PROVE  /\ table' \in [Fd -> AnyFile]
         /\ \A n \in Fd : table'[n] = NULL \/ (n \notin ns /\ table'[n] = table[n])
BY DEF CloseFds, FdTypes, AnyFile

LEMMA FdInit == Init => FdInv
<1> SUFFICES ASSUME Init PROVE FdInv
  OBVIOUS
<1>1. FdTypes
  <2>1. \A c \in Cmd : MaxPipes[c] \in Nat
    BY ExecAssumption
  <2>2. QED
    BY <2>1 DEF Init, FdTypes, AnyFile, AnyFd, PC, Closed
<1>2. ASSUME NEW c \in Cmd PROVE Field(c)
  <2>1. \A n \in Fd, p \in Pipe, e \in End : \A k \in Nth(c) : table[n] # File(c, p, k, e)
    BY FilesDiffer DEF Init
  <2>2. NoneLater(c)
    BY <2>1 DEF NoneLater
  <2>3. InField(c)
    BY <1>1, <2>1, OwnFiles DEF InField, Own, End
  <2>4. QED
    BY <2>2, <2>3 DEF Init, Field, Starting
<1>3. QED
  BY <1>1, <1>2 DEF FdInv

\* A step of c puts no files of another command into the table.
Others(c) ==
  \A d \in Cmd \ {c} :
    pipes'[d] = pipes[d] /\ turn'[d] = turn[d] /\ pc'[d] = pc[d] /\ op'[d] = op[d]

LEMMA FdFrame ==
  ASSUME FdInv, NEW c \in Cmd, FdTypes', Field(c)', Others(c),
         \A n \in Fd : \/ table'[n] \in {NULL, OtherFile, table[n]}
                       \/ \E p \in Pipe, k \in Nth(c), e \in End : table'[n] = File(c, p, k, e)
  PROVE  FdInv'
<1> SUFFICES ASSUME NEW d \in Cmd \ {c} PROVE Field(d)'
  BY DEF FdInv
<1>1. Field(d) /\ pipes'[d] = pipes[d] /\ turn'[d] = turn[d] /\ pc'[d] = pc[d] /\ op'[d] = op[d]
  BY DEF FdInv, Others
<1>2. ASSUME NEW n \in Fd, NEW p \in Pipe, NEW k \in Nth(d), NEW e \in End,
             table'[n] = File(d, p, k, e)
      PROVE  table[n] = File(d, p, k, e)
  BY <1>2, FilesDiffer
<1>3. \A p \in Pipe : turn[d][p] \in Nth(d)
  BY OwnFiles DEF FdInv
<1>4. InField(d)'
  BY <1>1, <1>2, <1>3 DEF Field, InField, Own, End
<1>5. NoneLater(d)'
  BY <1>1, <1>2 DEF Field, NoneLater
<1>6. NoErr(d) => NoErr(d)'
  BY <1>1, <1>2, <1>3 DEF NoErr, Own, Pipe
<1>7. QED
  BY <1>1, <1>4, <1>5, <1>6 DEF Field

-----------------------------------------------------------------------------
\* A step that leaves the files of the table alone or takes some out: c goes to at,
\* in the call o, and of its fields only those of closed numbers change.
GoesTo(c, at, o) ==
  /\ at \in PC /\ pc' = [pc EXCEPT ![c] = at]
  /\ o \in Call \cup {"none", "wait"} /\ op' = [op EXCEPT ![c] = o]
  /\ at = "idle" => o = "none"
  /\ at \in Starting => o \in Call
  /\ o = "combined" => op[c] = "combined"
  /\ at = "close_err" => pipes'[c]["out"].w = NoFd
  /\ at = "freed" => \A p \in Pipe : pipes'[c][p] = Closed
Typed == pipes' \in [Cmd -> [Pipe -> [r : AnyFd, w : AnyFd]]] /\ table' \in [Fd -> AnyFile]
FieldsOf(c, ns) ==
  /\ \A d \in Cmd \ {c} : pipes'[d] = pipes[d]
  /\ \A p \in Pipe :
       \/ p = "err" /\ op[c] = "combined"
       \/ /\ pipes'[c][p].r = pipes[c][p].r \/ pipes[c][p].r \in ns
          /\ pipes'[c][p].w = pipes[c][p].w \/ pipes[c][p].w \in ns
Gone(ns) == \A n \in Fd : table'[n] = NULL \/ (n \notin ns /\ table'[n] = table[n])

LEMMA FdShrinks ==
  ASSUME FdInv, NEW c \in Cmd, NEW ns, NEW at, NEW o, turn' = turn,
         GoesTo(c, at, o), Typed, FieldsOf(c, ns), Gone(ns)
  PROVE  FdInv'
<1>1. FdTypes' /\ Others(c) /\ pc'[c] = at /\ op'[c] = o
  BY DEF FdInv, FdTypes, GoesTo, Typed, FieldsOf, Others
<1>2. ASSUME NEW n \in Fd, NEW p \in Pipe, NEW k \in Nth(c), NEW e \in End,
             table'[n] = File(c, p, k, e)
      PROVE  table[n] = File(c, p, k, e) /\ n \notin ns
  BY <1>2, FilesDiffer DEF Gone
<1>3. \A p \in Pipe : turn[c][p] \in Nth(c)
  BY OwnFiles DEF FdInv
<1>4. InField(c)'
  <2> SUFFICES ASSUME NEW n \in Fd, NEW p \in Pipe
               PROVE  /\ table'[n] = Own(c, p, "r") => pipes'[c][p].r = n
                      /\ table'[n] = Own(c, p, "w") => pipes'[c][p].w = n
    BY DEF InField, Own
  <2>1. ASSUME NEW e \in End, table'[n] = Own(c, p, e)
        PROVE  table[n] = Own(c, p, e) /\ n \notin ns /\ ~(p = "err" /\ op[c] = "combined")
    <3>1. table[n] = Own(c, p, e) /\ n \notin ns
      BY <1>2, <1>3, <2>1 DEF Own
    <3>2. QED
      BY <3>1 DEF FdInv, Field, NoErr
  <2>2. /\ table[n] = Own(c, p, "r") => pipes[c][p].r = n
        /\ table[n] = Own(c, p, "w") => pipes[c][p].w = n
    BY DEF FdInv, Field, InField
  <2>3. QED
    BY <2>1, <2>2 DEF FieldsOf, End
<1>5. NoneLater(c)'
  BY <1>2 DEF FdInv, Field, NoneLater
<1>6. o = "combined" => NoErr(c)'
  BY <1>2, <1>3 DEF FdInv, Field, NoErr, Own, Pipe, GoesTo
<1>7. Field(c)'
  BY <1>1, <1>4, <1>5, <1>6 DEF Field, GoesTo
<1>8. \A n \in Fd : table'[n] \in {NULL, OtherFile, table[n]}
  BY DEF Gone
<1>9. QED
  BY <1>1, <1>7, <1>8, FdFrame

\* A new pipe for the field q of c, which leaves the fields more without one.
Filled(c, q, more, r, w, at, o) ==
  /\ q \in Pipe /\ more \subseteq Pipe \ {q} /\ r \in Fd /\ w \in Fd /\ MakePipe(c, q, r, w)
  /\ pipes' \in [Cmd -> [Pipe -> [r : AnyFd, w : AnyFd]]]
  /\ \A d \in Cmd \ {c} : pipes'[d] = pipes[d]
  /\ pipes'[c][q] = [r |-> r, w |-> w]
  /\ \A p \in Pipe \ ({q} \cup more) : pipes'[c][p] = pipes[c][p]
  /\ turn' = [turn EXCEPT ![c] =
                [p \in Pipe |-> IF p \in {q} \cup more THEN @[p] + 1 ELSE @[p]]]
  /\ at \in PC \ {"close_err", "freed"} /\ pc' = [pc EXCEPT ![c] = at]
  /\ o \in Call \cup {"none"} /\ op' = [op EXCEPT ![c] = o]
  /\ (at = "idle" => o = "none") /\ (at \in Starting => o \in Call)
  /\ (o = "combined" => "err" \in more)

LEMMA FdMakes ==
  ASSUME FdInv, NEW c \in Cmd, NEW q, NEW more, NEW r, NEW w, NEW at, NEW o,
         Filled(c, q, more, r, w, at, o)
  PROVE  FdInv'
<1> USE DEF End, Filled
<1> DEFINE k0 == turn[c][q] + 1
<1>1. /\ \A p \in Pipe : turn[c][p] \in Nth(c) /\ turn[c][p] \in Nat /\ turn[c][p] + 1 \in Nth(c)
      /\ MaxPipes[c] \in Nat
  <2>1. \A p \in Pipe : turn[c][p] \in Nat
    BY DEF FdInv, FdTypes
  <2>2. turn[c]["in"] + turn[c]["out"] + turn[c]["err"] < MaxPipes[c]
    BY DEF MakePipe
  <2>3. MaxPipes[c] \in Nat
    BY ExecAssumption
  <2>4. turn[c]["in"] \in Nat /\ turn[c]["out"] \in Nat /\ turn[c]["err"] \in Nat
    BY <2>1 DEF Pipe
  <2>5. \A p \in Pipe : turn[c][p] < MaxPipes[c]
    BY <2>2, <2>3, <2>4 DEF Pipe
  <2>6. QED
    BY <2>1, <2>3, <2>5 DEF Nth
<1>2. /\ table' \in [Fd -> AnyFile]
      /\ \A n \in Fd : \/ table'[n] = table[n]
                       \/ n = r /\ table'[n] = File(c, q, k0, "r")
                       \/ n = w /\ table'[n] = File(c, q, k0, "w")
      /\ table'[r] = File(c, q, k0, "r") /\ table'[w] = File(c, q, k0, "w") /\ r # w
  <2>1. /\ table' = [table EXCEPT ![r] = File(c, q, k0, "r"), ![w] = File(c, q, k0, "w")]
        /\ r # w
    BY DEF MakePipe
  <2>2. File(c, q, k0, "r") \in AnyFile /\ File(c, q, k0, "w") \in AnyFile
    BY <1>1, FilesDiffer DEF AnyFile
  <2> HIDE DEF k0
  <2>3. table \in [Fd -> AnyFile]
    BY DEF FdInv, FdTypes
  <2>4. QED
    BY <2>1, <2>2, <2>3
<1>3. /\ turn' \in [Cmd -> [Pipe -> Nat]] /\ \A d \in Cmd \ {c} : turn'[d] = turn[d]
      /\ \A p \in Pipe : turn'[c][p] = IF p \in {q} \cup more THEN turn[c][p] + 1 ELSE turn[c][p]
  BY <1>1 DEF FdInv, FdTypes
<1>4. FdTypes'
  <2>1. \A d \in Cmd, p \in Pipe : turn'[d][p] <= MaxPipes[d]
    BY <1>1, <1>3 DEF FdInv, FdTypes, Nth
  <2>2. QED
    BY <1>2, <1>3, <2>1 DEF FdInv, FdTypes
<1>5. Others(c) /\ pc'[c] = at /\ op'[c] = o
  BY <1>3 DEF FdInv, FdTypes, Others
<1>6. ASSUME NEW n \in Fd, NEW p \in Pipe, NEW k \in Nth(c), NEW e \in End,
             table'[n] = File(c, p, k, e)
      PROVE  \/ table[n] = File(c, p, k, e) /\ k <= turn[c][p]
             \/ p = q /\ k = k0 /\ n = IF e = "r" THEN r ELSE w
  <2>1. table[n] = File(c, p, k, e) => k <= turn[c][p]
    BY DEF FdInv, Field, NoneLater
  <2>2. QED
    BY <1>1, <1>2, <1>6, <2>1, FilesDiffer
<1>7. NoneLater(c)'
  BY <1>1, <1>3, <1>6 DEF NoneLater, Nth
<1>8. InField(c)'
  <2> SUFFICES ASSUME NEW n \in Fd, NEW p \in Pipe
               PROVE  /\ table'[n] = File(c, p, turn'[c][p], "r") => pipes'[c][p].r = n
                      /\ table'[n] = File(c, p, turn'[c][p], "w") => pipes'[c][p].w = n
    BY DEF InField, Own
  <2>1. turn'[c][p] \in Nth(c)
    BY <1>1, <1>3
  <2>2. CASE p = q
    BY <1>1, <1>3, <1>6, <2>1, <2>2
  <2>3. CASE p \in more
    BY <1>1, <1>3, <1>6, <2>1, <2>3
  <2>4. CASE p \notin {q} \cup more
    <3>1. turn'[c][p] = turn[c][p] /\ pipes'[c][p] = pipes[c][p]
      BY <1>3, <2>4
    <3>2. /\ table[n] = Own(c, p, "r") => pipes[c][p].r = n
          /\ table[n] = Own(c, p, "w") => pipes[c][p].w = n
      BY DEF FdInv, Field, InField
    <3>3. QED
      BY <1>6, <2>1, <2>4, <3>1, <3>2 DEF Own
  <2>5. QED
    BY <2>2, <2>3, <2>4
<1>9. o = "combined" => NoErr(c)'
  <2> SUFFICES ASSUME "err" \in more, NEW n \in Fd, NEW e \in End
               PROVE  table'[n] # File(c, "err", turn'[c]["err"], e)
    BY DEF NoErr, Own
  <2>1. turn'[c]["err"] = turn[c]["err"] + 1 /\ "err" \in Pipe /\ turn'[c]["err"] \in Nth(c)
    BY <1>1, <1>3
  <2>2. QED
    BY <1>1, <1>6, <2>1
<1>10. Field(c)'
  BY <1>5, <1>7, <1>8, <1>9 DEF Field
<1>11. \A n \in Fd : \/ table'[n] \in {NULL, OtherFile, table[n]}
                     \/ \E p \in Pipe, k \in Nth(c), e \in End : table'[n] = File(c, p, k, e)
  BY <1>1, <1>2
<1>12. QED
  BY <1>4, <1>5, <1>10, <1>11, FdFrame

-----------------------------------------------------------------------------
(* The actions *)

LEMMA FdPipes ==
  ASSUME FdInv, NEW c \in Cmd,
         (\E p \in Pipe : StreamPipe(c, p)) \/ (\E o \in Call : OutputPipe(c, o))
  PROVE  FdInv'
<1>1. ASSUME NEW p \in Pipe, StreamPipe(c, p) PROVE FdInv'
  <2>1. PICK r \in Fd, w \in Fd : /\ MakePipe(c, p, r, w)
                                  /\ pipes' = [pipes EXCEPT ![c][p] = [r |-> r, w |-> w]]
    BY <1>1 DEF StreamPipe
  <2>2. /\ pipes' \in [Cmd -> [Pipe -> [r : AnyFd, w : AnyFd]]]
        /\ \A d \in Cmd \ {c} : pipes'[d] = pipes[d]
        /\ pipes'[c][p] = [r |-> r, w |-> w]
        /\ \A q \in Pipe \ {p} : pipes'[c][q] = pipes[c][q]
    BY <2>1 DEF FdInv, FdTypes, AnyFd
  <2>3. /\ pc[c] = "idle" /\ pc' = [pc EXCEPT ![c] = "idle"] /\ "idle" \in PC
        /\ op[c] = "none" /\ op' = [op EXCEPT ![c] = "none"]
    BY <1>1 DEF StreamPipe, FdInv, FdTypes, Field, PC
  <2>4. turn' = [turn EXCEPT ![c] =
                  [q \in Pipe |-> IF q \in {p} \cup {} THEN @[q] + 1 ELSE @[q]]]
    BY <1>1 DEF StreamPipe, FdInv, FdTypes
  <2>5. Filled(c, p, {}, r, w, "idle", "none")
    BY <2>1, <2>2, <2>3, <2>4 DEF Filled, Starting
  <2>6. QED
    BY <2>5, FdMakes
<1>2. ASSUME NEW o \in Call, OutputPipe(c, o) PROVE FdInv'
  <2> DEFINE fields(r, w) == [p \in Pipe |-> CASE p = "out" -> [r |-> r, w |-> w]
                               [] p = "err" /\ o = "combined" -> [r |-> NoFd, w |-> w]
                               [] OTHER -> pipes[c][p]]
             more == IF o = "combined" THEN {"err"} ELSE {}
  <2>1. PICK r \in Fd, w \in Fd : /\ MakePipe(c, "out", r, w)
                                  /\ pipes' = [pipes EXCEPT ![c] = fields(r, w)]
    BY <1>2 DEF OutputPipe
  <2>2. fields(r, w) \in [Pipe -> [r : AnyFd, w : AnyFd]]
    BY DEF FdInv, FdTypes, AnyFd
  <2>3. /\ pipes' \in [Cmd -> [Pipe -> [r : AnyFd, w : AnyFd]]]
        /\ \A d \in Cmd \ {c} : pipes'[d] = pipes[d]
        /\ pipes'[c] = fields(r, w)
    BY <2>1, <2>2 DEF FdInv, FdTypes
  <2>4. /\ pipes'[c]["out"] = [r |-> r, w |-> w]
        /\ \A p \in Pipe \ ({"out"} \cup more) : pipes'[c][p] = pipes[c][p]
    BY <2>3 DEF Pipe
  <2>5. /\ pc[c] = "idle" /\ pc' = [pc EXCEPT ![c] = "fork"] /\ "fork" \in PC
        /\ op' = [op EXCEPT ![c] = o]
    BY <1>2 DEF OutputPipe, Calls, Goto, PC
  <2>6. turn' = [turn EXCEPT ![c] =
                  [p \in Pipe |-> IF p \in {"out"} \cup more THEN @[p] + 1 ELSE @[p]]]
    BY <1>2 DEF OutputPipe
  <2>7. /\ more \in SUBSET (Pipe \ {"out"}) /\ "out" \in Pipe
        /\ o = "combined" => "err" \in more
        /\ o \in Call \cup {"none", "wait"}
    BY DEF Pipe
  <2> HIDE DEF more, fields
  <2>8. Starting \subseteq PC /\ "fork" \notin {"idle", "close_err", "freed"}
    BY DEF Starting, PC
  <2>9. Filled(c, "out", more, r, w, "fork", o)
    BY <2>1, <2>3, <2>4, <2>5, <2>6, <2>7, <2>8 DEF Filled
  <2>10. QED
    BY <2>9, FdMakes
<1>3. QED
  BY <1>1, <1>2

LEMMA FdStartFails ==
  ASSUME FdInv, NEW c \in Cmd, StartFails(c)
  PROVE  FdInv'
<1>1. GoesTo(c, "idle", "none") /\ turn' = turn
  BY DEF StartFails, Returns, Goto, GoesTo, PC, Starting
<1>2. CASE ~Captures(c)
  <2>1. UNCHANGED <<table, pipes>>
    BY <1>2 DEF StartFails
  <2>2. Typed /\ FieldsOf(c, {}) /\ Gone({})
    BY <2>1 DEF FdInv, FdTypes, Typed, FieldsOf, Gone
  <2>3. QED
    BY <1>1, <2>2, FdShrinks
<1>3. CASE Captures(c)
  <2> DEFINE ns == {pipes[c]["out"].r, pipes[c]["out"].w}
             fields == [p \in Pipe |-> IF p = "out" \/ (p = "err" /\ op[c] = "combined")
                                       THEN Closed ELSE pipes[c][p]]
  <2>1. CloseFds(c, ns) /\ pipes' = [pipes EXCEPT ![c] = fields]
    BY <1>3 DEF StartFails
  <2>2. fields \in [Pipe -> [r : AnyFd, w : AnyFd]]
    BY DEF FdInv, FdTypes, Closed, AnyFd
  <2>3. /\ pipes' \in [Cmd -> [Pipe -> [r : AnyFd, w : AnyFd]]]
        /\ \A d \in Cmd \ {c} : pipes'[d] = pipes[d]
        /\ \A p \in Pipe : \/ pipes'[c][p] = pipes[c][p]
                           \/ p = "out"
                           \/ p = "err" /\ op[c] = "combined"
    BY <2>1, <2>2 DEF FdInv, FdTypes
  <2>4. Typed /\ FieldsOf(c, ns) /\ Gone(ns)
    BY <2>1, <2>3, CloseFacts DEF FdInv, Typed, FieldsOf, Gone
  <2> HIDE DEF ns
  <2>5. QED
    BY <1>1, <2>4, FdShrinks
<1>4. QED
  BY <1>2, <1>3

\* One field of one pipe is set to -1.
LEMMA ClearField ==
  ASSUME FdTypes, NEW c \in Cmd, NEW q \in Pipe,
         \/ pipes' = [pipes EXCEPT ![c][q].r = NoFd]
         \/ pipes' = [pipes EXCEPT ![c][q].w = NoFd]
  PROVE  /\ pipes' \in [Cmd -> [Pipe -> [r : AnyFd, w : AnyFd]]]
         /\ \A d \in Cmd \ {c} : pipes'[d] = pipes[d]
         /\ \A p \in Pipe \ {q} : pipes'[c][p] = pipes[c][p]
         /\ pipes' = [pipes EXCEPT ![c][q].r = NoFd] =>
              pipes'[c][q].r = NoFd /\ pipes'[c][q].w = pipes[c][q].w
         /\ pipes' = [pipes EXCEPT ![c][q].w = NoFd] =>
              pipes'[c][q].w = NoFd /\ pipes'[c][q].r = pipes[c][q].r
<1> DEFINE f == pipes[c][q]
           R == [f EXCEPT !.r = NoFd]
           W == [f EXCEPT !.w = NoFd]
<1>1. f \in [r : AnyFd, w : AnyFd]
  BY DEF FdTypes
<1>2. /\ R \in [r : AnyFd, w : AnyFd] /\ R.r = NoFd /\ R.w = f.w
      /\ W \in [r : AnyFd, w : AnyFd] /\ W.w = NoFd /\ W.r = f.r
  BY <1>1 DEF AnyFd
<1>3. /\ pipes' = [pipes EXCEPT ![c][q].r = NoFd] => pipes' = [pipes EXCEPT ![c][q] = R]
      /\ pipes' = [pipes EXCEPT ![c][q].w = NoFd] => pipes' = [pipes EXCEPT ![c][q] = W]
  OBVIOUS
<1> HIDE DEF R, W
<1>4. ASSUME NEW x \in [r : AnyFd, w : AnyFd], pipes' = [pipes EXCEPT ![c][q] = x]
      PROVE  /\ pipes' \in [Cmd -> [Pipe -> [r : AnyFd, w : AnyFd]]]
             /\ \A d \in Cmd \ {c} : pipes'[d] = pipes[d]
             /\ \A p \in Pipe \ {q} : pipes'[c][p] = pipes[c][p]
             /\ pipes'[c][q] = x
  BY <1>4 DEF FdTypes
<1>5. QED
  BY <1>2, <1>3, <1>4

\* The close of one end of a field.
LEMMA FdCloseEnd ==
  ASSUME FdInv, NEW c \in Cmd, NEW q \in Pipe, NEW at, turn' = turn, GoesTo(c, at, op[c]),
         \/ CloseFds(c, {pipes[c][q].r}) /\ pipes' = [pipes EXCEPT ![c][q].r = NoFd]
         \/ CloseFds(c, {pipes[c][q].w}) /\ pipes' = [pipes EXCEPT ![c][q].w = NoFd]
  PROVE  FdInv'
<1>1. FdTypes
  BY DEF FdInv
<1>2. ASSUME NEW n, CloseFds(c, {n}),
             \/ n = pipes[c][q].r /\ pipes' = [pipes EXCEPT ![c][q].r = NoFd]
             \/ n = pipes[c][q].w /\ pipes' = [pipes EXCEPT ![c][q].w = NoFd]
      PROVE  Typed /\ FieldsOf(c, {n}) /\ Gone({n})
  <2>1. Gone({n}) /\ table' \in [Fd -> AnyFile]
    BY <1>1, <1>2, CloseFacts DEF Gone
  <2>2. Typed /\ FieldsOf(c, {n})
    BY <1>1, <1>2, <2>1, ClearField DEF Typed, FieldsOf
  <2>3. QED
    BY <2>1, <2>2
<1>3. QED
  BY <1>2, FdShrinks

LEMMA FdCloses ==
  ASSUME FdInv, NEW c \in Cmd, CloseIn(c) \/ CloseOut(c) \/ ReadEnd(c) \/ ReadFails(c)
  PROVE  FdInv'
<1>1. /\ op[c] \in Call \cup {"none", "wait"} /\ op' = [op EXCEPT ![c] = op[c]]
      /\ pc[c] \in Starting => op[c] \in Call
  BY DEF Field, CloseIn, CloseOut, ReadEnd, ReadFails, ReadDone, FdInv, FdTypes
<1>2. CASE CloseIn(c)
  <2>1. GoesTo(c, "close_out", op[c])
    BY <1>1, <1>2 DEF CloseIn, Goto, GoesTo, PC, Starting
  <2>2. QED
    BY <1>2, <2>1, FdCloseEnd DEF CloseIn, Pipe
<1>3. CASE CloseOut(c)
  <2>1. pipes' = [pipes EXCEPT ![c]["out"].w = NoFd] /\ FdTypes /\ "out" \in Pipe
    BY <1>3 DEF CloseOut, FdInv, Pipe
  <2>2. pipes'[c]["out"].w = NoFd
    BY <2>1, ClearField
  <2>3. GoesTo(c, "close_err", op[c])
    BY <1>1, <1>3, <2>2 DEF CloseOut, Goto, GoesTo, PC, Starting
  <2>4. QED
    BY <1>3, <2>3, FdCloseEnd DEF CloseOut, Pipe
<1>4. CASE ReadEnd(c) \/ ReadFails(c)
  <2>1. ReadDone(c)
    BY <1>4 DEF ReadEnd, ReadFails
  <2>2. GoesTo(c, "wait", op[c])
    BY <1>1, <2>1 DEF ReadDone, Goto, GoesTo, PC, Starting
  <2>3. QED
    BY <2>1, <2>2, FdCloseEnd DEF ReadDone, Pipe
<1>5. QED
  BY <1>2, <1>3, <1>4

\* Where stderr_pipe has the number that was stdout_pipe's write end, that is closed.
LEMMA FdCloseErr ==
  ASSUME FdInv, NEW c \in Cmd, CloseErr(c)
  PROVE  FdInv'
<1>1. FdTypes /\ turn' = turn /\ pipes' = [pipes EXCEPT ![c]["err"].w = NoFd] /\ "err" \in Pipe
  BY DEF CloseErr, FdInv, Pipe
<1>2. \E at, o : GoesTo(c, at, o)
  <2>1. op[c] \in Call \cup {"none", "wait"} /\ op = [op EXCEPT ![c] = op[c]]
    BY DEF FdInv, FdTypes
  <2>2. CASE Captures(c)
    <3>1. pc' = [pc EXCEPT ![c] = "read"] /\ op' = op
      BY <2>2 DEF CloseErr, Started, Captures, Goto
    <3>2. GoesTo(c, "read", op[c])
      BY <2>1, <3>1 DEF GoesTo, PC, Starting
    <3>3. QED
      BY <3>2
  <2>3. CASE op[c] = "run"
    BY <2>1, <2>3 DEF CloseErr, Started, Captures, Goto, GoesTo, PC, Starting
  <2>4. CASE ~Captures(c) /\ op[c] = "start"
    BY <2>1, <2>4 DEF CloseErr, Started, Captures, Returns, Goto, GoesTo, PC, Starting
  <2>5. op[c] \in Call
    BY DEF CloseErr, FdInv, Field, Starting
  <2>6. QED
    BY <2>2, <2>3, <2>4, <2>5 DEF Captures, Call
<1>3. \E ns : Typed /\ FieldsOf(c, ns) /\ Gone(ns)
  <2>1. CASE pipes[c]["err"].w # pipes[c]["out"].w
    <3>1. CloseFds(c, {pipes[c]["err"].w})
      BY <2>1 DEF CloseErr
    <3>2. table' \in [Fd -> AnyFile] /\ Gone({pipes[c]["err"].w})
      BY <1>1, <3>1, CloseFacts DEF Gone
    <3>3. /\ pipes' \in [Cmd -> [Pipe -> [r : AnyFd, w : AnyFd]]]
          /\ \A d \in Cmd \ {c} : pipes'[d] = pipes[d]
          /\ \A p \in Pipe \ {"err"} : pipes'[c][p] = pipes[c][p]
          /\ pipes'[c]["err"].r = pipes[c]["err"].r
      BY <1>1, ClearField
    <3>4. Typed
      BY <3>2, <3>3 DEF Typed
    <3>5. FieldsOf(c, {pipes[c]["err"].w})
      BY <3>3 DEF FieldsOf
    <3>6. QED
      BY <3>2, <3>4, <3>5
  <2>2. CASE pipes[c]["err"].w = pipes[c]["out"].w
    <3>1. table' = table
      BY <2>2 DEF CloseErr
    <3>2. pipes[c]["err"].w = NoFd
      BY <2>2 DEF CloseErr, FdInv, Field
    <3>3. Typed /\ Gone({}) /\ FieldsOf(c, {})
      BY <1>1, <3>1, <3>2, ClearField DEF FdTypes, Typed, FieldsOf, Gone
    <3>4. QED
      BY <3>3
  <2>3. QED
    BY <2>1, <2>2
<1>4. QED
  BY <1>1, <1>2, <1>3, FdShrinks

LEMMA FdFree ==
  ASSUME FdInv, NEW c \in Cmd, Free(c)
  PROVE  FdInv'
<1> DEFINE ns == UNION {{pipes[c][p].r, pipes[c][p].w} : p \in Pipe}
<1>1. /\ pipes' = [pipes EXCEPT ![c] = [p \in Pipe |-> Closed]] /\ FdTypes
      /\ turn' = turn /\ CloseFds(c, ns) /\ pc[c] = "idle"
      /\ pc' = [pc EXCEPT ![c] = "freed"] /\ op' = op
  BY DEF Free, Goto, FdInv
<1>2. [p \in Pipe |-> Closed] \in [Pipe -> [r : AnyFd, w : AnyFd]]
  BY DEF Closed, AnyFd
<1>3. /\ pipes' \in [Cmd -> [Pipe -> [r : AnyFd, w : AnyFd]]]
      /\ \A d \in Cmd \ {c} : pipes'[d] = pipes[d]
      /\ \A p \in Pipe : pipes'[c][p] = Closed
  BY <1>1, <1>2 DEF FdTypes
<1>4. GoesTo(c, "freed", op[c])
  BY <1>1, <1>3 DEF GoesTo, PC, FdInv, FdTypes, Field, Starting
<1>5. \A p \in Pipe : pipes[c][p].r \in ns /\ pipes[c][p].w \in ns
  OBVIOUS
<1>6. Typed /\ FieldsOf(c, ns) /\ Gone(ns)
  BY <1>1, <1>3, <1>5, CloseFacts DEF Typed, FieldsOf, Gone
<1> HIDE DEF ns
<1>7. QED
  BY <1>1, <1>4, <1>6, FdShrinks

\* The steps that close nothing: of a call, of the child and of the program.
LEMMA FdOthers ==
  ASSUME FdInv, NEW c \in Cmd,
         \/ \E o \in Call : StartCall(c, o)
         \/ Fork(c) \/ Read(c) \/ CloseInput(c) \/ WaitCall(c) \/ Wait(c) \/ Exit(c)
         \/ \E s \in Stream : Write(c, s)
  PROVE  FdInv'
<1>1. /\ turn' = turn /\ pipes' = pipes
      /\ \A n \in Fd : table'[n] = NULL \/ table'[n] = table[n]
      /\ table' \in [Fd -> AnyFile]
  BY Zenon DEF StartCall, Fork, Read, CloseInput, WaitCall, Wait, Exit, Write, FdInv, FdTypes,
               AnyFile
<1>2. Typed /\ FieldsOf(c, {}) /\ Gone({})
  BY <1>1 DEF FdInv, FdTypes, Typed, FieldsOf, Gone
<1>3. \E at, o : GoesTo(c, at, o)
  <2>1. /\ op[c] \in Call \cup {"none", "wait"} /\ op = [op EXCEPT ![c] = op[c]]
        /\ pc[c] \in PC /\ pc = [pc EXCEPT ![c] = pc[c]]
        /\ Field(c)
    BY DEF FdInv, FdTypes
  <2>2. ASSUME NEW o \in Call, StartCall(c, o) PROVE GoesTo(c, "fork", o)
    BY <2>2 DEF StartCall, Calls, Goto, GoesTo, PC, Starting
  <2>3. CASE Fork(c)
    <3>1. GoesTo(c, "close_in", op[c])
      BY <2>1, <2>3 DEF Fork, Goto, GoesTo, PC, Field, Starting
    <3>2. QED
      BY <3>1
  <2>4. CASE WaitCall(c)
    <3>1. GoesTo(c, "wait", "wait")
      BY <2>4 DEF WaitCall, Calls, Goto, GoesTo, PC, Starting
    <3>2. QED
      BY <3>1
  <2>5. CASE Wait(c)
    <3>1. GoesTo(c, "idle", "none")
      BY <2>5 DEF Wait, Returns, Goto, GoesTo, PC, Starting
    <3>2. QED
      BY <3>1
  <2>6. CASE UNCHANGED <<pc, op>>
    <3>1. GoesTo(c, pc[c], op[c])
      BY <1>1, <2>1, <2>6 DEF GoesTo, Field
    <3>2. QED
      BY <3>1
  <2>7. QED
    BY <2>2, <2>3, <2>4, <2>5, <2>6, Zenon DEF Read, CloseInput, Exit, Write
<1>4. QED
  BY <1>1, <1>2, <1>3, FdShrinks

\* The other thread's file is nobody's pipe.
LEMMA FdFile ==
  ASSUME FdInv, OpenFile \/ CloseFile
  PROVE  FdInv'
<1>1. /\ UNCHANGED <<pipes, turn, pc, op>> /\ table' \in [Fd -> AnyFile]
      /\ \A n \in Fd : table'[n] \in {NULL, OtherFile, table[n]}
  BY DEF OpenFile, CloseFile, FdInv, FdTypes, AnyFile
<1>2. FdTypes'
  BY <1>1 DEF FdInv, FdTypes
<1>3. ASSUME NEW c \in Cmd PROVE Field(c)'
  <2>1. ASSUME NEW n \in Fd, NEW p \in Pipe, NEW k \in Nth(c), NEW e \in End,
               table'[n] = File(c, p, k, e)
        PROVE  table[n] = File(c, p, k, e)
    BY <1>1, <2>1, FilesDiffer
  <2>2. Field(c) /\ \A p \in Pipe : turn[c][p] \in Nth(c)
    BY OwnFiles DEF FdInv
  <2>3. InField(c)'
    BY <1>1, <2>1, <2>2 DEF Field, InField, Own, End
  <2>4. NoneLater(c)'
    BY <1>1, <2>1, <2>2 DEF Field, NoneLater
  <2>5. NoErr(c) => NoErr(c)'
    BY <1>1, <2>1, <2>2 DEF NoErr, Own, Pipe
  <2>6. QED
    BY <1>1, <2>2, <2>3, <2>4, <2>5 DEF Field
<1>4. QED
  BY <1>2, <1>3 DEF FdInv

LEMMA FdStep == FdInv /\ [Next]_vars => FdInv'
<1> SUFFICES ASSUME FdInv, [Next]_vars PROVE FdInv'
  OBVIOUS
<1>1. CASE UNCHANGED vars
  BY <1>1 DEF vars, FdInv, FdTypes, Field, InField, NoneLater, NoErr, Own
<1>2. CASE OpenFile \/ CloseFile
  BY <1>2, FdFile
<1>3. ASSUME NEW c \in Cmd,
             Program(c) \/ Go(c) \/ ReadFails(c) \/ Exit(c) \/ \E s \in Stream : Write(c, s)
      PROVE  FdInv'
  BY <1>3, FdPipes, FdStartFails, FdCloses, FdCloseErr, FdFree, FdOthers DEF Program, Go
<1>4. QED
  BY <1>1, <1>2, <1>3 DEF Next

\* OnlyOverwrittenOutlive: whichever calls a program makes, in whatever order, whichever
\* of them fail, and wherever a command is freed, run_exec_free closes what its fields
\* hold, and what they hold is all that was made for it but what was overwritten.
THEOREM OnlyOverwrittenOutliveTheirCommand == Spec => []OnlyOverwrittenOutlive
<1>1. FdInv => OnlyOverwrittenOutlive
  <2> SUFFICES ASSUME FdInv, NEW c \in Cmd, pc[c] = "freed", NEW n \in Fd, NEW p \in Pipe,
                      NEW k \in 1..MaxPipes[c], NEW e \in End, table[n] = File(c, p, k, e)
               PROVE  k < turn[c][p]
    BY DEF OnlyOverwrittenOutlive, End
  <2>1. MaxPipes[c] \in Nat /\ turn[c][p] \in Nat /\ k \in Nth(c)
    BY ExecAssumption DEF Nth, FdInv, FdTypes
  <2>2. k <= turn[c][p]
    BY <2>1 DEF FdInv, Field, NoneLater
  <2>3. table[n] # Own(c, p, e)
    <3>1. pipes[c][p].r = NoFd /\ pipes[c][p].w = NoFd /\ n # NoFd
      BY DEF FdInv, Field, Closed, Fd, NoFd
    <3>2. QED
      BY <3>1 DEF FdInv, Field, InField, End
  <2>4. QED
    BY <2>1, <2>2, <2>3 DEF Own
<1>2. QED
  BY FdInit, FdStep, <1>1, PTL DEF Spec

-----------------------------------------------------------------------------
(* What an output call returns *)

OutTypes ==
  /\ child \in [Cmd -> {"none", "running", "zombie", "reaped"}]
  /\ holds \in [Cmd -> SUBSET AnyFile]
  /\ std \in [Cmd -> [Pipe -> PipeEnd \cup {NULL}]]
  /\ data \in [Cmd -> [Pipe -> [Stream -> Nat]]]
  /\ wrote \in [Cmd -> [Stream -> Nat]] /\ got \in [Cmd -> [Stream -> Nat]]
  /\ cut \in [Cmd -> BOOLEAN]

\* What the child has written is read or in the pipe, and the child, as long as
\* it runs, has the write end open: at the end of the pipe it has exited.
UnderWay == {"close_in", "close_out", "close_err", "read", "wait"}
InPipe(c) == data[c]["out"]["out"]
Whole(c) ==
  /\ child[c] \in {"running", "zombie"} /\ std[c]["out"] = Own(c, "out", "w")
  /\ child[c] = "running" => Own(c, "out", "w") \in holds[c]
  /\ got[c]["out"] + InPipe(c) = wrote[c]["out"]
Output(c) ==
  /\ child[c] = "none" => got[c]["out"] = 0 /\ InPipe(c) = 0 /\ wrote[c]["out"] = 0
  /\ Captures(c) /\ pc[c] = "fork" => pipes[c]["out"].w # NoFd
  /\ Captures(c) /\ pc[c] \in UnderWay => Whole(c)
  /\ Captures(c) /\ pc[c] = "wait" /\ ~cut[c] => child[c] # "running" /\ InPipe(c) = 0

OutInv == FdInv /\ OutTypes /\ \A c \in Cmd : Output(c)

LEMMA OutInit == Init => OutInv
<1> SUFFICES ASSUME Init PROVE OutInv
  OBVIOUS
<1>1. OutTypes
  BY DEF Init, OutTypes, Nothing
<1>2. \A c \in Cmd : Output(c)
  BY DEF Init, Output, InPipe, Nothing, Stream, Pipe, UnderWay
<1>3. QED
  BY <1>1, <1>2, FdInit DEF OutInv

\* A step changes the state of one command at most.
Untouched(c) ==
  \A d \in Cmd \ {c} :
    /\ child'[d] = child[d] /\ holds'[d] = holds[d] /\ std'[d] = std[d] /\ data'[d] = data[d]
    /\ wrote'[d] = wrote[d] /\ got'[d] = got[d] /\ cut'[d] = cut[d]

LEMMA OutFrame ==
  ASSUME OutInv, NEW c \in Cmd, FdInv', OutTypes', Output(c)', Others(c), Untouched(c)
  PROVE  OutInv'
<1> SUFFICES ASSUME NEW d \in Cmd \ {c} PROVE Output(d)'
  BY DEF OutInv
<1>1. Output(d)
  BY DEF OutInv
<1>2. QED
  BY <1>1 DEF Others, Untouched, Output, Whole, InPipe, Captures, Own

\* The steps of a call that has no child yet, or has none any more.
LEMMA OutCalls ==
  ASSUME OutInv, FdInv', NEW c \in Cmd,
         \/ \E p \in Pipe : StreamPipe(c, p)
         \/ \E o \in Call : OutputPipe(c, o) \/ StartCall(c, o)
         \/ StartFails(c) \/ WaitCall(c) \/ Free(c)
  PROVE  OutInv'
<1>1. /\ child' = child /\ holds' = holds /\ std' = std /\ wrote' = wrote
      /\ data' = data /\ got' = got /\ cut' = cut
  BY DEF childVars, StreamPipe, OutputPipe, StartCall, StartFails, WaitCall, Free
<1>2. OutTypes' /\ Untouched(c)
  BY <1>1 DEF OutInv, OutTypes, Untouched
<1>3. Others(c)
  BY DEF StreamPipe, OutputPipe, StartCall, StartFails, WaitCall, Free, Calls, Returns, Goto,
         Others, OutInv, FdInv, FdTypes
<1>4. Output(c)
  BY DEF OutInv
<1>5. /\ pc \in [Cmd -> PC] /\ op \in [Cmd -> Call \cup {"none", "wait"}]
      /\ pc[c] = "idle" => op[c] = "none"
  BY DEF OutInv, FdInv, FdTypes, Field
<1>6. Output(c)'
  <2>1. CASE ~Captures(c)' \/ pc'[c] \notin UnderWay \cup {"fork"}
    BY <1>1, <1>4, <2>1 DEF Output, InPipe, UnderWay
  <2>2. CASE \E o \in Call : OutputPipe(c, o)
    <3>1. PICK o \in Call : OutputPipe(c, o)
      BY <2>2
    <3>2. pc'[c] = "fork"
      BY <1>5, <3>1 DEF OutputPipe, Calls, Goto
    <3>3. pipes'[c]["out"].w # NoFd
      <4>1. PICK r \in Fd, w \in Fd : pipes'[c]["out"] = [r |-> r, w |-> w]
        BY <3>1 DEF OutputPipe, OutInv, FdInv, FdTypes, Pipe
      <4>2. QED
        BY <4>1 DEF Fd, NoFd
    <3>4. QED
      BY <1>1, <1>4, <3>2, <3>3 DEF Output, InPipe, UnderWay
  <2>3. CASE (\E p \in Pipe : StreamPipe(c, p)) \/ Free(c)
    BY <1>5, <2>1, <2>3 DEF StreamPipe, Free, Captures
  <2>4. CASE (\E o \in Call : StartCall(c, o)) \/ WaitCall(c) \/ StartFails(c)
    <3>1. op'[c] \in {"run", "start", "wait", "none"}
      BY <1>5, <2>4 DEF StartCall, WaitCall, StartFails, Calls, Returns
    <3>2. QED
      BY <2>1, <3>1 DEF Captures
  <2>5. QED
    BY <2>2, <2>3, <2>4
<1>7. QED
  BY <1>2, <1>3, <1>6, OutFrame

\* The child of an output call has the write end as its standard output.
LEMMA OutFork ==
  ASSUME OutInv, FdInv', NEW c \in Cmd, Fork(c)
  PROVE  OutInv'
<1>1. /\ pc[c] = "fork" /\ child[c] = "none" /\ pc' = [pc EXCEPT ![c] = "close_in"]
      /\ child' = [child EXCEPT ![c] = "running"]
      /\ UNCHANGED <<table, pipes, turn, wrote, data, got, cut, op>>
  BY DEF Fork, Goto
<1> DEFINE s == std'[c]
           h == holds'[c]
<1>2. /\ holds' = [holds EXCEPT ![c] = h] /\ std' = [std EXCEPT ![c] = s]
      /\ h \subseteq {table[n] : n \in Fd} \cup {s[p] : p \in Pipe}
      /\ {s[p] : p \in Pipe} \ {NULL} \subseteq h
      /\ s = [p \in Pipe |-> s[p]]
      /\ \A p \in Pipe : s[p] \in {NULL, Own(c, p, "r"), Own(c, p, "w")}
      /\ pipes[c]["out"].w # NoFd => s["out"] = Own(c, "out", "w")
  <2>1. holds \in [Cmd -> SUBSET AnyFile] /\ std \in [Cmd -> [Pipe -> PipeEnd \cup {NULL}]]
    BY DEF OutInv, OutTypes
  <2>2. /\ holds' = [holds EXCEPT ![c] = h] /\ std' = [std EXCEPT ![c] = s]
        /\ s = [p \in Pipe |-> s[p]]
        /\ \A p \in Pipe : s[p] \in {NULL, Own(c, p, "r"), Own(c, p, "w")}
        /\ pipes[c]["out"].w # NoFd => s["out"] = Own(c, "out", "w")
    BY <2>1 DEF Fork, Pipe
  <2>3. PICK kept, streams :
           /\ holds' = [holds EXCEPT ![c] = (kept \cup {streams[p] : p \in Pipe}) \ {NULL}]
           /\ std' = [std EXCEPT ![c] = streams]
           /\ kept \subseteq {table[n] : n \in Fd}
    <3> DEFINE inFds == IF pipes[c]["in"]["r"] # NoFd
                        THEN {pipes[c]["in"]["r"], pipes[c]["in"]["w"]} ELSE {}
               outFds == IF pipes[c]["out"]["w"] # NoFd
                         THEN {pipes[c]["out"]["w"], pipes[c]["out"]["r"]} ELSE {}
               errDup == pipes[c]["err"]["w"] # NoFd /\ pipes[c]["err"]["w"] \notin outFds
               errFds == IF errDup THEN {pipes[c]["err"]["w"], pipes[c]["err"]["r"]} ELSE {}
               kept == {table[n] : n \in Fd \ (inFds \cup outFds \cup errFds)}
               streams == [p \in Pipe |-> CASE p = "in" /\ inFds # {} -> Own(c, p, "r")
                                            [] p = "out" /\ outFds # {} -> Own(c, p, "w")
                                            [] p = "err" /\ errDup -> Own(c, p, "w")
                                            [] OTHER -> NULL]
    <3>1. /\ holds' = [holds EXCEPT ![c] = (kept \cup {streams[p] : p \in Pipe}) \ {NULL}]
          /\ std' = [std EXCEPT ![c] = streams]
      BY DEF Fork
    <3>2. kept \subseteq {table[n] : n \in Fd}
      OBVIOUS
    <3> HIDE DEF kept, streams
    <3>3. QED
      BY <3>1, <3>2
  <2>4. s = streams /\ h = (kept \cup {streams[p] : p \in Pipe}) \ {NULL}
    BY <2>1, <2>3
  <2>5. QED
    BY <2>2, <2>3, <2>4
<1> HIDE DEF s, h
<1>3. /\ table \in [Fd -> AnyFile] /\ \A p \in Pipe, e \in End : Own(c, p, e) \in PipeEnd
  BY OwnFiles, FilesDiffer DEF Own, OutInv, FdInv, FdTypes
<1>4. s \in [Pipe -> PipeEnd \cup {NULL}] /\ h \in SUBSET AnyFile
  BY <1>2, <1>3 DEF End, AnyFile
<1>5. OutTypes' /\ Others(c) /\ Untouched(c)
  BY <1>1, <1>2, <1>4 DEF OutInv, OutTypes, FdInv, FdTypes, Others, Untouched
<1>6. Output(c)'
  <2>1. Output(c) /\ turn'[c] = turn[c] /\ op'[c] = op[c] /\ pc'[c] = "close_in"
    BY <1>1 DEF OutInv, FdInv, FdTypes
  <2>2. child'[c] = "running" /\ std'[c] = s /\ holds'[c] = h
    BY <1>1 DEF s, h, OutInv, OutTypes
  <2>3. Captures(c) => s["out"] = Own(c, "out", "w") /\ Own(c, "out", "w") \in h
    <3>1. Own(c, "out", "w") # NULL
      BY <1>3, OwnFiles, FilesDiffer DEF Own, OutInv, FdInv, Pipe, End
    <3>2. QED
      BY <1>1, <1>2, <2>1, <3>1 DEF Output, Pipe
  <2>4. QED
    BY <1>1, <2>1, <2>2, <2>3 DEF Output, Whole, InPipe, Captures, Own
<1>7. QED
  BY <1>5, <1>6, OutFrame

\* The parent's own steps until it reads, and its close of the child's input.
LEMMA OutClose ==
  ASSUME OutInv, FdInv', NEW c \in Cmd, CloseIn(c) \/ CloseOut(c) \/ CloseErr(c) \/ CloseInput(c)
  PROVE  OutInv'
<1>1. /\ child' = child /\ holds' = holds /\ std' = std /\ wrote' = wrote /\ turn' = turn
      /\ data' = data /\ got' = got /\ cut' = cut
  BY DEF childVars, CloseIn, CloseOut, CloseErr, CloseInput
<1>2. OutTypes' /\ Untouched(c)
  BY <1>1 DEF OutInv, OutTypes, Untouched
<1>3. /\ pc \in [Cmd -> PC] /\ op \in [Cmd -> Call \cup {"none", "wait"}]
      /\ pipes \in [Cmd -> [Pipe -> [r : AnyFd, w : AnyFd]]]
      /\ pc[c] \in Starting => op[c] \in Call
      /\ Output(c)
  BY DEF OutInv, FdInv, FdTypes, Field
<1>4. Others(c)
  <2>1. CASE CloseErr(c)
    <3>1. Started(c) /\ op[c] \in Call /\ pipes' = [pipes EXCEPT ![c]["err"].w = NoFd]
      BY <1>3, <2>1 DEF CloseErr, Starting
    <3>2. (\E at : Goto(c, at)) /\ (op' = op \/ op' = [op EXCEPT ![c] = "none"])
      BY <3>1 DEF Started, Returns, Captures, Call
    <3>3. QED
      BY <1>1, <1>3, <3>1, <3>2 DEF Others, Goto
  <2>2. QED
    BY <1>1, <1>3, <2>1 DEF CloseIn, CloseOut, CloseInput, Goto, Others
<1>5. Output(c)'
  <2>1. CASE CloseIn(c) \/ CloseOut(c)
    <3>1. /\ pc[c] \in UnderWay /\ pc'[c] \in UnderWay \ {"wait"} /\ op'[c] = op[c]
      BY <1>3, <2>1 DEF CloseIn, CloseOut, Goto, UnderWay
    <3>2. QED
      BY <1>1, <1>3, <3>1 DEF Output, Whole, InPipe, Captures, Own, UnderWay
  <2>2. CASE CloseErr(c)
    <3>1. Started(c) /\ op[c] \in Call /\ pc[c] \in UnderWay
      BY <1>3, <2>2 DEF CloseErr, Starting, UnderWay
    <3>2. CASE Captures(c)
      <4>1. pc'[c] = "read" /\ op'[c] = op[c]
        BY <1>3, <3>1, <3>2 DEF Started, Captures, Goto
      <4>2. QED
        BY <1>1, <1>3, <3>1, <4>1 DEF Output, Whole, InPipe, Captures, Own, UnderWay
    <3>3. CASE ~Captures(c)
      <4>1. op'[c] = op[c] \/ op'[c] = "none"
        BY <1>3, <3>1, <3>3 DEF Started, Captures, Call, Returns
      <4>2. QED
        BY <1>1, <1>3, <3>3, <4>1 DEF Output, InPipe, Captures
    <3>4. QED
      BY <3>2, <3>3
  <2>3. CASE CloseInput(c)
    BY <1>1, <1>3, <2>3 DEF CloseInput, Output, Whole, InPipe, Captures, Own
  <2>4. QED
    BY <2>1, <2>2, <2>3
<1>6. QED
  BY <1>2, <1>4, <1>5, OutFrame

LEMMA OutRead ==
  ASSUME OutInv, FdInv', NEW c \in Cmd, Read(c) \/ ReadEnd(c) \/ ReadFails(c)
  PROVE  OutInv'
<1>1. /\ child' = child /\ holds' = holds /\ std' = std /\ wrote' = wrote
      /\ turn' = turn /\ op' = op /\ pc[c] = "read"
  BY DEF childVars, Read, ReadEnd, ReadFails, ReadDone
<1>2. /\ pc \in [Cmd -> PC] /\ pipes \in [Cmd -> [Pipe -> [r : AnyFd, w : AnyFd]]]
      /\ Output(c) /\ got[c]["out"] \in Nat /\ InPipe(c) \in Nat /\ wrote[c]["out"] \in Nat
  BY DEF OutInv, OutTypes, FdInv, FdTypes, InPipe, Stream, Pipe
<1>3. Others(c)
  BY <1>1, <1>2 DEF Read, ReadEnd, ReadFails, ReadDone, Goto, Others
<1>4. CASE Read(c)
  <2>1. /\ got' = [got EXCEPT ![c] = Plus(@, data[c]["out"])] /\ pc' = pc /\ cut' = cut
        /\ data' = [data EXCEPT ![c]["out"] = Nothing] /\ pipes' = pipes
    BY <1>4 DEF Read
  <2>2. /\ Nothing \in [Stream -> Nat] /\ Nothing["out"] = 0
        /\ Plus(got[c], data[c]["out"]) \in [Stream -> Nat]
        /\ Plus(got[c], data[c]["out"])["out"] = got[c]["out"] + InPipe(c)
    BY DEF Nothing, Plus, Stream, Pipe, OutInv, OutTypes, InPipe
  <2>3. /\ OutTypes' /\ Untouched(c)
        /\ got'[c]["out"] = got[c]["out"] + InPipe(c) /\ data'[c]["out"]["out"] = 0
    BY <1>1, <2>1, <2>2 DEF OutInv, OutTypes, Untouched, Pipe
  <2>4. Output(c)'
    BY <1>1, <1>2, <2>1, <2>3 DEF Output, Whole, InPipe, Captures, Own, UnderWay
  <2>5. QED
    BY <1>3, <2>3, <2>4, OutFrame
<1>5. CASE ReadEnd(c) \/ ReadFails(c)
  <2>1. /\ data' = data /\ got' = got /\ pc'[c] = "wait"
        /\ cut' = cut \/ cut' = [cut EXCEPT ![c] = TRUE]
    BY <1>2, <1>5 DEF ReadEnd, ReadFails, ReadDone, Goto
  <2>2. OutTypes' /\ Untouched(c)
    BY <1>1, <2>1 DEF OutInv, OutTypes, Untouched
  <2>3. \/ cut'[c] = TRUE
        \/ InPipe(c) = 0 /\ (Whole(c) => child[c] # "running")
    <3>1. CASE ReadEnd(c)
      BY <3>1 DEF ReadEnd, IsOpen, InPipe, Whole, Nothing, Stream
    <3>2. CASE ReadFails(c)
      BY <3>2 DEF ReadFails, OutInv, OutTypes
    <3>3. QED
      BY <1>5, <3>1, <3>2
  <2>4. Output(c)'
    BY <1>1, <1>2, <2>1, <2>3 DEF Output, Whole, InPipe, Captures, Own, UnderWay
  <2>5. QED
    BY <1>3, <2>2, <2>4, OutFrame
<1>6. QED
  BY <1>4, <1>5

LEMMA OutWait ==
  ASSUME OutInv, FdInv', NEW c \in Cmd, Wait(c)
  PROVE  OutInv'
<1> DEFINE none == [p \in Pipe |-> NULL]
           empty == [p \in Pipe |-> Nothing]
<1>1. /\ child' = [child EXCEPT ![c] = "reaped"] /\ holds' = holds /\ UNCHANGED <<pipes, turn>>
      /\ pc' = [pc EXCEPT ![c] = "idle"] /\ op' = [op EXCEPT ![c] = "none"]
      /\ std' = [std EXCEPT ![c] = none] /\ data' = [data EXCEPT ![c] = empty]
      /\ wrote' = [wrote EXCEPT ![c] = Nothing] /\ got' = [got EXCEPT ![c] = Nothing]
      /\ cut' = [cut EXCEPT ![c] = FALSE]
  BY DEF Wait, Returns, Goto
<1>2. /\ none \in [Pipe -> PipeEnd \cup {NULL}] /\ Nothing \in [Stream -> Nat]
      /\ empty \in [Pipe -> [Stream -> Nat]]
  BY DEF Nothing
<1> HIDE DEF none, empty
<1>3. OutTypes' /\ Untouched(c)
  BY <1>1, <1>2 DEF OutInv, OutTypes, Untouched
<1>4. Others(c) /\ op'[c] = "none" /\ child'[c] = "reaped"
  BY <1>1 DEF Others, OutInv, OutTypes, FdInv, FdTypes
<1>5. Output(c)'
  BY <1>4 DEF Output, Captures
<1>6. QED
  BY <1>3, <1>4, <1>5, OutFrame

LEMMA OutWrite ==
  ASSUME OutInv, FdInv', NEW c \in Cmd, NEW s \in Stream, Write(c, s)
  PROVE  OutInv'
<1> DEFINE to == std[c][s]
<1>1. /\ child[c] = "running" /\ wrote' = [wrote EXCEPT ![c][s] = @ + 1]
      /\ child' = child /\ holds' = holds /\ std' = std /\ got' = got /\ cut' = cut
      /\ UNCHANGED <<pipes, turn, pc, op>>
      /\ \/ to = NULL /\ data' = data
         \/ to # NULL /\ data' = [data EXCEPT ![c][to.pipe][s] = @ + 1]
  BY DEF Write
<1>2. /\ wrote' \in [Cmd -> [Stream -> Nat]]
      /\ \A d \in Cmd \ {c} : wrote'[d] = wrote[d]
      /\ wrote'[c]["out"] = IF s = "out" THEN wrote[c]["out"] + 1 ELSE wrote[c]["out"]
  BY <1>1 DEF OutInv, OutTypes, Stream
<1>3. /\ to \in PipeEnd \cup {NULL} /\ data \in [Cmd -> [Pipe -> [Stream -> Nat]]]
      /\ "out" \in Pipe /\ "out" \in Stream
  BY DEF OutInv, OutTypes, Stream, Pipe
<1>4. /\ data' \in [Cmd -> [Pipe -> [Stream -> Nat]]]
      /\ \A d \in Cmd \ {c} : data'[d] = data[d]
      /\ data'[c]["out"]["out"] =
           IF s = "out" /\ to # NULL /\ to.pipe = "out" THEN InPipe(c) + 1 ELSE InPipe(c)
  <2>1. CASE to = NULL /\ data' = data
    BY <1>3, <2>1 DEF InPipe
  <2>2. CASE to # NULL /\ data' = [data EXCEPT ![c][to.pipe][s] = @ + 1]
    <3> DEFINE q == to.pipe
    <3>1. q \in Pipe
      BY <1>3, <2>2 DEF PipeEnd
    <3>2. data' = [data EXCEPT ![c][q][s] = @ + 1]
      BY <2>2
    <3> HIDE DEF q
    <3>3. /\ data' \in [Cmd -> [Pipe -> [Stream -> Nat]]]
          /\ \A d \in Cmd \ {c} : data'[d] = data[d]
          /\ data'[c]["out"]["out"] = IF s = "out" /\ q = "out" THEN InPipe(c) + 1 ELSE InPipe(c)
      BY <1>3, <3>1, <3>2 DEF InPipe
    <3>4. QED
      BY <2>2, <3>3 DEF q
  <2>3. QED
    BY <1>1, <2>1, <2>2
<1>5. OutTypes' /\ Untouched(c)
  BY <1>1, <1>2, <1>4 DEF OutInv, OutTypes, Untouched
<1>6. Output(c)'
  <2>1. /\ Output(c) /\ got[c]["out"] \in Nat /\ InPipe(c) \in Nat /\ wrote[c]["out"] \in Nat
    BY <1>3 DEF OutInv, OutTypes, InPipe, Stream
  <2>2. Whole(c) => (to # NULL /\ to.pipe = "out") \/ s # "out"
    <3>1. Own(c, "out", "w") # NULL /\ Own(c, "out", "w").pipe = "out"
      <4>1. turn[c]["out"] \in Nth(c) /\ "w" \in End
        BY <1>3, OwnFiles DEF OutInv, FdInv, End
      <4>2. QED
        BY <1>3, <4>1, FilesDiffer DEF Own, File
    <3>2. QED
      BY <3>1 DEF Whole
  <2>3. Whole(c) => wrote'[c]["out"] = got[c]["out"] + data'[c]["out"]["out"]
    <3>1. CASE s = "out"
      <4> HIDE DEF to
      <4>1. Whole(c) => /\ wrote'[c]["out"] = wrote[c]["out"] + 1
                        /\ data'[c]["out"]["out"] = InPipe(c) + 1
        BY <1>2, <1>4, <2>2, <3>1
      <4>2. QED
        BY <2>1, <4>1 DEF Whole
    <3>2. CASE s # "out"
      BY <1>2, <1>4, <2>1, <3>2 DEF Whole
    <3>3. QED
      BY <3>1, <3>2
  <2> HIDE DEF to
  <2>4. Whole(c) => Whole(c)'
    BY <1>1, <2>3 DEF Whole, Own, InPipe
  <2>5. QED
    BY <1>1, <2>1, <2>4 DEF Output, Captures, UnderWay
<1>7. Others(c)
  BY <1>1 DEF Others
<1>8. QED
  BY <1>5, <1>6, <1>7, OutFrame

LEMMA OutExit ==
  ASSUME OutInv, FdInv', NEW c \in Cmd, Exit(c)
  PROVE  OutInv'
<1>1. /\ child' = [child EXCEPT ![c] = "zombie"] /\ holds' = [holds EXCEPT ![c] = {}]
      /\ child[c] = "running"
      /\ UNCHANGED <<pipes, turn, std, wrote, data, got, cut, pc, op>>
  BY DEF Exit
<1>2. OutTypes' /\ Untouched(c) /\ Others(c) /\ child'[c] = "zombie"
  BY <1>1 DEF OutInv, OutTypes, Untouched, Others
<1>3. Output(c)'
  BY <1>1, <1>2 DEF OutInv, Output, Whole, InPipe, Captures, Own
<1>4. QED
  BY <1>2, <1>3, OutFrame

LEMMA OutStep == OutInv /\ [Next]_vars => OutInv'
<1> SUFFICES ASSUME OutInv, [Next]_vars PROVE OutInv'
  OBVIOUS
<1>1. FdInv'
  BY FdStep DEF OutInv
<1>2. CASE UNCHANGED <<pipes, turn, childVars, data, got, cut, pc, op>>
  BY <1>1, <1>2 DEF childVars, OutInv, OutTypes, Output, Whole, InPipe, Captures, Own
<1>3. CASE OpenFile \/ CloseFile \/ UNCHANGED vars
  BY <1>2, <1>3 DEF OpenFile, CloseFile, vars
<1>4. ASSUME NEW c \in Cmd,
             Program(c) \/ Go(c) \/ ReadFails(c) \/ Exit(c) \/ \E s \in Stream : Write(c, s)
      PROVE  OutInv'
  BY <1>1, <1>4, OutCalls, OutFork, OutClose, OutRead, OutWait, OutWrite, OutExit
     DEF Program, Go
<1>5. QED
  BY <1>3, <1>4 DEF Next

\* OutputIsComplete: an output call whose reads do not fail returns all that its child
\* wrote to stdout, however many other children have inherited the pipe, whatever they
\* do, and whatever pipes the program has made for the command before.
THEOREM OutputCallsAreComplete == Spec => []OutputIsComplete
<1>1. OutInv => OutputIsComplete
  <2> SUFFICES ASSUME OutInv, NEW c \in Cmd, Captures(c), pc[c] = "wait", ~cut[c]
               PROVE  got[c]["out"] = wrote[c]["out"]
    BY DEF OutputIsComplete
  <2>1. Output(c) /\ got[c]["out"] \in Nat
    BY DEF OutInv, OutTypes, Stream
  <2>2. QED
    BY <2>1 DEF Output, Whole, UnderWay
<1>2. QED
  BY OutInit, OutStep, <1>1, PTL DEF Spec
=============================================================================
