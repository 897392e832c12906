---------------------------- MODULE SyscallProofs ----------------------------
(***************************************************************************)
(* For any number of processes, files, struct files and descriptors: no    *)
(* struct file is used by two, a descriptor keeps its file, and            *)
(* filesys_lock excludes and is given back where the code says so.         *)
(***************************************************************************)
EXTENDS Syscall, TLAPS

\* The steps of a process, with their arguments.
Moves(t) ==
  \/ Start(t) \/ Exit(t) \/ Kill(t)
  \/ \E f \in File : Exec(t, f) \/ Open(t, f)
  \/ \E n \in Fd : Use(t, n) \/ Close(t, n) \/ \E c \in {"read", "write"} : Transfer(t, c, n)
  \/ Acquire(t) \/ ReadBody(t) \/ WriteBody(t) \/ OpenBody(t) \/ Fault(t) \/ Release(t)
  \/ FileClose(t) \/ ExitLoop(t)

LEMMA NextMoves == Next <=> \E t \in Thread : Moves(t)
  BY DEF Next, UserStep, Step, Moves

-----------------------------------------------------------------------------
(***************************************************************************)
(* Types.                                                                  *)
(***************************************************************************)

LEMMA GotoType ==
  ASSUME TypeOK, NEW t \in Thread, NEW l \in Label, Goto(t, l)
  PROVE  pc' \in [Thread -> Label]
  BY DEF TypeOK, Goto

LEMMA LeaveType ==
  ASSUME TypeOK, NEW t \in Thread, NEW l \in Label, Leave(t, l)
  PROVE  /\ pc' \in [Thread -> Label]
         /\ name' \in [Thread -> {"none", "open", "read", "write"}]
         /\ arg' \in [Thread -> Fd \union {0}]
         /\ path' \in [Thread -> File \union {None}]
  BY GotoType DEF TypeOK, Leave

LEMMA TakeEntryType ==
  ASSUME TypeOK, NEW t \in Thread, NEW n \in Slot, TakeEntry(t, n)
  PROVE  /\ fd' \in [Thread -> [Slot -> Handle \union {None}]]
         /\ fp' \in [Thread -> Handle \union {None}]
         /\ pc' \in [Thread -> Label]
<1>1. "close" \in Label
  BY DEF Label
<1>2. Goto(t, "close")
  BY DEF TakeEntry
<1>3. pc' \in [Thread -> Label]
  BY <1>1, <1>2, GotoType
<1>4. fd[t][n] \in Handle \union {None}
  BY DEF TypeOK
<1> QED
  BY <1>3, <1>4 DEF TakeEntry, TypeOK

\* A call of open() fills an entry that is not in use, or changes no descriptor.
LEMMA OpenBodyCases ==
  ASSUME NEW t \in Thread, OpenBody(t)
  PROVE  \/ UNCHANGED <<fd, file>>
         \/ \E h \in Free :
              /\ file' = [file EXCEPT ![h] = path[t]]
              /\ UNCHANGED fd
              /\ Unused(t) = {}
         \/ \E h \in Free, n \in Slot :
              /\ file' = [file EXCEPT ![h] = path[t]]
              /\ fd' = [fd EXCEPT ![t][n] = h]
              /\ fd[t][n] = None
  BY DEF OpenBody, First, Unused, Used

\* exit() and close() take an entry that is in use.
LEMMA ExitLoopCases ==
  ASSUME NEW t \in Thread, ExitLoop(t)
  PROVE  \/ UNCHANGED <<fd, fp>>
         \/ \E n \in Slot : TakeEntry(t, n) /\ fd[t][n] # None
  BY DEF ExitLoop, First, Used
LEMMA CloseCases ==
  ASSUME NEW t \in Thread, NEW n \in Fd, Close(t, n)
  PROVE  \/ UNCHANGED <<fd, fp>>
         \/ n \in Slot /\ TakeEntry(t, n) /\ fd[t][n] # None
  BY DEF Close, Unopened

LEMMA TypeInit == Init => TypeOK
<1> SUFFICES ASSUME Init PROVE TypeOK
  OBVIOUS
<1>1. NoTable \in [Slot -> Handle \union {None}]
  BY DEF NoTable
<1>2. fd \in [Thread -> [Slot -> Handle \union {None}]]
  BY <1>1 DEF Init
<1>3. /\ file \in [Handle -> File \union {None}]
      /\ fp \in [Thread -> Handle \union {None}]
      /\ lock \in Thread \union {None}
      /\ path \in [Thread -> File \union {None}]
  BY DEF Init
<1>4. /\ pc \in [Thread -> Label]
      /\ name \in [Thread -> {"none", "open", "read", "write"}]
      /\ arg \in [Thread -> Fd \union {0}]
      /\ ret \in [Thread -> {"user", "exit"}]
      /\ panic \in BOOLEAN
  BY DEF Init, Label
<1> QED
  BY <1>2, <1>3, <1>4 DEF TypeOK

LEMMA TypeStep ==
  ASSUME TypeOK, NEW t \in Thread, Moves(t)
  PROVE  TypeOK'
<1> USE DEF callVars
<1>1. /\ fd \in [Thread -> [Slot -> Handle \union {None}]]
      /\ file \in [Handle -> File \union {None}]
      /\ lock \in Thread \union {None}
      /\ pc \in [Thread -> Label]
      /\ name \in [Thread -> {"none", "open", "read", "write"}]
      /\ arg \in [Thread -> Fd \union {0}]
      /\ path \in [Thread -> File \union {None}]
      /\ fp \in [Thread -> Handle \union {None}]
      /\ ret \in [Thread -> {"user", "exit"}]
      /\ panic \in BOOLEAN
  BY DEF TypeOK
<1>2. {"user", "acquire", "body", "release", "close", "exit", "dead"} \subseteq Label
  BY DEF Label
<1>3. CASE Start(t)
  BY <1>1, <1>2, <1>3 DEF Start, Goto, NoTable, TypeOK
<1>4. CASE Exit(t)
  BY <1>1, <1>2, <1>4 DEF Exit, Goto, TypeOK
<1>5. ASSUME NEW f \in File, Exec(t, f) PROVE TypeOK'
  BY <1>1, <1>5 DEF Exec, Free, TypeOK
<1>6. ASSUME NEW f \in File, Open(t, f) PROVE TypeOK'
  BY <1>1, <1>2, <1>6 DEF Open, Goto, TypeOK
<1>7. ASSUME NEW n \in Fd, Use(t, n) PROVE TypeOK'
  BY <1>1, <1>2, <1>7 DEF Use, Goto, TypeOK
<1>8. ASSUME NEW n \in Fd, Close(t, n) PROVE TypeOK'
  <2>1. CASE Unopened(t, n)
    BY <1>1, <1>2, <1>8, <2>1 DEF Close, Goto, TypeOK
  <2>2. CASE ~ Unopened(t, n)
    <3>1. TakeEntry(t, n) /\ n \in Slot
      BY <1>8, <2>2 DEF Close, Unopened
    <3> QED
      BY <1>1, <1>8, <2>2, <3>1, TakeEntryType DEF Close, TypeOK
  <2> QED
    BY <2>1, <2>2
<1>9. ASSUME NEW n \in Fd, NEW c \in {"read", "write"}, Transfer(t, c, n) PROVE TypeOK'
  BY <1>1, <1>2, <1>9 DEF Transfer, Goto, TypeOK
<1>10. CASE Acquire(t)
  BY <1>1, <1>2, <1>10 DEF Acquire, Goto, TypeOK
<1>11. CASE ReadBody(t)
  BY <1>1, <1>2, <1>11, LeaveType DEF ReadBody, TypeOK
<1>12. CASE WriteBody(t)
  BY <1>1, <1>2, <1>12, LeaveType DEF WriteBody, TypeOK
<1>13. CASE OpenBody(t)
  <2>1. /\ Leave(t, "release")
        /\ UNCHANGED <<lock, fp, ret, panic>>
    BY <1>13 DEF OpenBody
  <2>2. path[t] \in File \union {None}
    BY <1>1
  <2>3. /\ fd' \in [Thread -> [Slot -> Handle \union {None}]]
        /\ file' \in [Handle -> File \union {None}]
    <3>1. CASE UNCHANGED <<fd, file>>
      BY <1>1, <3>1
    <3>2. ASSUME NEW h \in Free, file' = [file EXCEPT ![h] = path[t]], UNCHANGED fd
          PROVE  /\ fd' \in [Thread -> [Slot -> Handle \union {None}]]
                 /\ file' \in [Handle -> File \union {None}]
      BY <1>1, <2>2, <3>2
    <3>3. ASSUME NEW h \in Free, NEW n \in Slot,
                 file' = [file EXCEPT ![h] = path[t]], fd' = [fd EXCEPT ![t][n] = h]
          PROVE  /\ fd' \in [Thread -> [Slot -> Handle \union {None}]]
                 /\ file' \in [Handle -> File \union {None}]
      <4>1. h \in Handle
        BY <3>3 DEF Free
      <4> QED
        BY <1>1, <2>2, <3>3, <4>1
    <3> QED
      BY <1>13, <3>1, <3>2, <3>3, OpenBodyCases
  <2> QED
    BY <1>1, <1>2, <2>1, <2>3, LeaveType DEF TypeOK
<1>14. CASE Fault(t)
  BY <1>1, <1>2, <1>14, LeaveType DEF Fault, TypeOK
<1>15. CASE Release(t)
  BY <1>1, <1>2, <1>15 DEF Release, Goto, TypeOK
<1>16. CASE FileClose(t)
  <2>1. ret[t] \in Label
    BY <1>1, <1>2
  <2> QED
    BY <1>1, <1>2, <1>16, <2>1 DEF FileClose, Goto, TypeOK
<1>17. CASE ExitLoop(t)
  <2>1. CASE Used(t) = {} /\ Goto(t, "dead") /\ UNCHANGED <<fd, fp, ret>>
    BY <1>1, <1>2, <1>17, <2>1 DEF ExitLoop, Goto, TypeOK
  <2>2. ASSUME NEW n \in Slot, TakeEntry(t, n), ret' = [ret EXCEPT ![t] = "exit"] PROVE TypeOK'
    BY <1>1, <1>17, <2>2, TakeEntryType DEF ExitLoop, TypeOK
  <2> QED
    BY <1>17, <2>1, <2>2 DEF ExitLoop
<1>18. CASE Kill(t)
  BY <1>1, <1>2, <1>18 DEF Kill, Goto, NoTable, TypeOK
<1> QED
  BY <1>3, <1>4, <1>5, <1>6, <1>7, <1>8, <1>9, <1>10, <1>11, <1>12, <1>13, <1>14, <1>15,
     <1>16, <1>17, <1>18 DEF Moves

LEMMA TypeStutter == TypeOK /\ UNCHANGED vars => TypeOK'
  BY DEF TypeOK, vars, callVars

\* Every variable of every process stays what its C type says: in particular
\* descriptors and `fp' always are NULL or the address of a struct file.
THEOREM TypeCorrect == Spec => []TypeOK
<1>1. TypeOK /\ [Next]_vars => TypeOK'
  BY TypeStep, TypeStutter, NextMoves
<1> QED
  BY <1>1, TypeInit, PTL DEF Spec

-----------------------------------------------------------------------------
(***************************************************************************)
(* Struct files.                                                           *)
(***************************************************************************)

\* Steps that touch neither descriptors nor struct files.
LEMMA OwnSame ==
  ASSUME OwnFile, UNCHANGED <<fd, file, fp>>
  PROVE  OwnFile'
  BY DEF OwnFile, InTable, InClose, Free

\* An entry moves from the table to `fp'.
LEMMA OwnTakeEntry ==
  ASSUME TypeOK, OwnFile, NEW t \in Thread, NEW n \in Slot, fd[t][n] # None,
         TakeEntry(t, n), UNCHANGED file
  PROVE  OwnFile'
<1>1. /\ fd \in [Thread -> [Slot -> Handle \union {None}]]
      /\ fp \in [Thread -> Handle \union {None}]
  BY DEF TypeOK
<1>2. \A u \in Thread, m \in Slot :
        fd'[u][m] = IF u = t /\ m = n THEN None ELSE fd[u][m]
  BY <1>1 DEF TakeEntry
<1>3. \A u \in Thread : fp'[u] = IF u = t THEN fd[t][n] ELSE fp[u]
  BY <1>1 DEF TakeEntry
<1>4. \A u, v \in Thread, m, k \in Slot :
        fd'[u][m] = fd'[v][k] /\ fd'[u][m] # None => u = v /\ m = k
  BY <1>2 DEF OwnFile
<1>5. fd[t][n] \in Handle
  BY <1>1
<1>6. \A u \in Thread : fp[u] # fd[t][n]
  BY <1>5 DEF OwnFile, InTable, InClose
<1>7. \A u, v \in Thread : fp'[u] = fp'[v] /\ fp'[u] # None => u = v
  BY <1>3, <1>6 DEF OwnFile
<1>8. ASSUME NEW h \in Handle, InTable(h)', InClose(h)' PROVE FALSE
  <2>1. PICK u \in Thread, m \in Slot : fd'[u][m] = h
    BY <1>8 DEF InTable
  <2>2. PICK v \in Thread : fp'[v] = h
    BY <1>8 DEF InClose
  <2>3. h # None
    BY SyscallAssumption
  <2>4. fd[u][m] = h /\ ~ (u = t /\ m = n)
    BY <1>2, <2>1, <2>3
  <2>5. CASE v = t
    BY <1>3, <2>2, <2>3, <2>4, <2>5 DEF OwnFile
  <2>6. CASE v # t
    BY <1>3, <2>2, <2>4, <2>6 DEF OwnFile, InTable, InClose
  <2> QED
    BY <2>5, <2>6
<1>9. ASSUME NEW h \in Free' PROVE ~ InTable(h)' /\ ~ InClose(h)'
  <2>1. h \in Free /\ h \in Handle
    BY DEF Free
  <2>2. h # None
    BY <2>1, SyscallAssumption
  <2> QED
    BY <1>2, <1>3, <2>1, <2>2 DEF OwnFile, InTable, InClose
<1> QED
  BY <1>4, <1>7, <1>8, <1>9 DEF OwnFile

\* A struct file is allocated, for an entry or to be forgotten.
LEMMA OwnOpen ==
  ASSUME TypeOK, OwnFile, NEW t \in Thread, NEW h \in Free, NEW f,
         file' = [file EXCEPT ![h] = f], UNCHANGED fp,
         \/ UNCHANGED fd
         \/ \E n \in Slot : fd[t][n] = None /\ fd' = [fd EXCEPT ![t][n] = h] /\ f # None
  PROVE  OwnFile'
<1>1. /\ fd \in [Thread -> [Slot -> Handle \union {None}]]
      /\ fp \in [Thread -> Handle \union {None}]
      /\ file \in [Handle -> File \union {None}]
  BY DEF TypeOK
<1>2. h \in Handle /\ h # None /\ ~ InTable(h) /\ ~ InClose(h)
  BY SyscallAssumption DEF Free, OwnFile
<1>3. CASE UNCHANGED fd
  <2>1. Free' \subseteq Free
    BY <1>1, <1>2 DEF Free
  <2> QED
    BY <1>3, <2>1 DEF OwnFile, InTable, InClose
<1>4. ASSUME NEW n \in Slot, fd[t][n] = None, fd' = [fd EXCEPT ![t][n] = h], f # None
      PROVE  OwnFile'
  <2>1. \A u \in Thread, m \in Slot :
          fd'[u][m] = IF u = t /\ m = n THEN h ELSE fd[u][m]
    BY <1>1, <1>4
  <2>2. Free' \subseteq Free \ {h}
    BY <1>1, <1>2, <1>4 DEF Free
  <2>3. \A u \in Thread, m \in Slot : fd[u][m] # h
    BY <1>2 DEF InTable
  <2>4. \A u, v \in Thread, m, k \in Slot :
          fd'[u][m] = fd'[v][k] /\ fd'[u][m] # None => u = v /\ m = k
    BY <2>1, <2>3 DEF OwnFile
  <2>5. \A g \in Handle : InTable(g)' => g = h \/ InTable(g)
    BY <2>1 DEF InTable
  <2>6. \A g \in Handle : InClose(g)' <=> InClose(g)
    BY DEF InClose
  <2>7. \A g \in Handle : ~ (InTable(g)' /\ InClose(g)')
    BY <1>2, <2>5, <2>6 DEF OwnFile
  <2>8. \A g \in Free' : ~ InTable(g)' /\ ~ InClose(g)'
    BY <2>2, <2>5, <2>6 DEF OwnFile, Free
  <2>9. \A u, v \in Thread : fp'[u] = fp'[v] /\ fp'[u] # None => u = v
    BY DEF OwnFile
  <2> QED
    BY <2>4, <2>7, <2>8, <2>9 DEF OwnFile
<1> QED
  BY <1>3, <1>4

LEMMA OwnFileClose ==
  ASSUME TypeOK, OwnFile, NEW t \in Thread, FileClose(t)
  PROVE  OwnFile'
<1>1. /\ file \in [Handle -> File \union {None}]
      /\ fp \in [Thread -> Handle \union {None}]
  BY DEF TypeOK
<1>2. \A u \in Thread : fp'[u] = IF u = t THEN None ELSE fp[u]
  BY <1>1 DEF FileClose
<1>3. UNCHANGED fd
  BY DEF FileClose
<1>4. \A h \in Free' : h \in Free \/ h = fp[t]
  BY <1>1 DEF FileClose, Free
<1>5. \A u, v \in Thread : fp'[u] = fp'[v] /\ fp'[u] # None => u = v
  BY <1>2 DEF OwnFile
<1>6. \A h \in Handle : InTable(h)' <=> InTable(h)
  BY <1>3 DEF InTable
<1>7. \A h \in Handle : InClose(h)' => InClose(h) /\ h # fp[t]
  BY <1>2, SyscallAssumption DEF InClose, OwnFile
<1>8. ASSUME NEW h \in Free' PROVE ~ InTable(h)' /\ ~ InClose(h)'
  <2>1. h \in Handle
    BY DEF Free
  <2>2. CASE h \in Free
    BY <1>6, <1>7, <2>1, <2>2 DEF OwnFile
  <2>3. CASE h = fp[t]
    <3>1. InClose(h)
      BY <2>3 DEF InClose
    <3> QED
      BY <1>6, <1>7, <2>1, <2>3, <3>1 DEF OwnFile
  <2> QED
    BY <1>4, <2>2, <2>3
<1> QED
  BY <1>3, <1>5, <1>6, <1>7, <1>8 DEF OwnFile

\* A table is forgotten: of a new process, or of one that is killed.
LEMMA OwnForget ==
  ASSUME TypeOK, OwnFile, NEW t \in Thread, Start(t) \/ Kill(t)
  PROVE  OwnFile'
<1>1. \A u \in Thread, m \in Slot : fd'[u][m] = IF u = t THEN None ELSE fd[u][m]
  BY DEF TypeOK, Start, Kill, NoTable
<1>2. UNCHANGED <<file, fp>>
  BY DEF Start, Kill
<1>3. \A h \in Handle : InTable(h)' => InTable(h)
  BY <1>1, SyscallAssumption DEF InTable
<1> QED
  BY <1>1, <1>2, <1>3 DEF OwnFile, InClose, Free

-----------------------------------------------------------------------------
(***************************************************************************)
(* What is known of a process where it stands, and the invariant.          *)
(***************************************************************************)

\* open() has a file to open; a page without a process has no open files; only
\* close() uses `fp'.
PcInv ==
  \A t \in Thread :
    /\ name[t] = "open" => path[t] \in File
    /\ pc[t] = "dead" => \A n \in Slot : fd[t][n] = None
    /\ pc[t] # "close" => fp[t] = None

Inv == TypeOK /\ OwnFile /\ Exclusive /\ PcInv

\* A process changes its own state only.
LEMMA Local ==
  ASSUME TypeOK, NEW t \in Thread, Moves(t), NEW u \in Thread, u # t
  PROVE  /\ fd'[u] = fd[u]
         /\ pc'[u] = pc[u]
         /\ name'[u] = name[u]
         /\ path'[u] = path[u]
         /\ fp'[u] = fp[u]
<1> USE DEF callVars, Goto
<1>1. /\ DOMAIN fd = Thread /\ DOMAIN pc = Thread /\ DOMAIN name = Thread
      /\ DOMAIN path = Thread /\ DOMAIN fp = Thread
  BY DEF TypeOK
<1>2. CASE Start(t)
  BY <1>1, <1>2 DEF Start
<1>3. CASE Exit(t)
  BY <1>1, <1>3 DEF Exit
<1>4. CASE \E f \in File : Exec(t, f)
  BY <1>1, <1>4 DEF Exec
<1>5. CASE \E f \in File : Open(t, f)
  BY <1>1, <1>5 DEF Open
<1>6. CASE \E n \in Fd : Use(t, n)
  BY <1>1, <1>6 DEF Use
<1>7. CASE \E n \in Fd : Close(t, n)
  BY <1>1, <1>7 DEF Close, TakeEntry
<1>8. CASE \E n \in Fd, c \in {"read", "write"} : Transfer(t, c, n)
  BY <1>1, <1>8 DEF Transfer
<1>9. CASE Acquire(t)
  BY <1>1, <1>9 DEF Acquire
<1>10. CASE ReadBody(t)
  BY <1>1, <1>10 DEF ReadBody, Leave
<1>11. CASE WriteBody(t)
  BY <1>1, <1>11 DEF WriteBody, Leave
<1>12. CASE OpenBody(t)
  <2>1. fd'[u] = fd[u]
    BY <1>1, <1>12, OpenBodyCases
  <2> QED
    BY <1>1, <1>12, <2>1 DEF OpenBody, Leave
<1>13. CASE Fault(t)
  BY <1>1, <1>13 DEF Fault, Leave
<1>14. CASE Release(t)
  BY <1>1, <1>14 DEF Release
<1>15. CASE FileClose(t)
  BY <1>1, <1>15 DEF FileClose
<1>16. CASE ExitLoop(t)
  BY <1>1, <1>16 DEF ExitLoop, TakeEntry
<1>17. CASE Kill(t)
  BY <1>1, <1>17 DEF Kill
<1> QED
  BY <1>2, <1>3, <1>4, <1>5, <1>6, <1>7, <1>8, <1>9, <1>10, <1>11, <1>12, <1>13, <1>14,
     <1>15, <1>16, <1>17 DEF Moves

LEMMA PcStep ==
  ASSUME Inv, NEW t \in Thread, Moves(t)
  PROVE  PcInv'
<1> USE DEF callVars, Goto
<1> DEFINE P(u) == /\ name[u] = "open" => path[u] \in File
                   /\ pc[u] = "dead" => \A n \in Slot : fd[u][n] = None
                   /\ pc[u] # "close" => fp[u] = None
<1>1. /\ fd \in [Thread -> [Slot -> Handle \union {None}]]
      /\ DOMAIN pc = Thread /\ DOMAIN name = Thread
      /\ DOMAIN path = Thread /\ DOMAIN fp = Thread
      /\ ret[t] \in {"user", "exit"}
  BY DEF Inv, TypeOK
<1>2. \A u \in Thread : P(u)
  BY DEF Inv, PcInv
<1>3. ASSUME NEW u \in Thread, u # t PROVE P(u)'
  <2>1. P(u)
    BY <1>2
  <2> QED
    BY <1>3, <2>1, Local DEF Inv
<1>4. P(t)'
  <2>1. P(t)
    BY <1>2
  <2>2. CASE Start(t)
    BY <1>1, <2>1, <2>2 DEF Start, At
  <2>3. CASE Exit(t)
    BY <1>1, <2>1, <2>3 DEF Exit, At
  <2>4. CASE \E f \in File : Exec(t, f)
    BY <1>1, <2>1, <2>4 DEF Exec
  <2>5. CASE \E f \in File : Open(t, f)
    BY <1>1, <2>1, <2>5 DEF Open, At
  <2>6. CASE \E n \in Fd : Use(t, n)
    BY <1>1, <2>1, <2>6 DEF Use, At
  <2>7. CASE \E n \in Fd : Close(t, n)
    BY <1>1, <2>1, <2>7 DEF Close, TakeEntry, At
  <2>8. CASE \E n \in Fd, c \in {"read", "write"} : Transfer(t, c, n)
    BY <1>1, <2>1, <2>8 DEF Transfer, At
  <2>9. CASE Acquire(t)
    BY <1>1, <2>1, <2>9 DEF Acquire, At
  <2>10. CASE ReadBody(t)
    BY <1>1, <2>1, <2>10 DEF ReadBody, Leave, At
  <2>11. CASE WriteBody(t)
    BY <1>1, <2>1, <2>11 DEF WriteBody, Leave, At
  <2>12. CASE OpenBody(t)
    <3>1. /\ Leave(t, "release") /\ pc[t] = "body" /\ UNCHANGED fp
      BY <2>12 DEF OpenBody, At
    <3> QED
      BY <1>1, <2>1, <3>1 DEF Leave
  <2>13. CASE Fault(t)
    BY <1>1, <2>1, <2>13 DEF Fault, Leave, At
  <2>14. CASE Release(t)
    BY <1>1, <2>1, <2>14 DEF Release, At
  <2>15. CASE FileClose(t)
    BY <1>1, <2>1, <2>15 DEF FileClose, At
  <2>16. CASE ExitLoop(t)
    BY <1>1, <2>1, <2>16 DEF ExitLoop, TakeEntry, At, Used
  <2>17. CASE Kill(t)
    BY <1>1, <2>1, <2>17 DEF Kill, NoTable, At
  <2> QED
    BY <2>2, <2>3, <2>4, <2>5, <2>6, <2>7, <2>8, <2>9, <2>10, <2>11, <2>12, <2>13, <2>14,
       <2>15, <2>16, <2>17 DEF Moves
<1> QED
  BY <1>3, <1>4 DEF PcInv

\* Who is between lock_acquire() and lock_release() is the holder, and so alone.
LEMMA ExclusiveStep ==
  ASSUME Inv, NEW t \in Thread, Moves(t)
  PROVE  Exclusive'
<1> USE DEF callVars, Goto
<1>1. /\ DOMAIN pc = Thread
      /\ ret[t] \in {"user", "exit"}
      /\ None \notin Thread
  BY SyscallAssumption DEF Inv, TypeOK
<1>2. \A u \in Thread : pc[u] \in {"body", "release"} => lock = u
  BY DEF Inv, Exclusive
<1>3. \A u \in Thread \ {t} : pc'[u] = pc[u]
  BY Local DEF Inv
<1>4. CASE /\ pc[t] \in {"body", "release"} \/ pc'[t] \notin {"body", "release"}
           /\ UNCHANGED lock
  BY <1>2, <1>3, <1>4 DEF Exclusive
<1>5. CASE /\ pc[t] \in {"body", "release"} /\ pc'[t] \notin {"body", "release"}
  BY <1>2, <1>3, <1>5 DEF Exclusive
<1>6. CASE Start(t) \/ Exit(t) \/ Kill(t) \/ \E f \in File : Exec(t, f) \/ Open(t, f)
  BY <1>1, <1>4, <1>6 DEF Start, Exit, Kill, Exec, Open, At
<1>7. CASE \E n \in Fd : Use(t, n) \/ Close(t, n) \/ \E c \in {"read", "write"} : Transfer(t, c, n)
  BY <1>1, <1>4, <1>7 DEF Use, Close, TakeEntry, Transfer, At
<1>8. CASE Acquire(t)
  BY <1>1, <1>2, <1>3, <1>8 DEF Acquire, Exclusive, At
<1>9. CASE ReadBody(t)
  BY <1>1, <1>4, <1>9 DEF ReadBody, At
<1>10. CASE WriteBody(t)
  BY <1>1, <1>4, <1>5, <1>10 DEF WriteBody, Leave, At
<1>11. CASE OpenBody(t)
  BY <1>4, <1>11 DEF OpenBody, At
<1>12. CASE Fault(t)
  BY <1>4, <1>12 DEF Fault, At
<1>13. CASE Release(t)
  BY <1>1, <1>5, <1>13 DEF Release, At
<1>14. CASE FileClose(t)
  BY <1>1, <1>4, <1>14 DEF FileClose
<1>15. CASE ExitLoop(t)
  BY <1>1, <1>4, <1>15 DEF ExitLoop, TakeEntry
<1> QED
  BY <1>6, <1>7, <1>8, <1>9, <1>10, <1>11, <1>12, <1>13, <1>14, <1>15 DEF Moves

LEMMA OwnStep ==
  ASSUME Inv, NEW t \in Thread, Moves(t)
  PROVE  OwnFile'
<1> USE DEF Inv, callVars
<1>1. CASE UNCHANGED <<fd, file, fp>>
  BY <1>1, OwnSame
<1>2. CASE Start(t) \/ Kill(t)
  BY <1>2, OwnForget
<1>3. CASE \E f \in File : Exec(t, f)
  BY <1>3, OwnOpen DEF Exec
<1>4. CASE \E n \in Fd : Close(t, n)
  <2>1. PICK n \in Fd : Close(t, n)
    BY <1>4
  <2>2. UNCHANGED file
    BY <2>1 DEF Close
  <2> QED
    BY <1>1, <2>1, <2>2, CloseCases, OwnTakeEntry
<1>5. CASE OpenBody(t)
  <2>1. path[t] # None
    BY <1>5, SyscallAssumption DEF OpenBody, PcInv
  <2>2. UNCHANGED fp
    BY <1>5 DEF OpenBody
  <2>3. CASE UNCHANGED <<fd, file>>
    BY <1>1, <2>2, <2>3
  <2>4. ASSUME NEW h \in Free, file' = [file EXCEPT ![h] = path[t]],
               \/ UNCHANGED fd
               \/ \E n \in Slot : fd[t][n] = None /\ fd' = [fd EXCEPT ![t][n] = h]
        PROVE  OwnFile'
    BY <2>1, <2>2, <2>4, OwnOpen
  <2> QED
    BY <1>5, <2>3, <2>4, OpenBodyCases
<1>6. CASE FileClose(t)
  BY <1>6, OwnFileClose
<1>7. CASE ExitLoop(t)
  <2>1. UNCHANGED file
    BY <1>7 DEF ExitLoop
  <2> QED
    BY <1>1, <1>7, <2>1, ExitLoopCases, OwnTakeEntry
<1>8. CASE \/ Exit(t) \/ Acquire(t) \/ ReadBody(t) \/ WriteBody(t) \/ Fault(t) \/ Release(t)
           \/ \E f \in File : Open(t, f)
           \/ \E n \in Fd : Use(t, n) \/ \E c \in {"read", "write"} : Transfer(t, c, n)
  BY <1>1, <1>8 DEF Exit, Acquire, ReadBody, WriteBody, Fault, Release, Open, Use, Transfer
<1> QED
  BY <1>2, <1>3, <1>4, <1>5, <1>6, <1>7, <1>8 DEF Moves

LEMMA InvInit == Init => Inv
<1> SUFFICES ASSUME Init PROVE Inv
  OBVIOUS
<1>1. TypeOK
  BY TypeInit
<1>2. \A t \in Thread, n \in Slot : fd[t][n] = None
  BY DEF Init, NoTable
<1>3. \A t \in Thread : fp[t] = None /\ pc[t] = "dead" /\ name[t] = "none"
  BY DEF Init
<1>4. OwnFile
  BY <1>2, <1>3, SyscallAssumption DEF OwnFile, InTable, InClose, Free
<1> QED
  BY <1>1, <1>2, <1>3, <1>4 DEF Inv, Exclusive, PcInv

LEMMA InvStutter == Inv /\ UNCHANGED vars => Inv'
<1> SUFFICES ASSUME Inv, UNCHANGED vars PROVE Inv'
  OBVIOUS
<1>1. UNCHANGED <<fd, file, lock, pc, name, path, fp>>
  BY DEF vars, callVars
<1> QED
  BY <1>1, TypeStutter, OwnSame DEF Inv, Exclusive, PcInv

LEMMA InvNext == Inv /\ [Next]_vars => Inv'
<1>1. ASSUME Inv, NEW t \in Thread, Moves(t) PROVE Inv'
  BY <1>1, TypeStep, OwnStep, ExclusiveStep, PcStep DEF Inv
<1> QED
  BY <1>1, InvStutter, NextMoves

\* The invariant is inductive: the descriptors of all processes, `fp' of those
\* in close(), and the memory of struct files stay in step.
THEOREM Invariance == Spec => []Inv
  BY InvInit, InvNext, PTL DEF Spec

\* open(), close(), exit(): no struct file is pointed to from two places or
\* after it has been freed, however the calls of processes interleave.
THEOREM FilesOwned == Spec => []OwnFile
<1>1. Inv => OwnFile
  BY DEF Inv
<1> QED
  BY <1>1, Invariance, PTL

\* filesys_lock: between lock_acquire() and lock_release() there is its holder only.
THEOREM LockExcludes == Spec => []Exclusive
<1>1. Inv => Exclusive
  BY DEF Inv
<1> QED
  BY <1>1, Invariance, PTL

-----------------------------------------------------------------------------
(***************************************************************************)
(* What a step may not do.                                                 *)
(***************************************************************************)

\* The struct files of descriptors other than the one that is taken are left alone.
LEMMA KeepsFiles ==
  ASSUME Inv, NEW t \in Thread, Moves(t), NEW u \in Thread, NEW n \in Slot, fd[u][n] # None
  PROVE  file'[fd[u][n]] = file[fd[u][n]]
<1>1. /\ DOMAIN file = Handle
      /\ fd[u][n] \in Handle
  BY DEF Inv, TypeOK
<1>2. CASE UNCHANGED file
  BY <1>2
<1>3. ASSUME NEW h \in Free, NEW f, file' = [file EXCEPT ![h] = f]
      PROVE  file'[fd[u][n]] = file[fd[u][n]]
  <2>1. fd[u][n] # h
    BY <1>3 DEF Inv, OwnFile, InTable
  <2> QED
    BY <1>1, <1>3, <2>1
<1>4. CASE \E f \in File : Exec(t, f)
  BY <1>3, <1>4 DEF Exec
<1>5. CASE OpenBody(t)
  BY <1>2, <1>3, <1>5 DEF OpenBody
<1>6. CASE FileClose(t)
  <2>1. fd[u][n] # fp[t]
    BY <1>1 DEF Inv, OwnFile, InTable, InClose
  <2> QED
    BY <1>1, <1>6, <2>1 DEF FileClose
<1>7. CASE \/ Start(t) \/ Exit(t) \/ Kill(t) \/ Acquire(t) \/ ReadBody(t) \/ WriteBody(t) \/ Fault(t)
           \/ Release(t) \/ ExitLoop(t)
           \/ \E f \in File : Open(t, f)
           \/ \E n1 \in Fd : Use(t, n1) \/ Close(t, n1) \/ \E c \in {"read", "write"} : Transfer(t, c, n1)
  BY <1>2, <1>7 DEF Start, Exit, Kill, Acquire, ReadBody, WriteBody, Fault, Release, ExitLoop, Open, Use,
     Close, Transfer
<1> QED
  BY <1>4, <1>5, <1>6, <1>7 DEF Moves

\* An entry in use is changed by close() and exit(), which take it, and by kill().
LEMMA KeepsEntries ==
  ASSUME Inv, NEW t \in Thread, Moves(t), NEW u \in Thread, NEW n \in Slot,
         fd[u][n] # None, fd'[u][n] # fd[u][n]
  PROVE  u = t /\ ((TakeEntry(t, n) /\ pc[t] \in {"user", "exit"}) \/ Kill(t))
<1>1. fd \in [Thread -> [Slot -> Handle \union {None}]]
  BY DEF Inv, TypeOK
<1>2. u = t
  BY Local DEF Inv
<1>3. CASE Start(t)
  BY <1>2, <1>3 DEF Start, At, Inv, PcInv
<1>4. CASE \E m \in Fd : Close(t, m)
  <2>1. PICK m \in Fd : Close(t, m)
    BY <1>4
  <2>2. m \in Slot /\ TakeEntry(t, m)
    BY <2>1, CloseCases
  <2>3. m = n
    BY <1>1, <1>2, <2>2 DEF TakeEntry
  <2> QED
    BY <1>2, <2>1, <2>2, <2>3 DEF Close, At
<1>5. CASE OpenBody(t)
  BY <1>1, <1>2, <1>5, OpenBodyCases
<1>6. CASE ExitLoop(t)
  <2>1. PICK m \in Slot : TakeEntry(t, m)
    BY <1>6, ExitLoopCases
  <2>2. m = n
    BY <1>1, <1>2, <2>1 DEF TakeEntry
  <2> QED
    BY <1>2, <1>6, <2>1, <2>2 DEF ExitLoop, At
<1>7. CASE UNCHANGED fd
  BY <1>7
<1>8. CASE \/ Exit(t) \/ Acquire(t) \/ ReadBody(t) \/ WriteBody(t) \/ Fault(t)
           \/ Release(t) \/ FileClose(t)
           \/ \E f \in File : Exec(t, f) \/ Open(t, f)
           \/ \E n1 \in Fd : Use(t, n1) \/ \E c \in {"read", "write"} : Transfer(t, c, n1)
  BY <1>7, <1>8 DEF Exit, Acquire, ReadBody, WriteBody, Fault, Release, FileClose, Exec, Open, Use,
     Transfer
<1> QED
  BY <1>2, <1>3, <1>4, <1>5, <1>6, <1>8 DEF Moves

\* open(), close(), exit(), kill(): a descriptor stands for its file until its own
\* process closes it or is killed, for any number of processes.
THEOREM DescriptorsStable == Spec => DescriptorStable
<1> DEFINE Stable ==
      \A t \in Thread, n \in Slot :
        fd[t][n] # None /\ ~ (fd'[t][n] # None /\ file'[fd'[t][n]] = file[fd[t][n]]) =>
          \/ pc[t] \in {"user", "exit"} /\ pc'[t] = "close"
          \/ Kill(t)
<1>1. ASSUME Inv, NEW t \in Thread, Moves(t) PROVE Stable
  <2> SUFFICES ASSUME NEW u \in Thread, NEW n \in Slot, fd[u][n] # None,
                      ~ (fd'[u][n] # None /\ file'[fd'[u][n]] = file[fd[u][n]])
               PROVE  (pc[u] \in {"user", "exit"} /\ pc'[u] = "close") \/ Kill(u)
    OBVIOUS
  <2>1. fd'[u][n] # fd[u][n]
    BY <1>1, KeepsFiles
  <2>2. u = t /\ ((TakeEntry(t, n) /\ pc[t] \in {"user", "exit"}) \/ Kill(t))
    BY <1>1, <2>1, KeepsEntries
  <2>3. DOMAIN pc = Thread
    BY <1>1 DEF Inv, TypeOK
  <2> QED
    BY <2>2, <2>3 DEF TakeEntry, Goto
<1>2. Inv /\ [Next]_vars => [Stable]_vars
  BY <1>1, NextMoves
<1> QED
  BY <1>2, Invariance, PTL DEF Spec, DescriptorStable

\* A struct file is lost where open() finds no entry for it, by exec(), and by kill(),
\* which goes past the loop of exit(): not by close(), nor by exit(), whose loop leaves
\* nothing open, nor when the page of a dead process is used again.
THEOREM LossesKnown == Spec => LostByOpenExecKill
<1> DEFINE Known ==
      \A h \in Handle : ~ Lost(h) /\ Lost(h)' =>
        \E t \in Thread :
          \/ h \in Free /\ At(t, "body") /\ name[t] = "open" /\ Unused(t) = {}
          \/ h \in Free /\ \E f \in File : Exec(t, f)
          \/ Kill(t) /\ \E n \in Slot : fd[t][n] = h
<1>1. ASSUME Inv, NEW t \in Thread, Moves(t) PROVE Known
  <2> SUFFICES ASSUME NEW h \in Handle, ~ Lost(h), Lost(h)',
                      ~ (h \in Free /\ At(t, "body") /\ name[t] = "open" /\ Unused(t) = {}),
                      ~ (h \in Free /\ \E f \in File : Exec(t, f)),
                      ~ (Kill(t) /\ \E n \in Slot : fd[t][n] = h)
               PROVE  FALSE
    OBVIOUS
  <2>1. /\ file'[h] # None
        /\ \A u \in Thread, n \in Slot : fd'[u][n] # h
        /\ \A u \in Thread : fp'[u] # h
    BY DEF Lost, InTable, InClose
  <2>2. h # None /\ DOMAIN file = Handle /\ DOMAIN fp = Thread
    BY <1>1, SyscallAssumption DEF Inv, TypeOK
  <2>3. CASE file[h] = None
    <3> h \in Free
      BY <2>3 DEF Free
    <3>1. CASE OpenBody(t)
      <4>1. PICK g \in Free, n \in Slot :
              file' = [file EXCEPT ![g] = path[t]] /\ fd' = [fd EXCEPT ![t][n] = g]
        BY <2>1, <2>3, <3>1, OpenBodyCases DEF OpenBody
      <4>2. g = h
        BY <2>1, <2>2, <2>3, <4>1
      <4>3. fd'[t][n] = g
        BY <1>1, <4>1 DEF Inv, TypeOK
      <4> QED
        BY <2>1, <4>2, <4>3
    <3>2. CASE FileClose(t)
      BY <2>1, <2>2, <2>3, <3>2 DEF FileClose
    <3>3. CASE UNCHANGED file
      BY <2>1, <2>3, <3>3
    <3>4. CASE \/ Start(t) \/ Exit(t) \/ Kill(t) \/ Acquire(t) \/ ReadBody(t) \/ WriteBody(t) \/ Fault(t)
               \/ Release(t) \/ ExitLoop(t)
               \/ \E f \in File : Open(t, f)
               \/ \E n \in Fd : Use(t, n) \/ Close(t, n) \/ \E c \in {"read", "write"} : Transfer(t, c, n)
      BY <3>3, <3>4 DEF Start, Exit, Kill, Acquire, ReadBody, WriteBody, Fault, Release, ExitLoop, Open,
         Use, Close, Transfer
    <3> QED
      BY <1>1, <3>1, <3>2, <3>4 DEF Moves
  <2>4. ASSUME NEW u \in Thread, NEW n \in Slot, fd[u][n] = h PROVE FALSE
    <3>1. u = t /\ TakeEntry(t, n)
      <4>1. fd[u][n] # None /\ fd'[u][n] # fd[u][n]
        BY <2>1, <2>2, <2>4
      <4>2. u = t /\ (TakeEntry(t, n) \/ Kill(t))
        BY <1>1, <4>1, KeepsEntries
      <4> QED
        BY <2>4, <4>2
    <3>2. fp'[t] = h
      BY <2>2, <2>4, <3>1 DEF TakeEntry
    <3> QED
      BY <2>1, <3>2
  <2>5. ASSUME NEW u \in Thread, fp[u] = h PROVE FALSE
    <3>1. u = t
      BY <1>1, <2>1, <2>5, Local DEF Inv
    <3>2. pc[t] = "close"
      BY <1>1, <2>2, <2>5, <3>1 DEF Inv, PcInv
    <3>3. CASE FileClose(t)
      BY <2>1, <2>2, <2>5, <3>1, <3>3 DEF FileClose
    <3>4. CASE ~ FileClose(t)
      BY <1>1, <3>2, <3>4, <2>1, <2>5, <3>1 DEF Moves, At, Start, Exit, Kill, Exec, Open, Use, Close, Transfer,
         Acquire, ReadBody, WriteBody, OpenBody, Fault, Release, ExitLoop
    <3> QED
      BY <3>3, <3>4
  <2> QED
    BY <2>3, <2>4, <2>5 DEF Lost, InTable, InClose
<1>2. Inv /\ [Next]_vars => [Known]_vars
  BY <1>1, NextMoves
<1> QED
  BY <1>2, Invariance, PTL DEF Spec, LostByOpenExecKill

\* filesys_lock: open() gives it back on every path, and write() unless the buffer
\* faults; only read() ends a process with the lock by itself.
THEOREM LockComesBack == Spec => LockGivenBack
<1> DEFINE Known == ~ LockLost /\ LockLost' =>
                      name[lock] = "read" \/ (name[lock] = "write" /\ Touched(lock))
<1>1. ASSUME Inv, NEW t \in Thread, Moves(t) PROVE Known
  <2> USE DEF callVars, Goto
  <2> SUFFICES ASSUME ~ LockLost, LockLost'
               PROVE  name[lock] = "read" \/ (name[lock] = "write" /\ Touched(lock))
    OBVIOUS
  <2>1. /\ DOMAIN pc = Thread
        /\ lock \in Thread \union {None}
        /\ lock' # None /\ pc'[lock'] \notin {"body", "release"}
        /\ lock # None => pc[lock] \in {"body", "release"}
    BY <1>1 DEF Inv, TypeOK, LockLost
  <2>2. \A u \in Thread \ {t} : pc'[u] = pc[u]
    BY <1>1, Local DEF Inv
  <2>3. ~ Acquire(t)
    BY <2>1, <2>2 DEF Acquire, At
  <2>4. lock' = lock
    BY <1>1, <2>1, <2>3 DEF Moves, Start, Exit, Kill, Exec, Open, Use, Close, Transfer, ReadBody, WriteBody,
       OpenBody, Fault, Release, FileClose, ExitLoop
  <2>5. /\ lock = t
        /\ pc[t] \in {"body", "release"}
        /\ pc'[t] \notin {"body", "release"}
    BY <2>1, <2>2, <2>4
  <2>6. CASE ReadBody(t)
    BY <2>5, <2>6 DEF ReadBody
  <2>7. CASE WriteBody(t)
    BY <2>1, <2>4, <2>5, <2>7 DEF WriteBody, Leave
  <2>8. CASE OpenBody(t)
    BY <2>1, <2>5, <2>8 DEF OpenBody, Leave
  <2>9. CASE Fault(t)
    BY <2>5, <2>9 DEF Fault, Touched
  <2>10. CASE Release(t)
    BY <2>1, <2>4, <2>10 DEF Release
  <2> QED
    BY <1>1, <2>1, <2>3, <2>5, <2>6, <2>7, <2>8, <2>9, <2>10 DEF Moves, At, Start, Exit, Kill, Exec, Open, Use,
       Close, Transfer, FileClose, ExitLoop
<1>2. Inv /\ [Next]_vars => [Known]_vars
  BY <1>1, NextMoves
<1> QED
  BY <1>2, Invariance, PTL DEF Spec, LockGivenBack
=============================================================================
