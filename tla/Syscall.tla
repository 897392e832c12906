------------------------------ MODULE Syscall -------------------------------
(***************************************************************************)
(* project4: the system calls on files, the table of descriptors of each   *)
(* process and filesys_lock, which open(), read() and write() hold while   *)
(* they are in the file system; the other calls do without.                *)
(*                                                                         *)
(* Processes are preempted anywhere.  A call into the file system, which   *)
(* is not in the repository, is one step, and so is the use of a           *)
(* descriptor's entry, which belongs to one process.  The struct file that *)
(* filesys_open() allocates is a member of Handle; what is read or written *)
(* is left out.                                                            *)
(***************************************************************************)
EXTENDS Integers

CONSTANTS
  Thread,   \* the pages a process's struct thread may live in
  None,     \* NULL
  File,     \* the files on disk
  Handle,   \* bound: the struct files there is memory for
  Last,     \* the descriptors of a process are 3 .. Last (127 in the code)
  Fd        \* the descriptors programs pass

ASSUME SyscallAssumption ==
  /\ None \notin Thread \union Handle \union File
  /\ Last \in Nat /\ Last >= 3
  /\ Fd \subseteq Nat

VARIABLES
  fd,       \* t->fd
  file,     \* the file each struct file refers to, None if it is not allocated
  lock,     \* filesys_lock.holder
  pc,
  name,     \* the call with filesys_lock each process is in, "none" without
  arg,      \* ... its descriptor, 0 without
  path,     \* ... and the file it names, None without
  fp,       \* `fp' of close()
  ret,      \* where close() returns to: the program, or the loop of exit()
  panic     \* an assertion of the kernel has failed

callVars == <<name, arg, path>>
vars == <<fd, file, lock, pc, callVars, fp, ret, panic>>

Slot == 3 .. Last

Label == {"user", "acquire", "body", "release", "close", "exit", "dead"}

At(t, l) == pc[t] = l /\ ~ panic

Goto(t, l) == pc' = [pc EXCEPT ![t] = l]

\* The call with filesys_lock is over.
Leave(t, l) ==
  /\ Goto(t, l)
  /\ name' = [name EXCEPT ![t] = "none"]
  /\ arg' = [arg EXCEPT ![t] = 0]
  /\ path' = [path EXCEPT ![t] = None]

\* fd[n] is NULL.  Nothing is ever stored outside 3 .. Last.
Unopened(t, n) == n \in Slot => fd[t][n] = None

Free == {h \in Handle : file[h] = None}

Used(t) == {n \in Slot : fd[t][n] # None}
Unused(t) == Slot \ Used(t)

\* The loops over the descriptors stop at the first one of S.
First(n, S) == n \in S /\ \A m \in S : n <= m

NoTable == [n \in Slot |-> None]

Init ==
  /\ fd = [t \in Thread |-> NoTable]
  /\ file = [h \in Handle |-> None]
  /\ lock = None
  /\ pc = [t \in Thread |-> "dead"]
  /\ name = [t \in Thread |-> "none"]
  /\ arg = [t \in Thread |-> 0]
  /\ path = [t \in Thread |-> None]
  /\ fp = [t \in Thread |-> None]
  /\ ret = [t \in Thread |-> "user"]
  /\ panic = FALSE

-----------------------------------------------------------------------------
(***************************************************************************)
(* Processes come ...                                                      *)
(***************************************************************************)

\* A new process on a page that is free, with an empty table.
Start(t) ==
  /\ At(t, "dead")
  /\ fd' = [fd EXCEPT ![t] = NoTable]
  /\ Goto(t, "user")
  /\ UNCHANGED <<file, lock, callVars, fp, ret, panic>>

\* exec(): process_execute() opens the file to see whether it is there.  The
\* struct file is not kept, and not closed.
Exec(t, f) ==
  /\ At(t, "user")
  /\ \E h \in Free : file' = [file EXCEPT ![h] = f]
  /\ UNCHANGED <<fd, lock, pc, callVars, fp, ret, panic>>

(***************************************************************************)
(* ... and go.                                                             *)
(***************************************************************************)

\* The call exit(), or a pointer that check_user_vaddr(), check_valid_buffer()
\* or check_str() refuses, or NULL for the name of a file.
Exit(t) ==
  /\ At(t, "user")
  /\ Goto(t, "exit")
  /\ UNCHANGED <<fd, file, lock, callVars, fp, ret, panic>>

\* Mutant: the entry stays.
TakeEntry_keep(t, n) ==
  /\ fp' = [fp EXCEPT ![t] = fd[t][n]]
  /\ Goto(t, "close")
  /\ UNCHANGED fd

\* close(n) of a descriptor that is open: the entry is cleared first.
TakeEntry(t, n) ==
  /\ fp' = [fp EXCEPT ![t] = fd[t][n]]
  /\ fd' = [fd EXCEPT ![t][n] = None]
  /\ Goto(t, "close")

\* Mutant: the loop begins with 4.
ExitLoop_from4(t) ==
  /\ At(t, "exit")
  /\ \/ /\ \E n \in Slot : First(n, Used(t) \ {3}) /\ TakeEntry(t, n)
        /\ ret' = [ret EXCEPT ![t] = "exit"]
     \/ /\ Used(t) \ {3} = {}
        /\ Goto(t, "dead")
        /\ UNCHANGED <<fd, fp, ret>>
  /\ UNCHANGED <<file, lock, callVars, panic>>

\* The loop of exit() over the descriptors, and thread_exit().
ExitLoop(t) ==
  /\ At(t, "exit")
  /\ \/ /\ \E n \in Slot : First(n, Used(t)) /\ TakeEntry(t, n)
        /\ ret' = [ret EXCEPT ![t] = "exit"]
     \/ /\ Used(t) = {}
        /\ Goto(t, "dead")
        /\ UNCHANGED <<fd, fp, ret>>
  /\ UNCHANGED <<file, lock, callVars, panic>>

\* The processor raises an exception in the program: kill() calls thread_exit()
\* itself, without the loop of exit(), and process_exit() closes nothing.  The
\* table of descriptors is never looked at again.
Kill(t) ==
  /\ At(t, "user")
  /\ fd' = [fd EXCEPT ![t] = NoTable]
  /\ Goto(t, "dead")
  /\ UNCHANGED <<file, lock, callVars, fp, ret, panic>>

-----------------------------------------------------------------------------
(***************************************************************************)
(* Calls without filesys_lock.                                             *)
(***************************************************************************)

\* filesize(), seek(), tell(): they end the process or change nothing here.
Use(t, n) ==
  /\ At(t, "user")
  /\ Unopened(t, n)
  /\ Goto(t, "exit")
  /\ UNCHANGED <<fd, file, lock, callVars, fp, ret, panic>>

Close(t, n) ==
  /\ At(t, "user")
  /\ \/ /\ Unopened(t, n)
        /\ Goto(t, "exit")
        /\ UNCHANGED <<fd, fp, ret>>
     \/ /\ ~ Unopened(t, n)
        /\ TakeEntry(t, n)
        /\ ret' = [ret EXCEPT ![t] = "user"]
  /\ UNCHANGED <<file, lock, callVars, panic>>

\* file_close (fp)
FileClose(t) ==
  /\ At(t, "close")
  /\ file' = [file EXCEPT ![fp[t]] = None]
  /\ fp' = [fp EXCEPT ![t] = None]
  /\ Goto(t, ret[t])
  /\ ret' = [ret EXCEPT ![t] = "user"]
  /\ UNCHANGED <<fd, lock, callVars, panic>>

-----------------------------------------------------------------------------
(***************************************************************************)
(* Calls with filesys_lock.                                                *)
(***************************************************************************)

\* read (n), write (n)
Transfer(t, c, n) ==
  /\ At(t, "user")
  /\ name' = [name EXCEPT ![t] = c]
  /\ arg' = [arg EXCEPT ![t] = n]
  /\ Goto(t, "acquire")
  /\ UNCHANGED <<fd, file, lock, path, fp, ret, panic>>

\* open (f)
Open(t, f) ==
  /\ At(t, "user")
  /\ name' = [name EXCEPT ![t] = "open"]
  /\ path' = [path EXCEPT ![t] = f]
  /\ Goto(t, "acquire")
  /\ UNCHANGED <<fd, file, lock, arg, fp, ret, panic>>

\* lock_acquire (&filesys_lock), with its assertion that the caller does not
\* hold the lock: a process that died with it may have lived on this page.
Acquire(t) ==
  /\ At(t, "acquire")
  /\ \/ /\ lock = None
        /\ lock' = t
        /\ Goto(t, "body")
        /\ UNCHANGED panic
     \/ /\ lock = t
        /\ panic' = TRUE
        /\ UNCHANGED <<lock, pc>>
  /\ UNCHANGED <<fd, file, callVars, fp, ret>>

\* read(), write(): fd > 2 and fd[fd] is NULL.
Refused(t) == arg[t] > 2 /\ Unopened(t, arg[t])

\* Inside read() a descriptor that is not open ends the process at once.
ReadBody(t) ==
  /\ At(t, "body") /\ name[t] = "read"
  /\ Leave(t, IF Refused(t) THEN "exit" ELSE "release")
  /\ UNCHANGED <<fd, file, lock, fp, ret, panic>>

\* Mutant: write() is like read().
WriteBody_held(t) ==
  /\ At(t, "body") /\ name[t] = "write"
  /\ Leave(t, IF Refused(t) THEN "exit" ELSE "release")
  /\ UNCHANGED <<fd, file, lock, fp, ret, panic>>

\* write() releases the lock first.
WriteBody(t) ==
  /\ At(t, "body") /\ name[t] = "write"
  /\ \/ Refused(t) /\ lock' = None /\ Leave(t, "exit")
     \/ ~ Refused(t) /\ Leave(t, "release") /\ UNCHANGED lock
  /\ UNCHANGED <<fd, file, fp, ret, panic>>

\* The buffer, which check_valid_buffer() has not touched, is not in memory and
\* page_fault() cannot load it (see Paging): exit (-1) inside the critical section.
Touched(t) ==
  \/ name[t] = "read" /\ arg[t] = 0
  \/ name[t] = "write" /\ arg[t] = 1
  \/ name[t] \in {"read", "write"} /\ ~ Unopened(t, arg[t])
Fault(t) ==
  /\ At(t, "body")
  /\ Touched(t)
  /\ Leave(t, "exit")
  /\ UNCHANGED <<fd, file, lock, fp, ret, panic>>

\* Mutants: the first entry is taken whether or not it is used; the loop runs to
\* 128; the lock is taken once more inside.
OpenBody_first(t) ==
  /\ At(t, "body") /\ name[t] = "open"
  /\ \/ UNCHANGED <<fd, file>>
     \/ \E h \in Free :
          /\ file' = [file EXCEPT ![h] = path[t]]
          /\ fd' = [fd EXCEPT ![t][3] = h]
  /\ Leave(t, "release")
  /\ UNCHANGED <<lock, fp, ret, panic>>
OpenBody_past(t) ==
  /\ At(t, "body") /\ name[t] = "open"
  /\ \/ UNCHANGED <<fd, file>>
     \/ \E h \in Free :
          /\ file' = [file EXCEPT ![h] = path[t]]
          /\ fd' = [fd EXCEPT ![t] =
                      [n \in 3 .. Last + 1 |-> IF n = Last + 1 THEN h ELSE fd[t][n]]]
  /\ Leave(t, "release")
  /\ UNCHANGED <<lock, fp, ret, panic>>
OpenBody_again(t) ==
  /\ At(t, "body") /\ name[t] = "open"
  /\ lock = None
  /\ Leave(t, "release")
  /\ UNCHANGED <<fd, file, lock, fp, ret, panic>>

\* filesys_open() finds no such file (or no memory), or the file goes into the
\* first unused entry.  If there is none, the struct file is forgotten.
OpenBody(t) ==
  /\ At(t, "body") /\ name[t] = "open"
  /\ \/ UNCHANGED <<fd, file>>
     \/ \E h \in Free :
          /\ file' = [file EXCEPT ![h] = path[t]]
          /\ \/ Unused(t) = {} /\ UNCHANGED fd
             \/ \E n \in Slot : First(n, Unused(t)) /\ fd' = [fd EXCEPT ![t][n] = h]
  /\ Leave(t, "release")
  /\ UNCHANGED <<lock, fp, ret, panic>>

\* lock_release (&filesys_lock)
Release(t) ==
  /\ At(t, "release")
  /\ lock' = None
  /\ Goto(t, "user")
  /\ UNCHANGED <<fd, file, callVars, fp, ret, panic>>

-----------------------------------------------------------------------------
\* A step of a call.
Step(t) ==
  \/ Acquire(t)
  \/ ReadBody(t) \/ WriteBody(t) \/ OpenBody(t) \/ Fault(t) \/ Release(t)
  \/ FileClose(t) \/ ExitLoop(t)

\* What a program does, and the exceptions it causes.
UserStep(t) ==
  \/ Exit(t) \/ Kill(t)
  \/ \E f \in File : Exec(t, f) \/ Open(t, f)
  \/ \E n \in Fd : Use(t, n) \/ Close(t, n) \/ \E c \in {"read", "write"} : Transfer(t, c, n)

Next == \E t \in Thread : Start(t) \/ UserStep(t) \/ Step(t)

\* A thread that can go on in the kernel does.  For lock_acquire() this is no more
\* than that a lock that stays free is taken by one of those who wait: sema_up()
\* makes one of them ready but hands nothing over, and whoever runs first, the one
\* who has just released the lock included, may take it again and again.
Fairness == \A t \in Thread : WF_vars(Step(t))

Spec == Init /\ [][Next]_vars /\ Fairness

-----------------------------------------------------------------------------
(***************************************************************************)
(* Properties.                                                             *)
(***************************************************************************)

TypeOK ==
  /\ fd \in [Thread -> [Slot -> Handle \union {None}]]
  /\ file \in [Handle -> File \union {None}]
  /\ lock \in Thread \union {None}
  /\ pc \in [Thread -> Label]
  /\ name \in [Thread -> {"none", "open", "read", "write"}]
  /\ arg \in [Thread -> Fd \union {0}]
  /\ path \in [Thread -> File \union {None}]
  /\ fp \in [Thread -> Handle \union {None}]
  /\ ret \in [Thread -> {"user", "exit"}]
  /\ panic \in BOOLEAN

\* A struct file is pointed to by an entry, or by `fp' of close().
InTable(h) == \E t \in Thread, n \in Slot : fd[t][n] = h
InClose(h) == \E t \in Thread : fp[t] = h

\* close(), open(): a struct file that something points to is allocated, and is
\* pointed to from one place only, so that nobody uses or closes it twice.
OwnFile ==
  /\ \A t, u \in Thread, m, n \in Slot :
       fd[t][m] = fd[u][n] /\ fd[t][m] # None => t = u /\ m = n
  /\ \A t, u \in Thread : fp[t] = fp[u] /\ fp[t] # None => t = u
  /\ \A h \in Handle : ~ (InTable(h) /\ InClose(h))
  /\ \A h \in Free : ~ InTable(h) /\ ~ InClose(h)

\* A descriptor stands for the same file from open() to close(), exit() or kill(),
\* whatever the other processes open and close.
DescriptorStable ==
  [][\A t \in Thread, n \in Slot :
       fd[t][n] # None /\ ~ (fd'[t][n] # None /\ file'[fd'[t][n]] = file[fd[t][n]]) =>
         \/ pc[t] \in {"user", "exit"} /\ pc'[t] = "close"
         \/ Kill(t)]_vars

\* A struct file is lost in three places only: by open() with all descriptors in use,
\* by exec(), and by kill() of the process that has it open.  exit() closes all a
\* process has left open, and neither close() nor a new process loses any.
Lost(h) == file[h] # None /\ ~ InTable(h) /\ ~ InClose(h)
LostByOpenExecKill ==
  [][\A h \in Handle : ~ Lost(h) /\ Lost(h)' =>
       \E t \in Thread :
         \/ h \in Free /\ At(t, "body") /\ name[t] = "open" /\ Unused(t) = {}
         \/ h \in Free /\ \E f \in File : Exec(t, f)
         \/ Kill(t) /\ \E n \in Slot : fd[t][n] = h]_vars

\* filesys_lock is held by a process that will not release it any more.
LockLost == lock # None /\ pc[lock] \notin {"body", "release"}

\* One process at a time is between lock_acquire() and lock_release(), and it
\* is the holder.
Exclusive ==
  \A t \in Thread : pc[t] \in {"body", "release"} => lock = t

\* open(), and write() to a descriptor that is not open, give the lock back on
\* every path.  (read() does not, nor does a page fault.)
LockGivenBack ==
  [][~ LockLost /\ LockLost' =>
       name[lock] = "read" \/ (name[lock] = "write" /\ Touched(lock))]_vars

\* Unless filesys_lock is lost, its holder comes to release it, and it does not stay
\* free while processes wait for it: calls proceed as long as the lock is there.
\* (One of those who wait may be overtaken for ever.)
LockMovesOn ==
  /\ \A t \in Thread : lock = t ~> lock # t \/ LockLost
  /\ lock = None /\ (\E t \in Thread : pc[t] = "acquire") ~> lock # None
=============================================================================
