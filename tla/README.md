# A verification of 22OS_10

`src/` holds the files a student team changed in the Pintos teaching kernel, one directory
per project: `project1` (alarm clock), `project2` (priority scheduling and donation),
`project3` and `project4` (user programs, demand paging).  The rest of Pintos
(`lib/kernel/list.c`, `interrupt.c`, `palloc.c`, the file system, and the `thread.c` and
`synch.c` of the projects that did not change them) is not in the repository; where a module needs it, it
is modelled from how `src/` uses it and marked `external` in `PROJECT.json`.

There is one CPU.  Concurrency is preemption: the timer interrupts a thread wherever
interrupts are on.  Project 1 and 2 are two versions of one kernel, so each has
a module of its own and none composes with the other.

## 1. Inventory

### Round-robin scheduler and alarm clock — project1/thread.c, thread.h, timer.c
* State: `ready_list`, `sleeping_list`, `status`, `sleeping_ticks`, `ticks`, `thread_ticks`,
  `idle_thread`, `next_tid`, `tid_lock`.
* Operations: `thread_init/start/create/exit/yield/block/unblock`, `timer_sleep`,
  `thread_awake`, `thread_tick`, `schedule`, `idle`, `allocate_tid`.
* Interaction: the timer handler runs `thread_tick()` (which may ask for a yield on return)
  and `thread_awake()` on the lists that the threads use with interrupts off.
* Hard: `timer_sleep()` reads the clock with interrupts on and blocks later; `thread_awake()`
  walks the list it removes from; one `elem` serves all lists; between `init_thread()` and
  `thread_unblock()` a thread is on no list; `idle_thread` is NULL during boot; a dying
  thread's page is freed by its successor; `next_tid++` is not atomic.
* Correct when: no thread is lost or linked twice, `schedule()` always finds a thread, no
  slice is overrun, no sleeper wakes early or too late or never, round robin keeps its order, tids
  are unique.

### Priority scheduler and synchronisation — project2/thread.c, synch.c, thread.h, synch.h
* State: in addition `priority`, `init_priority`, `waiting_lock`, `donations` of each thread;
  `value` and `waiters` of semaphores, `holder` of locks, `waiters` of conditions.
* Operations: `sema_down/try_down/up`, `lock_acquire/try_acquire/release`,
  `cond_wait/signal/broadcast`, `thread_set_priority`, `donate_priority`, `remove_lock`,
  `reset_priority`, `steal_running_by_priority`, and those of the scheduler.
* Interaction: locks are built on semaphores, conditions on locks and semaphores,
  donation hooks into lock acquire and release, `sema_up()` may switch threads, and interrupt
  handlers may call it.
* Hard: `lock->holder` is read several times with interrupts on; donations change
  priorities of queued threads; `holder` is set and cleared outside the semaphore; the thread
  `sema_up()` wakes is not given the unit; `compare()` is written for `elem` and used on
  `donation_elem`; nothing keeps a `donation_elem` from being put on a second list, or its page from
  being freed while it is on one.
* Correct when: a lock has one owner, no wake-up is lost, locks and conditions are a Mesa
  monitor, who gets the CPU has the highest priority, and the front of the run queue does not
  outrank who runs.

### Processes — project4/userprog/process.c, threads/thread.h
* State: `parent`, `child`, `exit_status` and the semaphores `child_lock`, `mem_lock`,
  `load_lock` inside each `struct thread`.
* Operations: `process_execute`, `start_process`, `process_wait`, `process_exit`.
* Interaction: parent and child up and down each other's semaphores inside each other's pages.
* Hard: pointers into pages that are freed and used again; three handshakes; errors of
  `thread_create()`; a parent that exits before its child; a child that ends without `exit()`.
* Correct when: no freed page is touched, every status is taken once, by the parent only,
  nobody waits for an exited child for ever.

### System calls — project4/userprog/syscall.c
* State: `fd[200]` of each thread, the global `filesys_lock`.
* Operations: `halt exit exec wait create remove open filesize read write seek tell close`,
  the pointer checks `check_user_vaddr/check_valid_buffer/check_str`.
* Hard: exits inside the critical section, ends that skip `exit()`, descriptors at their limit,
  unchecked indices, calls that skip the lock, a lock that is not handed over.
* Correct when: `filesys_lock` is always given back, open files and descriptors agree.

### Exceptions and demand loading — project4/userprog/exception.c, vm/page.c, page.h, process.c from line 602
* State: a hash `vm` of `vm_entry` per thread (where a page comes from), the page directory.
* Operations: `kill`, `page_fault`, `find_vme`, `insert_vme`, `vm_destroy`, `load_file`,
  `handle_mm_fault`, `install_page`.
* Interaction: `load_segment()` and `setup_stack()` write the entries that page faults read later,
  from programs and from system calls; `process_exit()` removes them and the pages.
* Hard: the handler runs with interrupts on, in the kernel, and may fault itself; it holds
  a page while it reads a file and installs; the entries name a file that `load()` has closed;
  `find_vme()` searches with a wrong key; `VM_BIN` falls through to `VM_FILE`; a page of the stack is
  installed, but reported as a failure.
* Correct when: no page is lost or covered, every fault ends.

`page.h` and `page.c` do not compile as they stand (`voi *kaddr`; no `;` after `struct page`;
`find_vme()` declares `vme` twice), and `vm_destroy_func()` is declared and passed but not defined.

### Program loading — project4/userprog/process.c from line 175, project3/userprog/process.c from line 145
* State: program headers, the loop variables of `load_segment()`, the file, the stack.
* Operations: `load`, `validate_segment`, `load_segment`, `setup_stack`, `install_page`,
  `parse_filename`, `construct_esp`.  `load()` and `validate_segment()` are the same in both projects;
  project3 reads every page at once, project4 makes entries; project3 passes no arguments.
* Hard: unsigned sizes and addresses that wrap; segments that share pages; failures half-way.
* Correct when: memory shows what the headers say, below the kernel and above page 0, and
  `main()` finds its arguments.

### project3
An earlier state of project4's code.  `thread_create()` initialises a semaphore through an
uninitialised pointer (`threads/thread.c:214`) for the first thread it creates, and
`syscall_init()` a lock, so the kernel does not come up, and `open()` never
finds a descriptor.  Its loader, which differs from project4's, is modelled; its threads and system
calls are not.

### Delays — project1/timer.c
* State: `loops_per_tick`.
* Operations: `timer_calibrate`, `too_many_loops`, `busy_wait`, `real_time_sleep`, `real_time_delay`,
  and the sleeps and delays in milli-, micro- and nanoseconds.
* Hard: the loops that are tried race with the tick; each bit is tried without those found before;
  divisions that cut off, of numbers with a sign.
* Correct when: a delay lasts about as long as asked for.

## 2. Modules

| module | models | abstracts to |
|---|---|---|
| `Alarm` | project1: scheduler, creation, exit, boot, alarm clock | `AlarmClock` |
| `AlarmClock` | what `timer_sleep()` promises | |
| `AlarmProofs`, `AlarmClockProofs` | theorems about `Alarm` | |
| `PriSync` | project2: scheduler, semaphores, locks, conditions, donation | `Monitor` |
| `PriSyncProofs` | theorems about `PriSync` | |
| `PriList` | what the sorted lists of `list.c` may do, and the loop of `remove_lock()` (used by `PriSync`) | |
| `Monitor` | a Mesa monitor | |
| `Process` | project4: exec, wait, exit | `ProcessTable` |
| `ProcessTable` | the life of a process | |
| `Syscall` | project4: descriptors, struct files, `filesys_lock` | |
| `ProcessProofs`, `SyscallProofs` | theorems about `Process` (with its refinement) and `Syscall` | |
| `ListLemmas` | what appending, popping and unlinking do to a list, and what the functions of ordered lists keep | |
| `Loader` | project3 and project4: `load()`, `load_segment()`, `setup_stack()`; project4: `construct_esp()` | |
| `Paging` | extends `Loader`: `page_fault()`, `find_vme()`, `handle_mm_fault()`, `load_file()`, `process_exit()` | |
| `Calibrate` | project1: `timer_calibrate()`, sleeps and delays in seconds | |
| `PagingProofs`, `CalibrateProofs` | theorems about `Loader` and `Paging`, and about `Calibrate` | |
| `MCAlarm`, `MCPriSync`, `MCProcess`, `MCSyscall`, `MCPaging`, `MCCalibrate` | instances for TLC | |

**Granularity.**  In `Alarm` and `PriSync` a region with interrupts off is one action, up to
the call of `schedule()` in it; a statement with interrupts on is an action of its own, and
any other thread, or the timer, may come between two of them.  `pc[t]` names the next one.
The timer handler takes several actions, during which no thread moves.  List functions,
and `remove_lock()`'s loop, which run with interrupts on, are one action in `PriSync`.
`list_insert_ordered()` and `list_sort()` on lists that donations have put out of
order are modelled by what they do: an element goes in front of the first one that is smaller, a sort is stable.

The code may put a `donation_elem` on the list of a second holder, or free a donor's page that a list still runs
through.  It goes on, and so does `PriSync`: `torn` is set, and from then on each walk of `lock_acquire()`,
`remove_lock()` and `reset_priority()` along a list of donors has any outcome that
pointers of such lists lead to.  It finds any of the threads that wait for the lock, or none; it reads the priority of any
thread, or the 0 that lies where the end of a list is taken for a thread; it faults or fails an assertion of `list.c`; or
it does not end (the thread stays where it is).  What it writes stays within the links of such
lists and the `waiting_lock` of waiting threads, since the end of a list, taken for a
thread, shows a link of `elem` as its `waiting_lock`, which is no lock.  A page that was freed and is used for something else
than a thread is not modelled.

In `Process` the threads interleave freely and each call of a semaphore is one step: which
thread the scheduler takes is the business of the other two modules.  Page numbers are
reused, as `palloc` does, so a stale pointer shows up as a pointer to a page that is free or
is another process's.

In `Syscall` a call into the file system is one step, as is everything a process does with its
own table of descriptors; acquiring the lock, the body of the critical section and the release are
steps of their own.  `file[h]` tells which file a struct file (`Handle`) was opened for, so
that memory that is freed and allocated again can be told apart.

`Loader` is sequential: one thread loads one program.  Each turn of a loop is a step, addresses
wrap at `Word` as unsigned integers do, and the shape of the result (which byte of the file an
address shows, what `main()` finds on its stack) is compared with what the program headers and the
command line say.  Positions in files are words, too: `offset + filesz` may wrap for a header that
`validate_segment()` lets through, so `SegmentsLoaded` compares them modulo `Word`.

`Paging` composes the loader with what happens to its entries: the same process goes on from
`load()` to faults in its program and to `process_exit()`.  The steps of a handler are those between which
it can fail: finding the entry, taking a page, reading the file (twice, because of the fall-through),
installing.  A fault inside a handler stacks that handler in `interrupted` and, if it is handled, the
interrupted step is tried again.  `page.h` and `page.c` are taken as they read once they
compile.  Two uses of wrong memory are choices: `find_vme()` returns any entry or none, since the key
`hash_find()` sees is what lies on the stack beside `vme`; and reading a closed file succeeds with other
content, fails, faults, or panics.  `Syscall` abstracts a page fault on a buffer to what `Paging` shows
it may do: load the page, or end the process (a panic, which stops everything, is left out).

`Calibrate` measures a tick in loops.  Whether a number of loops within `Jitter` of a tick ends in time is
open, which stands for interrupts and for the granularity of the loop.

**State the code does not have.**  `deadline` (Alarm) is the local variable of
`timer_sleep()`; `op`, `ret`, `lock_holder`, `child`, `arg`, `high` (PriSync) and `success`,
`new_tid`, `caller`, `wait_on`, `result` (Process) are locals and return addresses; `killed` (Process)
remembers that a process was ended by `kill()` instead of `exit()`, of which the code keeps no trace; `panic`
(PriSync) says that an assertion failed or that memory was accessed that is not there, after
which nothing happens any more, and `torn` that lists of donors run into each other.  `eax` is what the user program got from the last call.
`spare` and `vme` (Paging) are the `kaddr`s and `vme`s of the handlers on the kernel stack, `tick` and `call`
(Calibrate) the hardware's and the caller's view.  `name`, `arg`, `path`, `fp` and `ret` (Syscall) are locals and return addresses, `strings` and `stack`
(Loader) the memory below `PHYS_BASE`.

**Environment.**  Threads call anything at any time, with these exceptions, which are the
caller's duties: in `PriSync` locks are taken in the order `LockRank`, never twice,
released by their holder only, and threads do not exit holding one; the condition's lock is held
when it is used (the `ASSERT`s of `synch.c`).  `Calls` bounds what each
thread calls in a run.  `PriSync` starts with its threads started and asleep and the idle
thread running, a state every booted kernel passes through; `Alarm` starts with
`thread_init()`.  In `Process`, `main` (the thread that runs `process_wait
(process_execute (...))`) does not exit.  In `Syscall`, programs pass any
descriptor of `Fd` (numbers that index `fd[200]`; smaller than `3` and unopened ones among
them) and buffers on which a page fault may or may not end the process; a page that a process has left may
be used by the next one, which then owns `filesys_lock` if the first one died with it: its
`lock_acquire()` fails an assertion (`panic`).  `create()`, `remove()`, `halt()`,
`file_deny_write()` and the file that `load()` opens and closes are left out: they change
neither descriptors nor the lock.

## 3. Runs

| run | instance | shows |
|---|---|---|
| `alarm_sleep` | 5 pages, slice of 2, sleeps of a negative, zero and positive length, 4 ticks | type invariant, `schedule()` always finds a thread, lists, quantum, `UniqueTids`, `NotOvertaken`, and that `Alarm` implements `AlarmClock` |
| `alarm_fair` | 5 pages, slice of 1, sleeps until the next tick, 1 tick | `SleeperRuns`, `ReadyRuns`, `CreateCompletes` |
| `pri_all` | 3 threads (one created by another), a lock and `tid_lock`, a semaphore, a condition; all calls for two of them, lock and condition for the third | `MutualExclusion`, `NoLostWakeup`, `Monitor` implemented |
| `pri_sched` | 3 threads of priorities 1, 2, 3 on one lock, with sleeps and exits, in which lists of donors get torn | lists, `FrontRuns`, `PicksHighest` |
| `proc_table` | 3 pages, 3 processes | handshakes, `ProcessTable` implemented (with the 0 of a killed child), `ExecAnswers`, no dangling pointer |
| `sys_files` | 2 processes with 2 descriptors each, 2 files, memory for 3 struct files | `OwnFile`, `DescriptorStable`, `LostByOpenExecKill`, `LockGivenBack`, `LockMovesOn` |
| `exec_load` | pages of 2 bytes, 4-bit addresses, both loaders; all single segments, selected pairs, command lines of up to 4 words; for pairs that touch, share a page, or share the stack's: page faults, nested up to 2 deep | assertions, `UserPagesOnly`, `SegmentsLoaded`, `ArgumentsPassed`, `PagesAccounted`, `PageStays`, `Settles` |
| `calibrate` | ticks of 3 to 300 loops, 9-bit numbers, a first guess of 16, jitter of 2 loops | `Accurate`, `TimeKept` |
| `pri_reset`, `pri_fault`, `pri_device`, `proc_exec` | small | each refutes one sentence of a comment, see below |

**Bounds.**  Ticks, tids, semaphore values and the number of pages are bounded; every bound is a constant
with `bound:` in its comment.  `alarm_sleep` is long enough for two
sleepers whose ticks have passed to be woken by one interrupt and for a page to be freed and
used again while another thread sleeps.  `MaxTick` only stops `ticks` from growing;
`BoundAssumption` makes sure that no deadline lies beyond it.  Three threads are the smallest
number for a chain of donations (holder, waiter and a third thread), and for a waiter that is overtaken
by a third thread between its wake-up and its turn.  `proc_table` has siblings
(2 and 3 of `main`), a grandchild (3 of 2), a page used twice and a moment without a free page.
`sys_files` has a full table, a full memory, a struct file that moves from one process to the other,
and a page whose first process died with the lock.  `exec_load` scales `PGSIZE` (4096), `PHYS_BASE`
(3 GB) and the word (2^32) down to 2, 12 and 16 with their proportions: a page below and pages
above the user's, segments that begin and end anywhere in a page, that have no bytes in the file, that share a
page, and sums that wrap.  Page faults are confined to a few programs (`faults`), with up to four pages, so that a
fault may find each of the others' entries and repeat itself as often as there are pages; two interrupted
handlers are one more than it takes for a page to be lost and for a handler to be resumed into another
one.  `calibrate` has every tick from below the first guess (2^10 in the code, 16 here) to beyond the
largest power of two, where the counter wraps; seconds are divided by 10, 100 and 1000 instead of powers of 1000.  The stack is not scaled (its words have 4 bytes).

**Symmetry** is used in `alarm_sleep`, where only safety and action properties are checked.

**Deadlock** is not checked for `PriSync` (it ends when `panic` is set, or when every thread
waits for a semaphore that nobody ups), `Process` (a parent that waits for a
child that never exits, and `proc_exec`'s flaw), `Syscall` (a process that has died with
`filesys_lock` leaves the others waiting, or `panic`) , `Paging` (it ends when the process is dead, or the kernel panics) and `Calibrate` (it ends after one
call).  `Alarm`'s idle thread and timer never stop.

**Fairness.**  `alarm_fair` assumes that the timer ticks and that its handler is
finished, and that a thread which is in the kernel and is given the CPU again and again gets on (strong
fairness, because a thread's steps are disabled while the others run).  That it *is* given the CPU is not assumed but is what
`ReadyRuns` says; nothing is assumed about what programs call or that they give up the CPU.  `Process`
assumes `WF` of each thread's kernel steps: round robin is fair (`Alarm!ReadyRuns`) and each
of the three semaphores is downed by one thread only, so that weak fairness is enough.  No
fairness is assumed of user programs, so `WaitEnds` starts where the child has begun to exit.
`Syscall` assumes `WF` of the steps of each call, `lock_acquire()` among them, and no more: `sema_up()` makes a
waiter ready and hands nothing over, so the thread that has released the lock, or a third, may take it again before
the waiter runs.  A waiter may be overtaken for ever, and no property says that it is not.  `LockMovesOn` says what
is left: whoever has the lock comes to release it, unless it has been lost on one of the two paths `LockGivenBack`
names, and a free lock that somebody waits for is taken.  `Paging`
assumes `WF` of the kernel's steps for its one thread, and nothing of the program.

### What the comments say and the code does not do
* `pri_reset`: `reset_priority()` sorts the donors with `compare()`, which treats a
  `donation_elem` as an `elem` and compares addresses inside the pages: the donor on the
  higher page wins.  The pages' order is part of the instance (`Page`).
* `pri_fault`: `lock_acquire()` reads `lock->holder` again after having tested it.
* `pri_device`: `sema_up()` in an interrupt handler may run into `thread_yield()`'s assertion.
* `proc_exec`: `process_execute()` downs `load_lock` even if no thread was created.

Five more things to know, which no run refutes a sentence with.

A child that an exception kills leaves 0 to its parent.  The comment of `process_wait()` (`process.c:107-109`) says that it
"returns -1" for a child that was "killed due to an exception", but `kill()` calls `thread_exit()` without setting
`exit_status`, which is still the 0 it was created with.  The parent cannot tell such an end from `exit(0)`.  `ProcessTable`
has an end of its own for it, `Kill`, and `TableSpec` says that 0 is what `wait()` then returns.

Such a child also keeps its files open for ever.  The loop that closes them is in `exit()` (`syscall.c:155-159`), which
`kill()` does not call; `process_exit()`, whose comment (`process.c:134`) is "Free the current process's resources.", closes
none.  `LostByOpenExecKill` lists it beside the two other ways in which a struct file is lost, `open()` with all
descriptors taken and `exec()`.

An earlier child that exited with -1 and has not been
waited for makes `process_execute()` wait for a new child that has been loaded and return its exit status instead
of its tid (`process.c:58`).  `ExecAnswers` states what the code does keep: without such a child the answer is the tid, or -1.

`donate_priority()` reads `lock->holder` and assigns that thread's priority later (`thread.c:638-639`), whether this raises
or lowers it.  A thread that slept with the lock may have released it in between; it is left with the donor's lower
priority and holds nothing whose release would reset it.  This is the window of `pri_fault`, with another end.

The thread of the highest priority does not always run.  `steal_running_by_priority()` looks at the front of
the run queue, which is sorted only when a thread is chosen.  Donations, and `thread_set_priority()`, change priorities
in between: a donor that read `lock->holder` before the holder released the lock raises a thread in the middle of the
queue, and when the running thread then loses its own donation the test does not see it.  It takes five threads.
What the code does keep is `FrontRuns`: nobody at the front outranks who runs, outside a call and until
the next tick.

## 4. Theorems

All hold for every value of the constants, from the assumptions stated in the modules
(`ThreadAssumption` and its neighbours in `Alarm.tla`; `PriThreadAssumption`, `PriorityAssumption`
and `SyncAssumption` in `PriSync.tla`; `ProcessAssumption`, `SyscallAssumption`,
`LoaderAssumption`, `PagingAssumption`, `CalibrateAssumption` and `PowerAssumption`), which say what the constants are:
different pages are different, the idle thread is not among the started ones, `PHYS_BASE` is a multiple of a
page above page 0, the first guess of `timer_calibrate()` and the range of its numbers are powers of two.
The properties are seldom inductive as they stand.  Each module of proofs therefore rests on an
invariant that is (`Alarm!IInv` and `TidInv`, `PriSync!IInv` and `PriSyncProofs!CondInv`, `ProcessProofs!Inv`, `AnswerInv` and `ExecInv`, `SyscallProofs!Inv`,
`PagingProofs!PagingInv`, `ShapeInv` and `StackInv`, `CalibrateProofs!CInv` and `BitInv`), shows with a lemma per
action that every step preserves it, and ends with the theorems.

**`Alarm`** (any set of pages, arguments of `timer_sleep()`, slice and bounds; main and idle are two
pages, the bounds are naturals, no deadline is beyond `MaxTick`)

* `Invariance`: `IInv` is inductive.  `TypeOK` alone is not: that `schedule()` finds a thread
  (`SchedulerFindsThread`) needs to know that the run queue holds exactly the ready threads
  (`ListInv`), that exactly one thread is running (`RunInv`), that the idle thread is ready to stand in
  once it has made itself known, and that before that `main` has not slept (`BootInv`); that a
  page that is freed is on no list needs that of every blocked thread it is known where it waits
  (`BlockedInv`, `ChildInv`), which in turn needs the place in the code (`PcInv`).
* `TypeCorrect`, `SchedulerSound`, `ListsSound`, `NobodyLost`, `IdleOffQueue`, `QuantumKept` follow.
* `TidsUnique`: `UniqueTids`.  That `allocate_tid()` does not hand out a number twice takes two facts: `tid_lock`
  is held by one thread from the read of `next_tid` to the release (`TidLockInv`), and a number that was drawn
  but not yet stored in the new thread is below `next_tid` and nobody's (`TidInv`).  The idle
  thread's tid is taken without the lock, while no other thread exists.
* `RoundRobin`: the action property `NotOvertaken`.  `thread_unblock()` and `thread_yield()` append to the run
  queue, `schedule()` takes its front, and by `IInv` whoever is appended was not on it.
* `AlarmClockImplemented`: each step of `Alarm` is a step of `AlarmClock` or a stutter.

**`PriSync`** (any threads, locks, semaphores, conditions and priorities; any thread may call any of `Calls`)

* `Invariance`: `IInv` is inductive (TLC checked it on the instances of the `pri_` runs first).  `MutualExclusion`
  alone is not: that the semaphore of a lock is 1 exactly while nobody owns the lock needs to know that
  `holder` is NULL while the lock is being taken or given back (`HandOver`) and on which
  lock each thread operates (`OpInv`).  `NoLostWakeup` counts the threads that have been woken and have not
  run yet, so it needs that a blocked thread stands where its list says (`WaitInv`) and that there are
  finitely many threads to count (`FiniteInv`).  `schedule()` needs the run queue to hold exactly the ready
  threads (`QueueInv`, `PcInv`), `reset_priority()` that nobody but the thread itself takes elements
  off its `donations` while they are whole (`HeadInv`), `thread_create()` that the new thread is its creator's alone (`ChildInv`).
* `TypeCorrect`, `LocksExclude`, `NoWakeupLost`, `ListsSound` follow.  Like those below they hold with lists of donors that are
  torn: what a walk along one may do to a priority or a `waiting_lock` touches no lock, no wait list and no run queue.
* `HighestPicked`: the action property `PicksHighest`.  Besides `IInv` it takes what `list_sort()` does to the run queue
  where the thread is chosen, whatever donations have done to its order before.
  What the lists' functions do is stated once in `ListLemmas`.
* `MonitorKept`: `MonitorSpec`.  Each action of `PriSync` maps to an action of `Monitor` or to a stutter.  For `Monitor` a wait
  begins where `lock_release()` ups the lock's semaphore, several steps after `cond_wait()` has put the waiter
  on the list.  That no signal comes in between follows from `MutualExclusion`: whoever signals owns the lock.
  `CondInv` is what the mapping needs beyond `IInv`: a waiter is on the list of one condition, its own, from `cond_wait()`'s
  first step until it is signalled, and its own semaphore is 1 from then until it has noticed (TLC checked it on the
  instance of `pri_all` first).
* `FrontKept`: `FrontRuns`, if nobody calls `thread_exit()`, or nobody `thread_create()`.  `FrontInv` adds the labels at which the running thread's
  priority may have fallen and the test is still to come.  `thread_create()`'s test is the odd one: it compares the argument, not the
  priority the new thread has by then, so a thread that is being made must have the priority it is
  made with (`KidInv`).  It does because nobody donates to it: `lock_holder` points at threads that run code (`PtrInv`).  With both calls this
  argument fails, since a donor may still hold the address of a page that is used for the next thread; without `thread_create()`
  no thread is being made (`NoKid`), whoever exits.
  TLC checked `FrontInv` on the instances of `pri_all` and `pri_sched` first.

**`Process`** (any number of pages and processes)

* `Invariance`: a thread on a list of children is there and points back (`ChildInv`); what
  `process_wait()` waits for is on its list until it is removed (`WaitInv`); `child_lock` is up
  from the end of a thread until its parent has seen it, and `mem_lock` from when nobody knows the thread
  any more (`ExitInv`); a thread that is being loaded has its parent wait for it alone (`LoadInv`).
* `TypeCorrect`: in particular no semaphore of a struct thread ever exceeds 1, which is why it
  pairs one parent with one child.
* `Implements`: `TableSpec`.  Each action of `Process` maps to an action of `ProcessTable` or to a stutter; what
  the mapping needs beyond the invariant is what a call is about to return (`AnswerInv`):
  `process_execute()` a tid that is on its list of children, `process_wait()` the status its child has left.
  A row counts as collected from the step in which `process_wait()` ups `mem_lock` on, although the child has left the
  list one step before, and as gone when `process_exit()` frees its page.
* `ExecKept`: `ExecAnswers`.  A child that has failed keeps its -1 until its page is freed, and is past `exit()`, while one that
  has been killed has status 0 (`StatusInv`); from the scan of the list on, `process_wait()` searches for, waits for or has taken the status of the child
  that made the scan succeed, unless that was an older one, which stays on the list (`ExecInv`; TLC checked
  both on the instance of `proc_table` first).
* `PointersSound`: no page is freed while somebody may still follow a pointer to it.  `ExitInv` is
  what makes it true: `process_exit()` gets past `mem_lock` only when the thread is on no list
  and no `t` of `process_wait()` points to it.

**`Syscall`** (any number of processes, files, struct files and descriptors)

* `Invariance`: `OwnFile` and `Exclusive` are inductive together with what is known of a process
  where it stands (`PcInv`: only `close()` uses `fp`, a page without a process has no open file).
* `TypeCorrect`, `FilesOwned`, `LockExcludes`, and the action properties `DescriptorsStable`, `LossesKnown`
  (`LostByOpenExecKill`), `LockComesBack` follow.

**`Loader` and `Paging`** (any program, page size, word, `PHYS_BASE`, and depth of the kernel stack; arithmetic is modulo `Word`)

* `Invariance`: `PagingInv` is inductive.  Its parts: what is left of a segment begins on a page boundary and ends below
  `PHYS_BASE`, above page 0 (`MemInv`, from `validate_segment()`); the loops of `load()` and
  `construct_esp()` stay within what they loop over (`ArgInv`); and every handler, interrupted or not, has an
  entry in hand from `load_file()` on (`FaultInv`).
* `TypeCorrect`, `AssertionsPass` and `OnlyUserPages` follow: `load_segment()`'s arithmetic wraps, but
  `validate_segment()` lets nothing through that would make it wrap into another page.
* `SegmentsRight`: `SegmentsLoaded`.  Inductive is `ShapeInv`: while a segment is loaded, `seg` is what its header
  says of the part that is ahead (`LoopInv`); what is in memory or has an entry belongs to a segment loaded so far (`OriginInv`);
  and a page that a single segment owns shows what that segment's header says as soon as it has been
  passed (`ImageInv`).
* `ArgumentsRight`: `ArgumentsPassed`.  `StackInv` says what `construct_esp()` has built before each turn of its two loops.
* `AccountsBalance`: `PagesAccounted` is inductive with `HandlersHold`: every interrupted handler was
  interrupted where it had a page in hand, so that resuming it takes one up again.
* `PagesStay`: each of the three places that install a page does so where none was.

**`Calibrate`** (any set of ticks longer than the jitter, any first guess and size of numbers)

* `CalibrationAccurate`: while it doubles, what has been found fits into a tick (`Doubling`); as it refines,
  either no bit has been set, or what has been set and everything below it is less than twice the first bit, which
  fitted on top of `high_bit` (`Refining`).  This bounds the damage of trying each bit alone: the count is
  never twice too large.
* `TimeKeeping`: `TimeKept`.  `BitInv` bounds the count from below: what a tick has beyond what was found is less than the two bits
  tried last, and no bit is lost in a division before the search stops, since first guess and range
  are powers of two.  The rest is arithmetic of products and roundings (`DelayBounds`).

Model-checked only: liveness (`SleeperRuns`, `ReadyRuns`, `CreateCompletes`, `WaitEnds`, `LoadedReturns`,
`LockMovesOn`, `Settles`: fairness and `ENABLED` are beyond the proof system).  Every safety property that a
passing run checks is a theorem, `FrontRuns` under the hypothesis above (`pri_sched`, where nobody is created, satisfies it).

## 5. Not modelled, and the plan

Every component that the code lets run is modelled, and the plan's theorems are proved.

Left out: statistics, printing, page directories and the assembly of context switches (no
state the properties are about); priorities in project 1 (its scheduler does not
look at them); `all_list` (only debugging code reads it); the self-tests of `synch.c`;
the mlfqs stubs; project 3's threads and system calls (see the inventory); a `malloc()` that fails while
entries or `argv` are made (its result is not looked at, `process.c:445`, `552`); the hash buckets behind `vm`;
`delete_vme()`, `struct mmap_file` and `struct page`, which nothing uses; command lines longer than the 256
bytes of `construct_esp()`; descriptors outside `fd[200]`; products in `real_time_delay()` that exceed 64 bits.
