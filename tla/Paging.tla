------------------------------- MODULE Paging -------------------------------
(***************************************************************************)
(* The life of a process's pages: Loader puts entries into t->vm, and in   *)
(* project4 page_fault() loads a page by the entry that find_vme() returns *)
(* (handle_mm_fault, load_file, install_page), until process_exit() gives  *)
(* everything back.  In project3 a page fault just ends the process.       *)
(*                                                                         *)
(* page.c and page.h are taken as they read once they compile (a second    *)
(* declaration of vme, a misspelt void and a missing semicolon).  Two uses *)
(* of wrong memory remain, and are choices here: find_vme() hands          *)
(* hash_find() the address of another member than elem, so the key is what *)
(* lies on the stack beside it; and the entries name a file that load()    *)
(* has closed, so load_file() reads whatever its memory has become.        *)
(* A handler may fault itself (it runs in the kernel with interrupts on).  *)
(***************************************************************************)
EXTENDS Loader

CONSTANT MaxDepth  \* how many handlers the kernel stack of the thread holds

ASSUME PagingAssumption == MaxDepth \in Nat

VARIABLES
  spare,       \* pages this process has taken from the user pool and neither
               \* installed nor given back
  vme,         \* the page whose entry is being loaded, or NULL
  interrupted  \* the handlers that have run into a fault of their own

faultVars == <<spare, vme, interrupted>>
pagingVars == <<vars, faultVars>>

\* No entry: page 0 has none.
NULL == 0

\* What a fault leaves alone of the process: all but its memory and pc.
Kept == UNCHANGED <<program, seg, file, i, stackVars>>

\* thread_exit(), from wherever.
exit ==
  /\ pc' = "exiting"
  /\ vme' = NULL
  /\ UNCHANGED interrupted

Init == LoadInit /\ spare = 0 /\ vme = NULL /\ interrupted = <<>>

-----------------------------------------------------------------------------
(***************************************************************************)
(* page_fault() and find_vme()                                             *)
(***************************************************************************)

\* The program, or a system call, touches a page that is not present.
PageFault ==
  /\ pc = "user" /\ program.project = 4 /\ program.faults
  /\ pc' = "find"
  /\ Kept /\ UNCHANGED <<memVars, faultVars>>

\* It ends, by exit() or by an access that its page does not allow (in project3 by
\* any page fault).
ProcessEnds ==
  /\ pc = "user"
  /\ exit
  /\ Kept /\ UNCHANGED <<memVars, spare>>

FindVme ==
  /\ pc = "find"
  /\ vme' \in DOMAIN vm \union {NULL}
  /\ pc' = "palloc"
  /\ Kept /\ UNCHANGED <<memVars, spare, interrupted>>

-----------------------------------------------------------------------------
(***************************************************************************)
(* handle_mm_fault()                                                       *)
(***************************************************************************)

NoPage ==
  /\ pc = "palloc"
  /\ exit
  /\ Kept /\ UNCHANGED <<memVars, spare>>

GetPage ==
  /\ pc = "palloc"
  /\ spare' = spare + 1
  /\ pc' = "switch"
  /\ Kept /\ UNCHANGED <<memVars, vme, interrupted>>

\* A fault in the handler: a handler for it is stacked, or the stack overflows.
KernelFault ==
  /\ IF Len(interrupted) < MaxDepth
       THEN /\ interrupted' = Append(interrupted, [pc |-> pc, vme |-> vme])
            /\ pc' = "find"
       ELSE /\ pc' = "panic"
            /\ UNCHANGED interrupted
  /\ vme' = NULL
  /\ Kept /\ UNCHANGED <<memVars, spare>>

\* vme->type of no entry.
NullEntry == pc = "switch" /\ vme = NULL /\ KernelFault

Switch ==
  /\ pc = "switch" /\ vme # NULL
  /\ pc' = IF vm[vme].type = "VM_BIN" THEN "bin" ELSE "install"
  /\ Kept /\ UNCHANGED <<memVars, faultVars>>

\* load_file(): VM_BIN falls through to VM_FILE, which reads the page again.
LoadFile ==
  /\ pc \in {"bin", "file"}
  /\ file = "open" => ~ Short(vm[vme].offset, vm[vme].read_bytes)
  /\ pc' = IF pc = "bin" THEN "file" ELSE "install"
  /\ Kept /\ UNCHANGED <<memVars, faultVars>>

\* The page in hand is given back, the fault is not handled, the process ends.
GiveBack ==
  /\ spare' = spare - 1
  /\ exit
  /\ Kept /\ UNCHANGED memVars

LoadFileFails ==
  /\ pc \in {"bin", "file"}
  /\ file = "open" => Short(vm[vme].offset, vm[vme].read_bytes)
  /\ GiveBack

\* The memory of the closed file is no file: file_read() follows its pointers, or
\* fails an assertion.
LoadFileFaults ==
  /\ pc \in {"bin", "file"} /\ file = "closed"
  /\ \/ KernelFault
     \/ pc' = "panic" /\ Kept /\ UNCHANGED <<memVars, faultVars>>

\* Mutant: the page is not given back.
InstallFails_keep ==
  /\ pc = "install"
  /\ exit
  /\ Kept /\ UNCHANGED <<memVars, spare>>

\* install_page(): the page is mapped already, or there is no memory for a table.
InstallFails == pc = "install" /\ GiveBack

\* The handler returns true, and what it has interrupted is tried again.
Resume ==
  IF interrupted = <<>>
    THEN pc' = "user" /\ vme' = NULL /\ UNCHANGED interrupted
    ELSE /\ pc' = Last(interrupted).pc
         /\ vme' = Last(interrupted).vme
         /\ interrupted' = Front(interrupted)

\* What the page shows: load_file() has read the executable or, once that is closed,
\* what its memory has become; nothing is read for VM_ANON.
Content(e) ==
  [from |-> IF e.type = "VM_ANON" THEN "none" ELSE IF file = "open" THEN "exec" ELSE "other",
   offset |-> e.offset, read_bytes |-> e.read_bytes, writable |-> e.writable]

\* Mutant: install_page() does not look whether there is a page already.
Install_again ==
  /\ pc = "install"
  /\ pagedir' = At(pagedir, vme, Content(vm[vme]))
  /\ vm' = [vm EXCEPT ![vme].is_loaded = TRUE]
  /\ spare' = spare - 1
  /\ IF vm[vme].type = "VM_BIN" THEN Resume ELSE exit
  /\ Kept

\* success is still false for VM_ANON: the page is there, but the process ends.
Install ==
  /\ pc = "install" /\ vme \notin DOMAIN pagedir
  /\ pagedir' = At(pagedir, vme, Content(vm[vme]))
  /\ vm' = [vm EXCEPT ![vme].is_loaded = TRUE]
  /\ spare' = spare - 1
  /\ IF vm[vme].type = "VM_BIN" THEN Resume ELSE exit
  /\ Kept

-----------------------------------------------------------------------------
LoadStep == LoadNext /\ UNCHANGED faultVars

HandlerStep ==
  \/ FindVme \/ NoPage \/ GetPage
  \/ NullEntry \/ Switch
  \/ LoadFile \/ LoadFileFails \/ LoadFileFaults
  \/ InstallFails \/ Install

Next == LoadStep \/ HandlerStep \/ PageFault \/ ProcessEnds

\* The process need not fault or end; what the kernel does for it goes on.
Spec ==
  /\ Init
  /\ [][Next]_pagingVars
  /\ WF_pagingVars(LoadStep) /\ WF_pagingVars(HandlerStep)

-----------------------------------------------------------------------------
(***************************************************************************)
(* Properties (with those of Loader).                                      *)
(***************************************************************************)

Label == {"header", "segment", "stack", "strings", "pointers", "user", "exiting", "dead",
          "assert", "find", "palloc", "switch", "bin", "file", "install", "panic"}
SegmentCall ==
  [ofs : Words, upage : Words, read_bytes : Words, zero_bytes : Words, writable : BOOLEAN]
VmEntry ==
  [type : {"VM_BIN", "VM_ANON"}, offset : Words, read_bytes : 0 .. PGSIZE,
   writable : BOOLEAN, is_loaded : BOOLEAN]
PageContent ==
  [from : {"exec", "zero", "other", "none"}, offset : Words, read_bytes : 0 .. PGSIZE,
   writable : BOOLEAN]

TypeOK ==
  /\ pc \in Label
  /\ seg \in SegmentCall
  /\ \A a \in DOMAIN vm : vm[a] \in VmEntry
  /\ \A a \in DOMAIN pagedir : pagedir[a] \in PageContent
  /\ spare \in Nat
  /\ file \in {"open", "closed"}
  /\ vme \in DOMAIN vm \union {NULL}
  /\ Len(interrupted) <= MaxDepth
  /\ i \in Nat /\ esp \in Int /\ esp <= 0 /\ total_len \in Nat
  /\ argv \in [1 .. argc -> Int]

\* Where handle_mm_fault() holds a page.
Holding == {"switch", "bin", "file", "install"}

\* handle_mm_fault() and load_segment(): whatever fails on the way, a page taken from
\* the user pool is installed or given back.  Only the handlers that were interrupted
\* by a fault of their own hold on to one; if the innermost of them ends the process,
\* the pages of the others are lost.
PagesAccounted ==
  pc # "panic" => spare = Len(interrupted) + (IF pc \in Holding THEN 1 ELSE 0)

\* install_page(): a page of the program stays in place until process_exit(), although
\* find_vme() may return the entry of a page that is loaded already: no page is covered
\* by another and lost.
PageStays ==
  [][pc # "exiting" => \A a \in DOMAIN pagedir : a \in DOMAIN pagedir' /\ pagedir'[a] = pagedir[a]]_pagingVars

\* load() and every page fault come to an end, in the program or with it: the sizes in
\* load_segment() both reach 0, and a fault that repeats itself finds in the end a page
\* that is there already.
Settles == pc # "user" ~> pc \in {"user", "dead", "panic"}
=============================================================================
