------------------------------- MODULE Loader -------------------------------
(***************************************************************************)
(* How start_process() turns an executable into a process, in project3 and *)
(* in project4: the headers of the segments are validated                  *)
(* (validate_segment) and their pages are loaded at once (load_segment of  *)
(* project3) or given entries to be loaded on demand (project4); then the  *)
(* page of the stack is set up (setup_stack) and, in project4, the         *)
(* arguments are pushed on it (construct_esp).  load() and                 *)
(* validate_segment() are the same code in both.  What happens to the      *)
(* entries later is in Paging.                                             *)
(*                                                                         *)
(* One process is loaded, statement by statement where there is a loop.    *)
(* Addresses are words that wrap at Word (2^32 in the code).  The stack    *)
(* is addressed by the distance from PHYS_BASE, which is never positive.   *)
(* Whether there is a free page in the user pool depends on what the other *)
(* processes hold: palloc_get_page() may fail at any time.                 *)
(***************************************************************************)
EXTENDS Integers, Sequences, SequencesExt

CONSTANTS
  PGSIZE,
  PHYS_BASE,  \* user addresses are below
  Word,       \* addresses and sizes are numbers modulo Word
  Program     \* what is loaded: the version of the system (project), the
              \* program headers (phdrs), the length of the file (length), the
              \* lengths of the words of the command line (words), and whether
              \* the process ever touches a page that is not present (faults)

Words == 0 .. Word - 1

\* What load() looks at in a program header.
ProgramHeader ==
  [type : {"load", "ignored", "unsupported"}, offset : Words, vaddr : Words,
   filesz : Words, memsz : Words, writable : BOOLEAN]

ASSUME LoaderAssumption ==
  /\ PGSIZE \in Nat \ {0}
  /\ Word \in Nat /\ Word % PGSIZE = 0
  /\ PHYS_BASE \in PGSIZE + 1 .. Word - 1 /\ PHYS_BASE % PGSIZE = 0
  /\ Program \subseteq
       [project : {3, 4}, phdrs : Seq(ProgramHeader), length : Nat,
        words : Seq(Nat \ {0}) \ {<<>>}, faults : BOOLEAN]

VARIABLES
  program,   \* what is being loaded
  pc,
  i,         \* the loop variable of load(), and of construct_esp()
  seg,       \* the arguments of load_segment(), as it advances them
  vm,        \* t->vm: a function from the addresses of pages to vm_entries
  pagedir,   \* what is in memory: a function from the addresses of pages
  file,      \* the executable: "open" or "closed"
  esp,
  total_len,
  argv,      \* the array in construct_esp()
  strings,   \* the words that have been copied, with their addresses
  stack      \* what else has been pushed: a function from addresses

memVars == <<vm, pagedir>>
loadVars == <<program, memVars, seg, file>>
stackVars == <<esp, total_len, argv, strings, stack>>
vars == <<loadVars, pc, i, stackVars>>

NoSegment == [ofs |-> 0, upage |-> 0, read_bytes |-> 0, zero_bytes |-> 0, writable |-> FALSE]

Empty == [a \in {} |-> 0]

argc == Len(program.words)

LoadInit ==
  /\ program \in Program
  /\ pc = "header"
  /\ i = 1
  /\ seg = NoSegment
  /\ vm = Empty
  /\ pagedir = Empty
  /\ file = "open"
  /\ esp = 0
  /\ total_len = 0
  /\ argv = [k \in 1 .. argc |-> 0]
  /\ strings = {}
  /\ stack = Empty

-----------------------------------------------------------------------------
(***************************************************************************)
(* load()                                                                  *)
(***************************************************************************)

pg_ofs(a) == a % PGSIZE
pg_round_down(a) == a - pg_ofs(a)
Add(a, b) == (a + b) % Word
Sub(a, b) == (a - b) % Word
ROUND_UP(a) == pg_round_down(Add(a, PGSIZE - 1))
is_user_vaddr(a) == a < PHYS_BASE

\* Mutant: without the test for a region that wraps around.
validate_segment_wrap(p, length) ==
  /\ pg_ofs(p.offset) = pg_ofs(p.vaddr)
  /\ p.offset <= length
  /\ p.memsz >= p.filesz
  /\ p.memsz # 0
  /\ is_user_vaddr(p.vaddr) /\ is_user_vaddr(Add(p.vaddr, p.memsz))
  /\ p.vaddr >= PGSIZE

validate_segment(p, length) ==
  /\ pg_ofs(p.offset) = pg_ofs(p.vaddr)
  /\ p.offset <= length
  /\ p.memsz >= p.filesz
  /\ p.memsz # 0
  /\ is_user_vaddr(p.vaddr) /\ is_user_vaddr(Add(p.vaddr, p.memsz))
  /\ Add(p.vaddr, p.memsz) >= p.vaddr
  /\ p.vaddr >= PGSIZE

\* Mutant: the part of the last page behind the segment is not counted.
ZeroBytes_exact(p) ==
  IF p.filesz > 0 THEN Sub(p.memsz, p.filesz) ELSE Add(pg_ofs(p.vaddr), p.memsz)

\* read_bytes and zero_bytes of a segment: up to the end of its last page.
ReadBytes(p) == IF p.filesz > 0 THEN Add(pg_ofs(p.vaddr), p.filesz) ELSE 0
ZeroBytes(p) == Sub(ROUND_UP(Add(pg_ofs(p.vaddr), p.memsz)), ReadBytes(p))

\* The call of load_segment(), and its assertions.
Segment(p) ==
  [ofs |-> pg_round_down(p.offset), upage |-> pg_round_down(p.vaddr),
   read_bytes |-> ReadBytes(p), zero_bytes |-> ZeroBytes(p), writable |-> p.writable]
Asserted(s) ==
  pg_ofs(Add(s.read_bytes, s.zero_bytes)) = 0 /\ pg_ofs(s.upage) = 0 /\ pg_ofs(s.ofs) = 0

\* How much of its next page is read from the file.
PageReadBytes(s) == IF s.read_bytes < PGSIZE THEN s.read_bytes ELSE PGSIZE

\* done: the file is closed; start_process() then ends the thread.
Fail ==
  /\ file' = "closed"
  /\ pc' = "exiting"
  /\ UNCHANGED <<program, memVars, seg, i, stackVars>>

\* No page directory, no such file, no valid ELF header, a header that cannot be
\* read, no page for the stack.
LoadFails == pc \in {"header", "stack"} /\ Fail

phdr == program.phdrs[i]
Header(type) == pc = "header" /\ i <= Len(program.phdrs) /\ phdr.type = type

Ignored ==
  /\ Header("ignored")
  /\ i' = i + 1
  /\ UNCHANGED <<loadVars, pc, stackVars>>

Refused ==
  /\ \/ Header("unsupported")
     \/ Header("load") /\ ~ validate_segment(phdr, program.length)
  /\ Fail

Accepted ==
  /\ Header("load") /\ validate_segment(phdr, program.length)
  /\ seg' = Segment(phdr)
  /\ pc' = IF Asserted(Segment(phdr)) THEN "segment" ELSE "assert"
  /\ i' = i + 1
  /\ UNCHANGED <<program, memVars, file, stackVars>>

-----------------------------------------------------------------------------
(***************************************************************************)
(* The loops of load_segment()                                             *)
(***************************************************************************)

\* The function f with e at a.
At(f, a, e) == [b \in DOMAIN f \union {a} |-> IF b = a THEN e ELSE f[b]]

\* insert_vme(): hash_insert() leaves an entry that is there already.
insert_vme(a, e) == vm' = IF a \in DOMAIN vm THEN vm ELSE At(vm, a, e)

\* Mutants: the last page is read as a whole; the offset in the file is not advanced.
Advance_whole(s) ==
  [ofs |-> Add(s.ofs, PGSIZE), upage |-> Add(s.upage, PGSIZE),
   read_bytes |-> s.read_bytes - PGSIZE, zero_bytes |-> s.zero_bytes,
   writable |-> s.writable]
Advance_same(s) ==
  [ofs |-> s.ofs, upage |-> Add(s.upage, PGSIZE),
   read_bytes |-> s.read_bytes - PageReadBytes(s),
   zero_bytes |-> Sub(s.zero_bytes, PGSIZE - PageReadBytes(s)), writable |-> s.writable]

\* The next page of a segment.
Advance(s) ==
  [ofs |-> Add(s.ofs, PageReadBytes(s)), upage |-> Add(s.upage, PGSIZE),
   read_bytes |-> s.read_bytes - PageReadBytes(s),
   zero_bytes |-> Sub(s.zero_bytes, PGSIZE - PageReadBytes(s)), writable |-> s.writable]

SegmentPage(project) ==
  /\ pc = "segment" /\ program.project = project
  /\ seg.read_bytes > 0 \/ seg.zero_bytes > 0

\* project4: an entry for the page.
EntryPage ==
  /\ SegmentPage(4)
  /\ insert_vme(seg.upage,
                [type |-> "VM_BIN", offset |-> seg.ofs, read_bytes |-> PageReadBytes(seg),
                 writable |-> seg.writable, is_loaded |-> FALSE])
  /\ seg' = Advance(seg)
  /\ UNCHANGED <<program, pagedir, file, pc, i, stackVars>>

\* file_read(): so many bytes at the position ofs are not all there.
Short(ofs, n) == n > 0 /\ ofs + n > program.length

\* project3: the page is read and installed.  seg.ofs is the position of the file,
\* which is set before the loop and moves with every file_read().
EagerPage ==
  /\ SegmentPage(3)
  /\ ~ Short(seg.ofs, PageReadBytes(seg)) /\ seg.upage \notin DOMAIN pagedir
  /\ pagedir' = At(pagedir, seg.upage,
                   [from |-> "exec", offset |-> seg.ofs, read_bytes |-> PageReadBytes(seg),
                    writable |-> seg.writable])
  /\ seg' = Advance(seg)
  /\ UNCHANGED <<program, vm, file, pc, i, stackVars>>

\* No page, a short read (the page is given back), or the page cannot be installed
\* because there is one already or no memory for a page table (given back, too).
EagerFails == SegmentPage(3) /\ Fail

SegmentDone ==
  /\ pc = "segment"
  /\ seg.read_bytes = 0 /\ seg.zero_bytes = 0
  /\ pc' = "header"
  /\ seg' = NoSegment
  /\ UNCHANGED <<program, memVars, file, i, stackVars>>

HeadersDone ==
  /\ pc = "header"
  /\ i > Len(program.phdrs)
  /\ pc' = "stack"
  /\ UNCHANGED <<loadVars, i, stackVars>>

\* setup_stack() and the end of load(): project4 does not look at what insert_vme()
\* returns, project3 has nothing to push.
SetupStack ==
  LET upage == PHYS_BASE - PGSIZE IN
  /\ pc = "stack" /\ upage \notin DOMAIN pagedir
  /\ pagedir' = At(pagedir, upage,
                   [from |-> "zero", offset |-> 0, read_bytes |-> 0, writable |-> TRUE])
  /\ IF program.project = 3 THEN UNCHANGED vm
     ELSE insert_vme(upage, [type |-> "VM_ANON", offset |-> 0, read_bytes |-> 0,
                             writable |-> TRUE, is_loaded |-> TRUE])
  /\ file' = "closed"
  /\ pc' = IF program.project = 3 THEN "user" ELSE "strings"
  /\ i' = argc
  /\ UNCHANGED <<program, seg, stackVars>>

\* process_exit(): the entries are removed and the pages in the page directory are
\* given back.
ProcessExit ==
  /\ pc = "exiting"
  /\ vm' = Empty
  /\ pagedir' = Empty
  /\ pc' = "dead"
  /\ UNCHANGED <<program, seg, file, i, stackVars>>

-----------------------------------------------------------------------------
(***************************************************************************)
(* construct_esp()                                                         *)
(***************************************************************************)

\* The words from the last to the first, each with its NUL.
PushString ==
  /\ pc = "strings" /\ i > 0
  /\ esp' = esp - (program.words[i] + 1)
  /\ total_len' = total_len + program.words[i] + 1
  /\ argv' = [argv EXCEPT ![i] = esp']
  /\ strings' = strings \union {<<esp', i>>}
  /\ i' = i - 1
  /\ UNCHANGED <<loadVars, pc, stack>>

\* Mutant: the bytes beyond the boundary, not those up to it.
Padding_low(n) == n % 4

Padding(n) == (4 - (n % 4)) % 4

\* The padding and the NULL behind the pointers.
PushNull ==
  /\ pc = "strings" /\ i = 0
  /\ esp' = esp - Padding(total_len) - 4
  /\ stack' = At(stack, esp', 0)
  /\ pc' = "pointers"
  /\ i' = argc
  /\ UNCHANGED <<loadVars, total_len, argv, strings>>

PushPointer ==
  /\ pc = "pointers" /\ i > 0
  /\ esp' = esp - 4
  /\ stack' = At(stack, esp', argv[i])
  /\ i' = i - 1
  /\ UNCHANGED <<loadVars, pc, total_len, argv, strings>>

\* argv, argc and the return address; the program starts.
PushFrame ==
  /\ pc = "pointers" /\ i = 0
  /\ esp' = esp - 12
  /\ stack' = At(At(At(stack, esp - 4, esp), esp - 8, argc), esp - 12, 0)
  /\ pc' = "user"
  /\ UNCHANGED <<loadVars, i, total_len, argv, strings>>

-----------------------------------------------------------------------------
LoadNext ==
  \/ LoadFails
  \/ Ignored \/ Refused \/ Accepted
  \/ EntryPage \/ EagerPage \/ EagerFails \/ SegmentDone
  \/ HeadersDone \/ SetupStack \/ ProcessExit
  \/ PushString \/ PushNull \/ PushPointer \/ PushFrame

-----------------------------------------------------------------------------
(***************************************************************************)
(* Properties.                                                             *)
(***************************************************************************)

Loaded == pc \in {"strings", "pointers", "user"}

\* The assertions at the head of load_segment() hold for whatever validate_segment()
\* lets through, although the sizes are computed modulo Word.
AssertionsHold == pc # "assert"

\* validate_segment(): no page is loaded, or given an entry, at page 0 or in the
\* kernel's part of the address space, not even for a segment that wraps around.
UserPagesOnly ==
  \A a \in DOMAIN vm \union DOMAIN pagedir : pg_ofs(a) = 0 /\ a >= PGSIZE /\ is_user_vaddr(a)

\* The pages of the segment of header j.
PagesOf(j) ==
  LET s == program.phdrs[j] IN
  IF s.type # "load" THEN {}
  ELSE {pg_round_down(a) : a \in s.vaddr .. s.vaddr + s.memsz - 1}

\* What load() has made of the pages: memory in project3, entries in project4.
image == IF program.project = 3 THEN pagedir ELSE vm

\* What address a shows, or will show once its page is loaded as its entry says: a
\* byte of the file (positions are words, too), or zero.
ZERO == -1
Shows(a) ==
  LET e == image[pg_round_down(a)] IN
  IF pg_ofs(a) < e.read_bytes THEN Add(e.offset, pg_ofs(a)) ELSE ZERO

\* load_segment() of both versions: the first p_filesz bytes of a segment come from
\* p_offset on, the others are zero, wherever it begins and ends in its pages and in
\* the file, and its pages are as writable as its header says.  (If two segments, or a
\* segment and the stack, share a page, project4 leaves one out of it; project3 fails.)
SegmentsLoaded ==
  Loaded =>
    \A j \in DOMAIN program.phdrs :
      LET s == program.phdrs[j] IN
      s.type = "load" =>
        \A a \in s.vaddr .. s.vaddr + s.memsz - 1 :
          /\ pg_round_down(a) # PHYS_BASE - PGSIZE
          /\ \A k \in DOMAIN program.phdrs \ {j} : pg_round_down(a) \notin PagesOf(k)
          =>
             /\ pg_round_down(a) \in DOMAIN image
             /\ Shows(a) = IF a < s.vaddr + s.filesz THEN Add(s.offset, a - s.vaddr) ELSE ZERO
             /\ image[pg_round_down(a)].writable = s.writable

\* construct_esp() of project4: main (argc, argv) finds its arguments where the calling
\* convention says, aligned, argv[argc] is NULL, and nothing has been overwritten.
ArgumentsPassed ==
  pc = "user" /\ program.project = 4 =>
    /\ esp % 4 = 0
    /\ stack[esp + 4] = argc
    /\ LET v == stack[esp + 8] IN
       /\ \A k \in 1 .. argc : <<stack[v + 4 * (k - 1)], k>> \in strings
       /\ stack[v + 4 * argc] = 0
    /\ \A s \in strings :
         /\ s[1] + program.words[s[2]] < 0
         /\ \A a \in DOMAIN stack : a + 3 < s[1] \/ a > s[1] + program.words[s[2]]
         /\ \A r \in strings \ {s} : r[1] + program.words[r[2]] < s[1] \/ r[1] > s[1] + program.words[s[2]]
=============================================================================
