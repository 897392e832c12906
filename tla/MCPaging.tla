------------------------------ MODULE MCPaging ------------------------------
(***************************************************************************)
(* Loader and Paging on small instances: pages of 2 bytes and addresses of *)
(* 4 bits, of which the upper quarter belongs to the kernel.               *)
(***************************************************************************)
EXTENDS Paging

Headers(type, offsets, vaddrs, sizes, writable) ==
  [type : {type}, offset : offsets, vaddr : vaddrs, filesz : sizes, memsz : sizes,
   writable : writable]

\* One segment, with every address and size there is.
OneSegment ==
  {<<s>> : s \in Headers("load", 0 .. 4, 0 .. 15, 0 .. 15, {TRUE})}

\* Two segments that may touch, share pages, or reach to the page of the stack.
TwoSegments ==
  Headers("load", 0 .. 3, {2, 3, 7, 9}, {0, 1, 3, 4}, {FALSE})
    \X Headers("load", {1, 2}, {3, 5, 8}, {0, 2, 3}, {TRUE})

\* A segment after one that is skipped or refused.
OtherSegments ==
  {<<s, t>> : s \in UNION {Headers(type, {0}, {0}, {0}, {FALSE}) : type \in {"ignored", "unsupported"}},
              t \in Headers("load", {1}, {3}, {2}, {TRUE})}

\* Segments of up to three pages, apart, sharing a page, or sharing the stack's.
FaultingSegments ==
  {<<>>} \union
  Headers("load", {0}, {2}, {3, 5}, {FALSE}) \X Headers("load", {1}, {5, 7, 9}, {0, 3}, {TRUE})

NoArguments == <<1>>
CommandLines == UNION {[1 .. n -> 1 .. 4] : n \in 1 .. 4}

Executable(project, phdrs, words, faults) ==
  [project |-> project, phdrs |-> phdrs, length |-> 3, words |-> words, faults |-> faults]

Programs ==
  {Executable(project, s, NoArguments, FALSE) :
     project \in {3, 4}, s \in OneSegment \union TwoSegments \union OtherSegments}
  \union {Executable(4, s, NoArguments, TRUE) : s \in FaultingSegments}
  \union {Executable(4, <<>>, w, FALSE) : w \in CommandLines}
=============================================================================
