--------------------------- MODULE PagingProofs -----------------------------
(***************************************************************************)
(* For every program, page size, word and depth of the kernel stack: every *)
(* page is in its place or in the hands of a handler, and none is covered  *)
(* by another; what load() maps is the user's, and shows what the program  *)
(* headers say; main() finds its arguments.                                *)
(***************************************************************************)
EXTENDS Paging, SequenceTheorems, TLAPS

-----------------------------------------------------------------------------
(***************************************************************************)
(* Every step of load() leaves what a handler works with alone, and moves  *)
(* outside of handle_mm_fault().                                           *)
(***************************************************************************)

LoadLabel == {"header", "segment", "stack", "strings", "pointers", "user", "exiting", "dead", "assert"}

LEMMA LoadStaysOutside ==
  ASSUME LoadStep
  PROVE  /\ pc \in LoadLabel /\ pc' \in LoadLabel
         /\ spare' = spare /\ interrupted' = interrupted
<1>1. spare' = spare /\ interrupted' = interrupted
  BY DEF LoadStep, faultVars
<1>2. CASE LoadFails \/ Refused \/ EagerFails
  BY <1>1, <1>2 DEF LoadFails, Refused, EagerFails, Header, SegmentPage, Fail, LoadLabel
<1>3. CASE Ignored \/ Accepted \/ HeadersDone
  BY <1>1, <1>3 DEF Ignored, Accepted, HeadersDone, Header, LoadLabel
<1>4. CASE EntryPage \/ EagerPage \/ SegmentDone
  BY <1>1, <1>4 DEF EntryPage, EagerPage, SegmentDone, SegmentPage, LoadLabel
<1>5. CASE SetupStack \/ ProcessExit
  BY <1>1, <1>5 DEF SetupStack, ProcessExit, LoadLabel
<1>6. CASE PushString \/ PushNull \/ PushPointer \/ PushFrame
  BY <1>1, <1>6 DEF PushString, PushNull, PushPointer, PushFrame, LoadLabel
<1> QED BY <1>1, <1>2, <1>3, <1>4, <1>5, <1>6 DEF LoadStep, LoadNext

-----------------------------------------------------------------------------
(***************************************************************************)
(* The stack of interrupted handlers.                                      *)
(***************************************************************************)

\* Each of them was in handle_mm_fault(), with its page in hand.
HandlersHold ==
  /\ \E S : interrupted \in Seq(S)
  /\ \A k \in 1 .. Len(interrupted) : interrupted[k].pc \in Holding

LEMMA PushHandler ==
  ASSUME HandlersHold, NEW r, r.pc \in Holding, interrupted' = Append(interrupted, r)
  PROVE  /\ HandlersHold' /\ Len(interrupted') = Len(interrupted) + 1
         /\ \A k \in 1 .. Len(interrupted') :
              interrupted'[k] = r
              \/ \E j \in 1 .. Len(interrupted) : interrupted'[k] = interrupted[j]
<1>1. PICK S : interrupted \in Seq(S)
  BY DEF HandlersHold
<1> DEFINE T == S \union {r}
<1>2. interrupted \in Seq(T) /\ r \in T
  BY <1>1, SeqMonotonic
<1>3. /\ interrupted' \in Seq(T)
      /\ Len(interrupted') = Len(interrupted) + 1
      /\ \A k \in 1 .. Len(interrupted) : interrupted'[k] = interrupted[k]
      /\ interrupted'[Len(interrupted) + 1] = r
  BY <1>2, AppendProperties
<1>4. Len(interrupted) \in Nat
  BY <1>1, LenProperties
<1>5. ASSUME NEW k \in 1 .. Len(interrupted')
      PROVE  /\ interrupted'[k].pc \in Holding
             /\ \/ interrupted'[k] = r
                \/ \E j \in 1 .. Len(interrupted) : interrupted'[k] = interrupted[j]
  <2>1. k \in 1 .. Len(interrupted) \/ k = Len(interrupted) + 1
    BY <1>3, <1>4, SMT
  <2> QED BY <2>1, <1>3 DEF HandlersHold
<1> QED BY <1>3, <1>5 DEF HandlersHold

LEMMA PopHandler ==
  ASSUME HandlersHold, interrupted # <<>>, interrupted' = Front(interrupted)
  PROVE  /\ HandlersHold' /\ Len(interrupted') = Len(interrupted) - 1
         /\ Last(interrupted).pc \in Holding
         /\ \E j \in 1 .. Len(interrupted) : Last(interrupted) = interrupted[j]
         /\ \A k \in 1 .. Len(interrupted') :
              \E j \in 1 .. Len(interrupted) : interrupted'[k] = interrupted[j]
<1>1. PICK S : interrupted \in Seq(S)
  BY DEF HandlersHold
<1> DEFINE n == Len(interrupted)
<1>2. n \in Nat \ {0}
  BY <1>1, LenProperties, EmptySeq, SMT
<1>3. /\ interrupted' \in Seq(S) /\ Len(interrupted') = n - 1
      /\ \A k \in 1 .. n - 1 : interrupted'[k] = interrupted[k]
  <2> DEFINE m == n - 1
  <2>1. m \in Int /\ m >= 0 /\ n = m + 1 /\ interrupted' = SubSeq(interrupted, 1, m)
    BY <1>2, SMT DEF Front
  <2>2. \A k \in 1 .. m : interrupted[k] \in S
    BY <1>1, <2>1, SMT
  <2> HIDE DEF m, n
  <2>3. /\ SubSeq(interrupted, 1, m) \in Seq(S)
        /\ Len(SubSeq(interrupted, 1, m)) = IF 1 <= m THEN m - 1 + 1 ELSE 0
        /\ \A k \in 1 .. m - 1 + 1 : SubSeq(interrupted, 1, m)[k] = interrupted[1 + k - 1]
    BY <2>1, <2>2, SubSeqProperties
  <2>4. Len(interrupted') = m /\ \A k \in 1 .. m : interrupted'[k] = interrupted[k]
    BY <2>1, <2>3, SMT
  <2> QED BY <2>1, <2>3, <2>4 DEF m
<1>4. /\ Last(interrupted).pc \in Holding
      /\ \E j \in 1 .. Len(interrupted) : Last(interrupted) = interrupted[j]
  <2>1. n \in 1 .. n
    BY <1>2, SMT
  <2> QED BY <2>1 DEF HandlersHold, Last
<1>5. ASSUME NEW k \in 1 .. Len(interrupted')
      PROVE  /\ interrupted'[k].pc \in Holding
             /\ \E j \in 1 .. Len(interrupted) : interrupted'[k] = interrupted[j]
  <2>1. k \in 1 .. n - 1 /\ k \in 1 .. n
    BY <1>2, <1>3, SMT
  <2> QED BY <2>1, <1>3 DEF HandlersHold
<1> QED BY <1>3, <1>4, <1>5 DEF HandlersHold

-----------------------------------------------------------------------------
(***************************************************************************)
(* Pages are accounted for.                                                *)
(***************************************************************************)

AccountInv == HandlersHold /\ PagesAccounted

LEMMA LengthIsNat == HandlersHold => Len(interrupted) \in Nat
BY LenProperties DEF HandlersHold

\* A step that neither takes nor gives a page, and begins and ends holding as many.
LEMMA SameAccount ==
  ASSUME AccountInv, UNCHANGED <<spare, interrupted>>, pc # "panic",
         pc' = "panic" \/ (pc \in Holding <=> pc' \in Holding)
  PROVE  AccountInv'
BY DEF AccountInv, HandlersHold, PagesAccounted, Holding

LEMMA KernelFaultInv ==
  ASSUME AccountInv, pc \in Holding, KernelFault
  PROVE  AccountInv'
<1>1. spare' = spare /\ pc # "panic"
  BY DEF KernelFault, Holding
<1>2. CASE Len(interrupted) < MaxDepth
  <2>1. /\ interrupted' = Append(interrupted, [pc |-> pc, vme |-> vme])
        /\ pc' = "find"
    BY <1>2 DEF KernelFault
  <2>2. HandlersHold' /\ Len(interrupted') = Len(interrupted) + 1
    <3>1. [pc |-> pc, vme |-> vme].pc \in Holding
      OBVIOUS
    <3> QED BY <2>1, <3>1, PushHandler DEF AccountInv
  <2>3. spare = Len(interrupted) + 1
    BY <1>1 DEF AccountInv, PagesAccounted
  <2>4. Len(interrupted) \in Nat
    BY LengthIsNat DEF AccountInv
  <2>5. spare' = Len(interrupted') + 0
    BY <1>1, <2>2, <2>3, <2>4, SMT
  <2>6. pc' \notin Holding
    BY <2>1 DEF Holding
  <2> QED BY <2>2, <2>5, <2>6 DEF AccountInv, PagesAccounted
<1>3. CASE ~ (Len(interrupted) < MaxDepth)
  <2>1. pc' = "panic" /\ interrupted' = interrupted
    BY <1>3 DEF KernelFault
  <2> QED BY <1>1, <2>1 DEF AccountInv, HandlersHold, PagesAccounted
<1> QED BY <1>2, <1>3

\* The page in hand is given back or installed, and the handler ends or returns.
LEMMA PageGoneInv ==
  ASSUME AccountInv, pc \in Holding, spare' = spare - 1, exit \/ Resume
  PROVE  AccountInv'
<1>1. Len(interrupted) \in Nat /\ spare = Len(interrupted) + 1
  BY LengthIsNat DEF AccountInv, PagesAccounted, Holding
<1>2. spare' = Len(interrupted)
  BY <1>1, SMT
<1>3. CASE interrupted' = interrupted /\ pc' \in {"exiting", "user"}
  <2>1. spare' = Len(interrupted') + 0
    BY <1>1, <1>2, <1>3, SMT
  <2>2. pc' \notin Holding
    BY <1>3 DEF Holding
  <2>3. HandlersHold'
    BY <1>3 DEF AccountInv, HandlersHold
  <2> QED BY <2>1, <2>2, <2>3 DEF AccountInv, PagesAccounted
<1>4. CASE interrupted # <<>> /\ interrupted' = Front(interrupted) /\ pc' = Last(interrupted).pc
  <2>1. HandlersHold' /\ Len(interrupted') = Len(interrupted) - 1 /\ pc' \in Holding
    BY <1>4, PopHandler DEF AccountInv
  <2>2. spare' = Len(interrupted') + 1
    BY <1>1, <1>2, <2>1, SMT
  <2> QED BY <2>1, <2>2 DEF AccountInv, PagesAccounted
<1> QED BY <1>3, <1>4 DEF exit, Resume

LEMMA HandlerInv ==
  ASSUME AccountInv, HandlerStep
  PROVE  AccountInv'
<1>1. CASE FindVme \/ NoPage
  BY <1>1, SameAccount DEF FindVme, NoPage, exit, Holding
<1>2. CASE GetPage
  <2>1. /\ pc = "palloc" /\ pc' = "switch" /\ spare' = spare + 1 /\ interrupted' = interrupted
    BY <1>2 DEF GetPage
  <2>2. Len(interrupted) \in Nat /\ spare = Len(interrupted) + 0
    BY <2>1, LengthIsNat DEF AccountInv, PagesAccounted, Holding
  <2>3. spare' = Len(interrupted') + 1
    BY <2>1, <2>2, SMT
  <2>4. HandlersHold' /\ pc' \in Holding
    BY <2>1 DEF AccountInv, HandlersHold, Holding
  <2> QED BY <2>3, <2>4 DEF AccountInv, PagesAccounted
<1>3. CASE NullEntry
  BY <1>3, KernelFaultInv DEF NullEntry, Holding
<1>4. CASE Switch \/ LoadFile
  BY <1>4, SameAccount DEF Switch, LoadFile, faultVars, Holding
<1>5. CASE LoadFileFails \/ InstallFails
  BY <1>5, PageGoneInv DEF LoadFileFails, InstallFails, GiveBack, Holding
<1>6. CASE LoadFileFaults
  <2>1. pc \in Holding /\ pc # "panic"
    BY <1>6 DEF LoadFileFaults, Holding
  <2>2. CASE KernelFault
    BY <2>1, <2>2, KernelFaultInv
  <2>3. CASE pc' = "panic" /\ UNCHANGED faultVars
    BY <2>1, <2>3, SameAccount DEF faultVars
  <2> QED BY <1>6, <2>2, <2>3 DEF LoadFileFaults
<1>7. CASE Install
  BY <1>7, PageGoneInv DEF Install, Holding
<1> QED BY <1>1, <1>2, <1>3, <1>4, <1>5, <1>6, <1>7 DEF HandlerStep

LEMMA AccountInit == Init => AccountInv
<1> SUFFICES ASSUME Init PROVE AccountInv
  OBVIOUS
<1>1. pc = "header" /\ spare = 0 /\ interrupted = <<>>
  BY DEF Init, LoadInit
<1>2. Len(interrupted) = 0 /\ interrupted \in Seq({})
  BY <1>1
<1>3. \A k \in 1 .. Len(interrupted) : interrupted[k].pc \in Holding
  BY <1>2, SMT
<1> QED BY <1>1, <1>2, <1>3 DEF AccountInv, HandlersHold, PagesAccounted, Holding

LEMMA AccountStep == AccountInv /\ [Next]_pagingVars => AccountInv'
<1> SUFFICES ASSUME AccountInv, [Next]_pagingVars PROVE AccountInv'
  OBVIOUS
<1>1. CASE LoadStep
  BY <1>1, LoadStaysOutside, SameAccount DEF LoadLabel, Holding
<1>2. CASE HandlerStep
  BY <1>2, HandlerInv
<1>3. CASE PageFault \/ ProcessEnds
  BY <1>3, SameAccount DEF PageFault, ProcessEnds, exit, faultVars, Holding
<1>4. CASE UNCHANGED pagingVars
  BY <1>4 DEF pagingVars, vars, faultVars, AccountInv, HandlersHold, PagesAccounted
<1> QED BY <1>1, <1>2, <1>3, <1>4 DEF Next

\* handle_mm_fault() and load_segment(): a page taken from the user pool is installed,
\* given back, or held by a handler that was interrupted by a fault of its own.
THEOREM AccountsBalance == Spec => []PagesAccounted
<1>1. AccountInv => PagesAccounted
  BY DEF AccountInv
<1> QED BY <1>1, AccountInit, AccountStep, PTL DEF Spec

-----------------------------------------------------------------------------
(***************************************************************************)
(* Pages stay.                                                             *)
(***************************************************************************)

\* Every page that was there is still there, and shows the same.
Kept_pages == \A a \in DOMAIN pagedir : a \in DOMAIN pagedir' /\ pagedir'[a] = pagedir[a]

\* install_page(): a page put where none was leaves the others alone.
LEMMA AtKeeps ==
  ASSUME NEW a, a \notin DOMAIN pagedir, NEW e, pagedir' = At(pagedir, a, e)
  PROVE  Kept_pages
BY DEF At, Kept_pages

\* install_page(), whoever calls it, never puts a page in the place of another.
THEOREM PagesStay == Spec => PageStays
<1>1. [Next]_pagingVars => (pc # "exiting" => Kept_pages)
  <2> SUFFICES ASSUME [Next]_pagingVars, pc # "exiting" PROVE Kept_pages
    OBVIOUS
  <2>1. CASE pagedir' = pagedir
    BY <2>1 DEF Kept_pages
  <2>2. CASE EagerPage
    BY <2>2, AtKeeps DEF EagerPage
  <2>3. CASE SetupStack
    BY <2>3, AtKeeps DEF SetupStack
  <2>4. CASE Install
    BY <2>4, AtKeeps DEF Install
  <2>5. CASE LoadStep
    <3>1. CASE LoadFails \/ Refused \/ EagerFails
      BY <3>1, <2>1 DEF LoadFails, Refused, EagerFails, Fail, memVars
    <3>2. CASE Ignored \/ Accepted \/ HeadersDone \/ EntryPage \/ SegmentDone
      BY <3>2, <2>1 DEF Ignored, Accepted, HeadersDone, EntryPage, SegmentDone, memVars, loadVars
    <3>3. CASE PushString \/ PushNull \/ PushPointer \/ PushFrame
      BY <3>3, <2>1 DEF PushString, PushNull, PushPointer, PushFrame, memVars, loadVars
    <3>4. ~ ProcessExit
      BY DEF ProcessExit
    <3> QED BY <2>2, <2>3, <2>5, <3>1, <3>2, <3>3, <3>4 DEF LoadStep, LoadNext
  <2>6. CASE HandlerStep
    <3>1. CASE FindVme \/ NoPage \/ GetPage \/ Switch \/ LoadFile
      BY <3>1, <2>1 DEF FindVme, NoPage, GetPage, Switch, LoadFile, memVars
    <3>2. CASE NullEntry \/ LoadFileFaults
      BY <3>2, <2>1 DEF NullEntry, LoadFileFaults, KernelFault, memVars
    <3>3. CASE LoadFileFails \/ InstallFails
      BY <3>3, <2>1 DEF LoadFileFails, InstallFails, GiveBack, memVars
    <3> QED BY <2>4, <2>6, <3>1, <3>2, <3>3 DEF HandlerStep
  <2>7. CASE PageFault \/ ProcessEnds
    BY <2>7, <2>1 DEF PageFault, ProcessEnds, memVars
  <2>8. CASE UNCHANGED pagingVars
    BY <2>8, <2>1 DEF pagingVars, vars, loadVars, memVars
  <2> QED BY <2>5, <2>6, <2>7, <2>8 DEF Next
<1> QED BY <1>1, PTL DEF Spec, PageStays, Kept_pages

-----------------------------------------------------------------------------
(***************************************************************************)
(* Addresses and pages.                                                    *)
(***************************************************************************)

LEMMA MulLess ==
  ASSUME NEW m \in Nat \ {0}, NEW x \in Int, NEW y \in Int
  PROVE  m * x < m * y <=> x < y
BY Z3

LEMMA MulMod ==
  ASSUME NEW m \in Nat \ {0}, NEW q \in Int, NEW r \in 0 .. m - 1
  PROVE  (m * q + r) % m = r
BY Z3

LEMMA DivMod ==
  ASSUME NEW a \in Int, NEW m \in Nat \ {0}
  PROVE  a = m * (a \div m) + (a % m) /\ a \div m \in Int /\ a % m \in 0 .. m - 1
BY Z3

\* A sum that does not wrap.
LEMMA NoWrap ==
  ASSUME NEW a \in Words
  PROVE  a % Word = a
<1>1. Word \in Nat \ {0} /\ a \in 0 .. Word - 1
  BY LoaderAssumption, SMT DEF Words
<1> QED BY <1>1, Z3

LEMMA AddIsWord ==
  ASSUME NEW a \in Int, NEW b \in Int
  PROVE  Add(a, b) \in Words /\ Sub(a, b) \in Words
<1>1. Word \in Nat \ {0}
  BY LoaderAssumption, SMT
<1> QED BY <1>1, DivMod DEF Add, Sub, Words

LEMMA AlignedSum ==
  ASSUME NEW a \in Int, NEW b \in Int, pg_ofs(a) = 0, pg_ofs(b) = 0
  PROVE  pg_ofs(a + b) = 0 /\ pg_ofs(a - b) = 0
<1> DEFINE m == PGSIZE
           x == a \div m
           y == b \div m
<1>1. m \in Nat \ {0}
  BY LoaderAssumption
<1>2. a = m * x /\ b = m * y /\ x \in Int /\ y \in Int
  BY <1>1, DivMod, SMT DEF pg_ofs
<1> HIDE DEF x, y, m
<1>3. a + b = m * (x + y) + 0 /\ a - b = m * (x - y) + 0
  BY <1>1, <1>2, Z3
<1>4. 0 \in 0 .. m - 1 /\ x + y \in Int /\ x - y \in Int
  BY <1>1, <1>2, SMT
<1>5. (a + b) % m = 0 /\ (a - b) % m = 0
  BY <1>1, <1>3, <1>4, MulMod
<1> QED BY <1>5 DEF pg_ofs, m

\* Between two pages lies at least a page.
LEMMA AlignedNext ==
  ASSUME NEW a \in Int, NEW b \in Int, pg_ofs(a) = 0, pg_ofs(b) = 0, a < b
  PROVE  a + PGSIZE <= b
<1> DEFINE m == PGSIZE
           x == a \div m
           y == b \div m
<1>1. m \in Nat \ {0}
  BY LoaderAssumption
<1>2. a = m * x /\ b = m * y /\ x \in Int /\ y \in Int
  BY <1>1, DivMod, SMT DEF pg_ofs
<1> HIDE DEF x, y
<1>3. x < y
  BY <1>1, <1>2, MulLess DEF m
<1>4. ~ (m * y < m * (x + 1)) /\ m * (x + 1) = a + m
  <2>1. x + 1 \in Int /\ ~ (y < x + 1)
    BY <1>2, <1>3, SMT
  <2>2. ~ (m * y < m * (x + 1))
    BY <1>1, <1>2, <2>1, MulLess
  <2>3. m * (x + 1) = a + m
    BY <1>1, <1>2, Z3
  <2> QED BY <2>2, <2>3
<1> QED BY <1>1, <1>2, <1>4, SMT DEF m

LEMMA RoundDown ==
  ASSUME NEW a \in Nat
  PROVE  /\ pg_ofs(a) \in 0 .. PGSIZE - 1
         /\ pg_round_down(a) \in Nat /\ pg_ofs(pg_round_down(a)) = 0
         /\ pg_round_down(a) <= a /\ a < pg_round_down(a) + PGSIZE
<1> DEFINE m == PGSIZE
           d == a \div m
           r == a % m
<1>1. m \in Nat \ {0}
  BY LoaderAssumption
<1>2. a = m * d + r /\ d \in Int /\ r \in 0 .. m - 1
  BY <1>1, DivMod
<1> HIDE DEF d, r
<1>3. d \in Nat
  <2>1. CASE d < 0
    <3>1. ~ (m * 0 < m * (d + 1))
      <4>1. d + 1 \in Int /\ ~ (0 < d + 1)
        BY <1>2, <2>1, SMT
      <4> QED BY <1>1, <4>1, MulLess
    <3>2. m * (d + 1) = m * d + m /\ m * 0 = 0
      BY <1>1, <1>2, Z3
    <3>3. m * d \in Int
      BY <1>1, <1>2, Z3
    <3> QED BY <1>1, <1>2, <3>1, <3>2, <3>3, SMT
  <2> QED BY <1>2, <2>1, SMT
<1>4. pg_round_down(a) = m * d + 0 /\ m * d \in Nat
  <2>1. m * d \in Nat
    BY <1>1, <1>3, Z3
  <2>2. pg_round_down(a) = (m * d + r) - r
    BY <1>2 DEF pg_round_down, pg_ofs, r
  <2> QED BY <1>2, <2>1, <2>2, SMT
<1>5. (m * d + 0) % m = 0
  BY <1>1, <1>2, MulMod, SMT
<1>6. pg_ofs(a) = r
  BY DEF pg_ofs, r
<1>7. pg_round_down(a) <= a /\ a < pg_round_down(a) + m
  <2>1. m * d \in Nat /\ pg_round_down(a) = m * d
    BY <1>4, SMT
  <2> QED BY <1>1, <1>2, <2>1, SMT
<1> QED BY <1>2, <1>4, <1>5, <1>6, <1>7, SMT DEF pg_ofs, m

-----------------------------------------------------------------------------
(***************************************************************************)
(* What validate_segment() lets through, and load_segment() makes of it.   *)
(***************************************************************************)

\* The pages that are left of a segment are the user's.
Fits(s) ==
  /\ pg_ofs(s.upage) = 0 /\ s.upage >= PGSIZE
  /\ pg_ofs(s.read_bytes + s.zero_bytes) = 0
  /\ s.upage + s.read_bytes + s.zero_bytes <= PHYS_BASE

\* validate_segment(): no region wraps around.
LEMMA ValidRegion ==
  ASSUME NEW s \in ProgramHeader, NEW l \in Nat, validate_segment(s, l)
  PROVE  /\ s.vaddr + s.memsz < PHYS_BASE /\ 0 < s.memsz /\ s.filesz <= s.memsz
         /\ pg_round_down(s.vaddr) >= PGSIZE
<1> DEFINE v == s.vaddr
           n == s.memsz
<1>1. /\ Word \in Nat /\ PGSIZE \in Nat \ {0} /\ PHYS_BASE \in PGSIZE + 1 .. Word - 1
      /\ v \in 0 .. Word - 1 /\ n \in 0 .. Word - 1 /\ s.filesz \in 0 .. Word - 1
  BY LoaderAssumption, SMT DEF ProgramHeader, Words
<1>2. n # 0 /\ s.filesz <= n /\ v >= PGSIZE /\ Add(v, n) < PHYS_BASE /\ Add(v, n) >= v
  BY DEF validate_segment, is_user_vaddr
<1>3. v + n < PHYS_BASE
  <2>1. CASE v + n < Word
    <3>1. v + n \in Words
      BY <1>1, <2>1, SMT DEF Words
    <3>2. Add(v, n) = v + n
      BY <3>1, NoWrap DEF Add
    <3> QED BY <1>2, <3>2
  <2>2. CASE ~ (v + n < Word)
    <3>1. v + n - Word \in 0 .. Word - 1 /\ v + n - Word < v
      BY <1>1, <2>2, SMT
    <3>2. v + n = Word * 1 + (v + n - Word) /\ Word \in Nat \ {0}
      BY <1>1, SMT
    <3>3. (Word * 1 + (v + n - Word)) % Word = v + n - Word
      BY <3>1, <3>2, MulMod
    <3>4. Add(v, n) = v + n - Word
      BY <3>2, <3>3 DEF Add
    <3> QED BY <1>1, <1>2, <3>1, <3>4, SMT
  <2> QED BY <2>1, <2>2
<1>4. 0 < n
  BY <1>1, <1>2, SMT
<1>5. pg_round_down(v) >= PGSIZE
  <2>1. /\ pg_round_down(v) \in Nat /\ pg_ofs(pg_round_down(v)) = 0
        /\ v < pg_round_down(v) + PGSIZE
    BY <1>1, RoundDown
  <2>2. pg_ofs(0) = 0
    BY <1>1, Z3 DEF pg_ofs
  <2>3. 0 < pg_round_down(v)
    BY <1>1, <1>2, <2>1, SMT
  <2>4. 0 + PGSIZE <= pg_round_down(v)
    BY <2>1, <2>2, <2>3, AlignedNext
  <2> QED BY <1>1, <2>1, <2>4, SMT
<1> QED BY <1>1, <1>2, <1>3, <1>4, <1>5, SMT

\* The sizes that load() computes: together whole pages, up to the end of the segment's
\* last one.
LEMMA SegmentSizes ==
  ASSUME NEW s \in ProgramHeader, NEW l \in Nat, validate_segment(s, l)
  PROVE  /\ ReadBytes(s) \in Words /\ ZeroBytes(s) \in Words
         /\ ReadBytes(s) = IF s.filesz > 0 THEN pg_ofs(s.vaddr) + s.filesz ELSE 0
         /\ ReadBytes(s) + ZeroBytes(s) < Word
         /\ pg_ofs(ReadBytes(s) + ZeroBytes(s)) = 0
         /\ s.vaddr + s.memsz <= pg_round_down(s.vaddr) + ReadBytes(s) + ZeroBytes(s)
         /\ ReadBytes(s) + ZeroBytes(s) < pg_ofs(s.vaddr) + s.memsz + PGSIZE
         /\ pg_round_down(s.vaddr) + ReadBytes(s) + ZeroBytes(s) <= PHYS_BASE
<1> DEFINE v == s.vaddr
           n == s.memsz
           o == pg_ofs(v)
           U == pg_round_down(v)
           last == o + n + (PGSIZE - 1)
           R == pg_round_down(last)
           rb == ReadBytes(s)
<1>1. /\ Word \in Nat /\ PGSIZE \in Nat \ {0} /\ PHYS_BASE \in PGSIZE + 1 .. Word - 1
      /\ v \in Nat /\ n \in Nat /\ s.filesz \in Nat
  BY LoaderAssumption, SMT DEF ProgramHeader, Words
<1>2. v + n < PHYS_BASE /\ 0 < n /\ s.filesz <= n /\ U >= PGSIZE
  BY ValidRegion
<1>3. /\ o \in 0 .. PGSIZE - 1 /\ U \in Nat /\ pg_ofs(U) = 0 /\ U <= v
  BY <1>1, RoundDown
<1>4. v = U + o
  BY <1>1, <1>3, SMT DEF pg_round_down
<1> HIDE DEF v, n, o, U
<1>5. last \in Nat /\ last < PHYS_BASE - 1 /\ o + n \in Words /\ last \in Words
  BY <1>1, <1>2, <1>3, <1>4, SMT DEF Words
<1>6. Add(o, n) = o + n /\ Add(Add(o, n), PGSIZE - 1) = last
  BY <1>5, NoWrap DEF Add
<1>7. /\ R \in Nat /\ pg_ofs(R) = 0 /\ R <= last /\ last < R + PGSIZE
  BY <1>5, RoundDown
<1>8. ROUND_UP(Add(o, n)) = R
  BY <1>6 DEF ROUND_UP
<1> HIDE DEF last, R
<1>9. o + n <= R /\ R < o + n + PGSIZE /\ R < Word
  BY <1>1, <1>3, <1>5, <1>7, SMT DEF last
<1>10. rb = IF s.filesz > 0 THEN o + s.filesz ELSE 0
  <2>1. o + s.filesz \in Words
    BY <1>1, <1>2, <1>3, <1>9, SMT DEF Words
  <2>2. Add(o, s.filesz) = o + s.filesz
    BY <2>1, NoWrap DEF Add
  <2> QED BY <2>2 DEF ReadBytes, o, v
<1> HIDE DEF rb
<1>11. rb \in Nat /\ rb <= R
  <2>1. o + s.filesz \in Nat /\ o + s.filesz <= R /\ R \in Nat
    BY <1>1, <1>2, <1>3, <1>7, <1>9, SMT
  <2> QED BY <1>10, <2>1, SMT
<1>12. ZeroBytes(s) = R - rb
  <2>1. R - rb \in Words
    BY <1>1, <1>7, <1>9, <1>11, SMT DEF Words
  <2>2. ZeroBytes(s) = Sub(R, rb)
    BY <1>8 DEF ZeroBytes, rb, o, n, v
  <2> QED BY <2>1, <2>2, NoWrap DEF Sub
<1>13. rb + ZeroBytes(s) = R
  BY <1>7, <1>11, <1>12, SMT
<1>14. U + R <= PHYS_BASE
  <2>1. pg_ofs(U + R) = 0 /\ pg_ofs(PHYS_BASE) = 0 /\ U + R \in Int /\ PHYS_BASE \in Int
    <3>1. U \in Int /\ R \in Int /\ U + R \in Int /\ PHYS_BASE \in Int
      BY <1>1, <1>3, <1>7, SMT
    <3>2. pg_ofs(U + R) = 0
      BY <1>3, <1>7, <3>1, AlignedSum
    <3> QED BY <3>1, <3>2, LoaderAssumption DEF pg_ofs
  <2>2. PHYS_BASE < U + R => PHYS_BASE + PGSIZE <= U + R
    BY <2>1, AlignedNext
  <2>3. U + R < PHYS_BASE + PGSIZE
    BY <1>1, <1>2, <1>3, <1>4, <1>7, <1>9, SMT
  <2> QED BY <1>1, <2>1, <2>2, <2>3, SMT
<1>15. /\ rb \in Words /\ ZeroBytes(s) \in Words /\ rb + ZeroBytes(s) < Word
       /\ pg_ofs(rb + ZeroBytes(s)) = 0
  <2>1. rb \in Words /\ ZeroBytes(s) \in Words
    BY <1>1, <1>7, <1>9, <1>11, <1>12, SMT DEF Words
  <2> QED BY <2>1, <1>7, <1>9, <1>13
<1>16. /\ v + n <= U + rb + ZeroBytes(s) /\ U + rb + ZeroBytes(s) <= PHYS_BASE
  <2>1. U + rb + ZeroBytes(s) = U + R
    BY <1>3, <1>7, <1>11, <1>12, SMT
  <2> QED BY <2>1, <1>1, <1>3, <1>4, <1>7, <1>9, <1>14, SMT
<1> QED BY <1>9, <1>10, <1>13, <1>15, <1>16 DEF rb, U, o, n, v

\* load_segment(): its assertions hold, and it is asked for pages of the user only.
LEMMA SegmentSound ==
  ASSUME NEW s \in ProgramHeader, NEW l \in Nat, validate_segment(s, l)
  PROVE  Segment(s) \in SegmentCall /\ Asserted(Segment(s)) /\ Fits(Segment(s))
<1> DEFINE rb == ReadBytes(s)
           zb == ZeroBytes(s)
           U == pg_round_down(s.vaddr)
           O == pg_round_down(s.offset)
<1>1. /\ rb \in Words /\ zb \in Words /\ pg_ofs(rb + zb) = 0 /\ rb + zb < Word
      /\ U + rb + zb <= PHYS_BASE
  BY SegmentSizes
<1>2. /\ s.vaddr \in Words /\ s.offset \in Words /\ s.writable \in BOOLEAN
      /\ s.vaddr \in Nat /\ s.offset \in Nat
  <2>1. s.vaddr \in Words /\ s.offset \in Words /\ s.writable \in BOOLEAN
    BY DEF ProgramHeader
  <2> QED BY <2>1, LoaderAssumption, SMT DEF Words
<1>3. /\ U \in Nat /\ U <= s.vaddr /\ pg_ofs(U) = 0
      /\ O \in Nat /\ O <= s.offset /\ pg_ofs(O) = 0
  BY <1>2, RoundDown
<1>4. U >= PGSIZE
  BY ValidRegion
<1>5. U \in Words /\ O \in Words
  BY <1>2, <1>3, LoaderAssumption, SMT DEF Words
<1>6. Add(rb, zb) = rb + zb
  <2>1. rb + zb \in Words
    BY <1>1, LoaderAssumption, SMT DEF Words
  <2> QED BY <2>1, NoWrap DEF Add
<1>7. Segment(s) = [ofs |-> O, upage |-> U, read_bytes |-> rb, zero_bytes |-> zb,
                    writable |-> s.writable]
  BY DEF Segment
<1> HIDE DEF rb, zb, U, O
<1>8. Segment(s) \in SegmentCall
  BY <1>1, <1>2, <1>5, <1>7 DEF SegmentCall
<1>9. Asserted(Segment(s))
  BY <1>1, <1>3, <1>6, <1>7 DEF Asserted
<1>10. Fits(Segment(s))
  BY <1>1, <1>3, <1>4, <1>7 DEF Fits
<1> QED BY <1>8, <1>9, <1>10

\* The loop of load_segment(): what is left behind a page is a page less.
LEMMA AdvanceSound ==
  ASSUME NEW s \in SegmentCall, Fits(s), s.read_bytes > 0 \/ s.zero_bytes > 0
  PROVE  /\ Advance(s) \in SegmentCall /\ Fits(Advance(s))
         /\ PageReadBytes(s) \in 0 .. PGSIZE
         /\ s.upage < PHYS_BASE
         /\ Advance(s).upage = s.upage + PGSIZE
         /\ Advance(s).read_bytes + Advance(s).zero_bytes + PGSIZE = s.read_bytes + s.zero_bytes
<1> DEFINE rb == s.read_bytes
           zb == s.zero_bytes
           U == s.upage
           n == PageReadBytes(s)
<1>1. /\ Word \in Nat /\ PGSIZE \in Nat \ {0} /\ PHYS_BASE \in PGSIZE + 1 .. Word - 1
      /\ rb \in 0 .. Word - 1 /\ zb \in 0 .. Word - 1 /\ U \in 0 .. Word - 1
      /\ s.ofs \in Words /\ s.ofs \in Int /\ s.writable \in BOOLEAN
  BY LoaderAssumption, SMT DEF SegmentCall, Words
<1>2. /\ pg_ofs(U) = 0 /\ U >= PGSIZE /\ pg_ofs(rb + zb) = 0 /\ U + rb + zb <= PHYS_BASE
      /\ rb > 0 \/ zb > 0
  BY DEF Fits
<1>3. n = IF rb < PGSIZE THEN rb ELSE PGSIZE
  BY DEF PageReadBytes
<1>4. Advance(s) = [ofs |-> Add(s.ofs, n), upage |-> Add(U, PGSIZE), read_bytes |-> rb - n,
                    zero_bytes |-> Sub(zb, PGSIZE - n), writable |-> s.writable]
  BY DEF Advance
<1> HIDE DEF rb, zb, U, n
<1>5. n \in 0 .. PGSIZE /\ n <= rb
  BY <1>1, <1>3, SMT
<1>6. pg_ofs(0) = 0 /\ pg_ofs(PGSIZE) = 0
  BY <1>1, Z3 DEF pg_ofs
<1>7. PGSIZE <= rb + zb
  <2>1. 0 < rb + zb /\ rb + zb \in Int
    BY <1>1, <1>2, SMT
  <2>2. 0 + PGSIZE <= rb + zb
    BY <1>2, <1>6, <2>1, AlignedNext
  <2> QED BY <1>1, <2>2, SMT
<1>8. Add(U, PGSIZE) = U + PGSIZE /\ U + PGSIZE \in Words
  <2>1. U + PGSIZE \in Words
    BY <1>1, <1>2, <1>7, SMT DEF Words
  <2> QED BY <2>1, NoWrap DEF Add
<1>9. Sub(zb, PGSIZE - n) = zb - (PGSIZE - n) /\ zb - (PGSIZE - n) \in Words
  <2>1. zb - (PGSIZE - n) \in Words
    BY <1>1, <1>3, <1>7, SMT DEF Words
  <2> QED BY <2>1, NoWrap DEF Sub
<1>10. rb - n \in Words
  BY <1>1, <1>5, SMT DEF Words
<1>11. Add(s.ofs, n) \in Words
  BY <1>1, <1>5, AddIsWord, SMT
<1>12. Advance(s) \in SegmentCall
  BY <1>1, <1>4, <1>8, <1>9, <1>10, <1>11 DEF SegmentCall
<1>13. (rb - n) + (zb - (PGSIZE - n)) = (rb + zb) - PGSIZE
  BY <1>1, <1>5, SMT
<1>14. pg_ofs(U + PGSIZE) = 0 /\ pg_ofs((rb + zb) - PGSIZE) = 0
  <2>1. U \in Int /\ PGSIZE \in Int /\ rb + zb \in Int
    BY <1>1, SMT
  <2>2. pg_ofs(U + PGSIZE) = 0
    BY <1>2, <1>6, <2>1, AlignedSum
  <2>3. pg_ofs((rb + zb) - PGSIZE) = 0
    BY <1>2, <1>6, <2>1, AlignedSum
  <2> QED BY <2>2, <2>3
<1>15. /\ Advance(s).upage = U + PGSIZE /\ Advance(s).read_bytes = rb - n
       /\ Advance(s).zero_bytes = zb - (PGSIZE - n)
  BY <1>4, <1>8, <1>9
<1>16. Fits(Advance(s))
  <2>1. U + PGSIZE >= PGSIZE /\ U + PGSIZE + (rb - n) + (zb - (PGSIZE - n)) <= PHYS_BASE
    BY <1>1, <1>2, <1>5, SMT
  <2> QED BY <1>13, <1>14, <1>15, <2>1 DEF Fits
<1>17. U < PHYS_BASE /\ ((rb + zb) - PGSIZE) + PGSIZE = rb + zb
  BY <1>1, <1>2, <1>7, SMT
<1>18. (rb - n) + (zb - (PGSIZE - n)) + PGSIZE = rb + zb
  BY <1>1, <1>5, SMT
<1> QED BY <1>5, <1>12, <1>15, <1>16, <1>17, <1>18 DEF rb, zb, U, n

-----------------------------------------------------------------------------
(***************************************************************************)
(* The invariant of load() and of the page faults.                         *)
(***************************************************************************)

UserPage(a) == pg_ofs(a) = 0 /\ a >= PGSIZE /\ is_user_vaddr(a)

\* Every page of f is the user's and has an element of S.
Maps(f, S) == \A a \in DOMAIN f : f[a] \in S /\ UserPage(a)

MemInv ==
  /\ program \in Program /\ pc \in Label \ {"assert"} /\ seg \in SegmentCall
  /\ file \in {"open", "closed"}
  /\ pc = "segment" => Fits(seg)
  /\ Maps(vm, VmEntry) /\ Maps(pagedir, PageContent)

\* The loops of load() and construct_esp() stay within what they loop over.
ArgInv ==
  /\ i \in Nat /\ esp \in Int /\ esp <= 0 /\ total_len \in Nat
  /\ argv \in [1 .. argc -> Int]
  /\ pc \in {"header", "segment"} => i > 0
  /\ pc \in {"strings", "pointers"} => i <= argc

\* A handler at l works with the entry of page e; from load_file() on there is one.
VmeAt(l, e) ==
  /\ e \in DOMAIN vm \union {NULL}
  /\ l \in {"bin", "file", "install"} => e \in DOMAIN vm

FaultInv ==
  /\ spare \in Nat /\ Len(interrupted) <= MaxDepth
  /\ pc \in LoadLabel => vme = NULL
  /\ VmeAt(pc, vme)
  /\ pc # "dead" =>
       \A k \in 1 .. Len(interrupted) : VmeAt(interrupted[k].pc, interrupted[k].vme)

PagingInv == AccountInv /\ MemInv /\ ArgInv /\ FaultInv

LEMMA AtMaps ==
  ASSUME NEW f, NEW a, NEW e, NEW S, Maps(f, S), e \in S, UserPage(a)
  PROVE  Maps(At(f, a, e), S)
BY DEF At, Maps

LEMMA InsertMaps ==
  ASSUME NEW a, NEW e, Maps(vm, VmEntry), e \in VmEntry, UserPage(a), insert_vme(a, e)
  PROVE  Maps(vm', VmEntry) /\ DOMAIN vm' = DOMAIN vm \union {a}
<1>1. CASE a \in DOMAIN vm
  BY <1>1 DEF insert_vme
<1>2. CASE a \notin DOMAIN vm
  <2>1. vm' = At(vm, a, e)
    BY <1>2 DEF insert_vme
  <2> QED BY <2>1, AtMaps DEF At
<1> QED BY <1>1, <1>2

LEMMA ProgramType ==
  ASSUME program \in Program
  PROVE  /\ program.phdrs \in Seq(ProgramHeader) /\ program.length \in Nat
         /\ program.words \in Seq(Nat \ {0}) /\ argc \in Nat \ {0}
<1>1. /\ program.phdrs \in Seq(ProgramHeader) /\ program.length \in Nat
      /\ program.words \in Seq(Nat \ {0}) /\ program.words # <<>>
  BY LoaderAssumption
<1>2. argc \in Nat \ {0}
  BY <1>1, EmptySeq, LenProperties, SMT DEF argc
<1> QED BY <1>1, <1>2

LEMMA PagingInit == Init => PagingInv
<1> SUFFICES ASSUME Init PROVE PagingInv
  OBVIOUS
<1>1. /\ program \in Program /\ pc = "header" /\ i = 1 /\ seg = NoSegment /\ vm = Empty
      /\ pagedir = Empty /\ file = "open" /\ esp = 0 /\ total_len = 0
      /\ argv = [k \in 1 .. argc |-> 0] /\ spare = 0 /\ vme = NULL /\ interrupted = <<>>
  BY DEF Init, LoadInit
<1>2. 0 \in Words /\ MaxDepth \in Nat
  BY LoaderAssumption, PagingAssumption, SMT DEF Words
<1>3. DOMAIN Empty = {}
  BY DEF Empty
<1>4. MemInv
  BY <1>1, <1>2, <1>3 DEF MemInv, Maps, NoSegment, SegmentCall, Label
<1>5. ArgInv
  BY <1>1, SMT DEF ArgInv
<1>6. FaultInv
  <2>1. Len(interrupted) = 0
    BY <1>1
  <2>2. Len(interrupted) <= MaxDepth /\ 1 .. Len(interrupted) = {}
    BY <1>2, <2>1, SMT
  <2> QED BY <1>1, <2>2 DEF FaultInv, VmeAt
<1> QED BY <1>4, <1>5, <1>6, AccountInit DEF PagingInv

-----------------------------------------------------------------------------
(***************************************************************************)
(* The steps of load().                                                    *)
(***************************************************************************)

\* Steps that leave the memory of the process alone.
LEMMA MemSame ==
  ASSUME MemInv, UNCHANGED <<program, memVars>>, file' \in {"open", "closed"},
         pc' \in Label \ {"assert"}, seg' \in SegmentCall, pc' = "segment" => Fits(seg')
  PROVE  MemInv'
BY DEF MemInv, memVars

LEMMA AcceptedMem ==
  ASSUME MemInv, ArgInv, Accepted
  PROVE  MemInv'
<1>1. /\ i <= Len(program.phdrs) /\ i \in Nat /\ i > 0
      /\ validate_segment(phdr, program.length)
      /\ seg' = Segment(phdr) /\ pc' = IF Asserted(Segment(phdr)) THEN "segment" ELSE "assert"
      /\ UNCHANGED <<program, memVars, file>>
  BY DEF Accepted, Header, ArgInv
<1>2. program.phdrs \in Seq(ProgramHeader) /\ program.length \in Nat
  BY ProgramType DEF MemInv
<1>3. i \in 1 .. Len(program.phdrs)
  BY <1>1, <1>2, LenProperties, SMT
<1>4. phdr \in ProgramHeader
  BY <1>2, <1>3, ElementOfSeq DEF phdr
<1>5. Segment(phdr) \in SegmentCall /\ Asserted(Segment(phdr)) /\ Fits(Segment(phdr))
  BY <1>1, <1>2, <1>4, SegmentSound
<1> QED BY <1>1, <1>5, MemSame DEF MemInv, Label

LEMMA NextPage ==
  ASSUME MemInv, NEW n, SegmentPage(n)
  PROVE  /\ UserPage(seg.upage) /\ Advance(seg) \in SegmentCall /\ Fits(Advance(seg))
         /\ PageReadBytes(seg) \in 0 .. PGSIZE
         /\ seg.ofs \in Words /\ seg.writable \in BOOLEAN
<1>1. seg \in SegmentCall /\ Fits(seg) /\ (seg.read_bytes > 0 \/ seg.zero_bytes > 0)
  BY DEF MemInv, SegmentPage
<1>2. /\ Advance(seg) \in SegmentCall /\ Fits(Advance(seg))
      /\ PageReadBytes(seg) \in 0 .. PGSIZE /\ seg.upage < PHYS_BASE
  BY <1>1, AdvanceSound
<1>3. UserPage(seg.upage)
  BY <1>1, <1>2 DEF Fits, UserPage, is_user_vaddr
<1> QED BY <1>1, <1>2, <1>3 DEF SegmentCall

LEMMA SegmentMem ==
  ASSUME MemInv, EntryPage \/ EagerPage
  PROVE  MemInv'
<1>1. CASE EntryPage
  <2> DEFINE e == [type |-> "VM_BIN", offset |-> seg.ofs, read_bytes |-> PageReadBytes(seg),
                   writable |-> seg.writable, is_loaded |-> FALSE]
  <2>1. /\ SegmentPage(4) /\ insert_vme(seg.upage, e) /\ seg' = Advance(seg)
        /\ UNCHANGED <<program, pagedir, file, pc>>
    BY <1>1 DEF EntryPage
  <2>2. /\ UserPage(seg.upage) /\ Advance(seg) \in SegmentCall /\ Fits(Advance(seg))
        /\ PageReadBytes(seg) \in 0 .. PGSIZE /\ seg.ofs \in Words /\ seg.writable \in BOOLEAN
    BY <2>1, NextPage
  <2>3. e \in VmEntry
    BY <2>2 DEF VmEntry
  <2> HIDE DEF e
  <2>4. Maps(vm', VmEntry)
    BY <2>1, <2>2, <2>3, InsertMaps DEF MemInv
  <2> QED BY <2>1, <2>2, <2>4 DEF MemInv
<1>2. CASE EagerPage
  <2> DEFINE e == [from |-> "exec", offset |-> seg.ofs, read_bytes |-> PageReadBytes(seg),
                   writable |-> seg.writable]
  <2>1. /\ SegmentPage(3) /\ pagedir' = At(pagedir, seg.upage, e) /\ seg' = Advance(seg)
        /\ UNCHANGED <<program, vm, file, pc>>
    BY <1>2 DEF EagerPage
  <2>2. /\ UserPage(seg.upage) /\ Advance(seg) \in SegmentCall /\ Fits(Advance(seg))
        /\ PageReadBytes(seg) \in 0 .. PGSIZE /\ seg.ofs \in Words /\ seg.writable \in BOOLEAN
    BY <2>1, NextPage
  <2>3. e \in PageContent
    BY <2>2 DEF PageContent
  <2> HIDE DEF e
  <2>4. Maps(pagedir', PageContent)
    BY <2>1, <2>2, <2>3, AtMaps DEF MemInv
  <2> QED BY <2>1, <2>2, <2>4 DEF MemInv
<1> QED BY <1>1, <1>2

LEMMA StackPage == UserPage(PHYS_BASE - PGSIZE)
<1>1. /\ PGSIZE \in Nat \ {0} /\ PHYS_BASE \in Nat /\ PGSIZE < PHYS_BASE
      /\ pg_ofs(PHYS_BASE) = 0
  BY LoaderAssumption, SMT DEF pg_ofs
<1>2. pg_ofs(PGSIZE) = 0
  BY <1>1, Z3 DEF pg_ofs
<1>3. pg_ofs(PHYS_BASE - PGSIZE) = 0
  BY <1>1, <1>2, AlignedSum
<1>4. PGSIZE + PGSIZE <= PHYS_BASE
  BY <1>1, <1>2, AlignedNext
<1>5. PHYS_BASE - PGSIZE >= PGSIZE /\ PHYS_BASE - PGSIZE < PHYS_BASE
  BY <1>1, <1>4, SMT
<1> QED BY <1>3, <1>5 DEF UserPage, is_user_vaddr

LEMMA StackMem ==
  ASSUME MemInv, SetupStack
  PROVE  MemInv' /\ DOMAIN vm \subseteq DOMAIN vm'
<1> DEFINE a == PHYS_BASE - PGSIZE
           e == [type |-> "VM_ANON", offset |-> 0, read_bytes |-> 0,
                 writable |-> TRUE, is_loaded |-> TRUE]
           d == [from |-> "zero", offset |-> 0, read_bytes |-> 0, writable |-> TRUE]
<1>1. /\ pagedir' = At(pagedir, a, d)
      /\ vm' = vm \/ insert_vme(a, e)
      /\ file' = "closed" /\ pc' \in {"user", "strings"} /\ UNCHANGED <<program, seg>>
  BY DEF SetupStack
<1>2. e \in VmEntry /\ d \in PageContent
  <2>1. 0 \in Words /\ 0 \in 0 .. PGSIZE
    BY LoaderAssumption, SMT DEF Words
  <2> QED BY <2>1 DEF VmEntry, PageContent
<1> HIDE DEF e, d
<1>3. Maps(pagedir', PageContent)
  BY <1>1, <1>2, AtMaps, StackPage DEF MemInv
<1>4. Maps(vm', VmEntry) /\ DOMAIN vm \subseteq DOMAIN vm'
  BY <1>1, <1>2, InsertMaps, StackPage DEF MemInv
<1> QED BY <1>1, <1>3, <1>4 DEF MemInv, Label

LEMMA LoadMem ==
  ASSUME MemInv, ArgInv, LoadNext
  PROVE  MemInv'
<1>1. CASE LoadFails \/ Refused \/ EagerFails
  BY <1>1, MemSame DEF LoadFails, Refused, EagerFails, Fail, MemInv, Label
<1>2. CASE Ignored
  BY <1>2, MemSame DEF Ignored, Header, loadVars, MemInv, Label
<1>3. CASE Accepted
  BY <1>3, AcceptedMem
<1>4. CASE EntryPage \/ EagerPage
  BY <1>4, SegmentMem
<1>5. CASE SegmentDone
  <2>1. NoSegment \in SegmentCall
    <3>1. 0 \in Words
      BY LoaderAssumption, SMT DEF Words
    <3> QED BY <3>1 DEF NoSegment, SegmentCall
  <2> QED BY <1>5, <2>1, MemSame DEF SegmentDone, MemInv, Label
<1>6. CASE HeadersDone
  BY <1>6, MemSame DEF HeadersDone, loadVars, MemInv, Label
<1>7. CASE SetupStack
  BY <1>7, StackMem
<1>8. CASE ProcessExit
  <2>1. DOMAIN Empty = {}
    BY DEF Empty
  <2> QED BY <1>8, <2>1 DEF ProcessExit, MemInv, Maps, Label
<1>9. CASE PushString \/ PushNull \/ PushPointer \/ PushFrame
  <2>1. UNCHANGED loadVars /\ pc' \in {"strings", "pointers", "user"}
    BY <1>9 DEF PushString, PushNull, PushPointer, PushFrame
  <2> QED BY <2>1, MemSame DEF loadVars, MemInv, Label
<1> QED BY <1>1, <1>2, <1>3, <1>4, <1>5, <1>6, <1>7, <1>8, <1>9 DEF LoadNext

LEMMA ArgSame ==
  ASSUME ArgInv, UNCHANGED <<program, i, stackVars>>,
         pc' \in {"header", "segment"} => i > 0,
         pc' \in {"strings", "pointers"} => i <= argc
  PROVE  ArgInv'
BY DEF ArgInv, stackVars, argc

LEMMA PushArg ==
  ASSUME MemInv, ArgInv, PushString \/ PushNull \/ PushPointer \/ PushFrame
  PROVE  ArgInv'
<1>1. /\ program.words \in Seq(Nat \ {0}) /\ argc \in Nat \ {0} /\ argc' = argc
      /\ i \in Nat /\ esp \in Int /\ esp <= 0 /\ total_len \in Nat
      /\ argv \in [1 .. argc -> Int]
  <2>1. program' = program
    BY DEF PushString, PushNull, PushPointer, PushFrame, loadVars
  <2> QED BY <2>1, ProgramType DEF MemInv, ArgInv, argc
<1>2. CASE PushString
  <2>1. /\ i > 0 /\ i <= argc /\ pc' = "strings"
        /\ esp' = esp - (program.words[i] + 1)
        /\ total_len' = total_len + program.words[i] + 1
        /\ argv' = [argv EXCEPT ![i] = esp'] /\ i' = i - 1
    BY <1>2 DEF PushString, loadVars, ArgInv
  <2>2. i \in 1 .. argc
    BY <1>1, <2>1, SMT
  <2>3. program.words[i] \in Nat \ {0}
    BY <1>1, <2>2, ElementOfSeq DEF argc
  <2>4. esp' \in Int /\ esp' <= 0 /\ total_len' \in Nat /\ i' \in Nat /\ i' <= argc
    <3> DEFINE w == program.words[i]
    <3>1. w \in Nat /\ esp' = esp - (w + 1) /\ total_len' = total_len + w + 1
      BY <2>1, <2>3
    <3>2. esp \in Int /\ esp <= 0 /\ total_len \in Nat /\ i \in Nat /\ argc \in Nat
      BY <1>1
    <3>3. i > 0 /\ i <= argc /\ i' = i - 1
      BY <2>1
    <3> HIDE DEF w
    <3>4. esp' \in Int /\ esp' <= 0
      BY <3>1, <3>2, SMT
    <3>5. total_len' \in Nat
      BY <3>1, <3>2, SMT
    <3>6. i' \in Nat /\ i' <= argc
      BY <3>2, <3>3, SMT
    <3> QED BY <3>4, <3>5, <3>6
  <2>5. argv' \in [1 .. argc -> Int]
    BY <1>1, <2>1, <2>4
  <2> QED BY <1>1, <2>1, <2>4, <2>5 DEF ArgInv
<1>3. CASE PushNull
  <2>1. /\ esp' = esp - Padding(total_len) - 4 /\ i' = argc /\ pc' = "pointers"
        /\ UNCHANGED <<total_len, argv>>
    BY <1>3 DEF PushNull
  <2>2. Padding(total_len) \in 0 .. 3
    BY <1>1, Z3 DEF Padding
  <2>3. esp' \in Int /\ esp' <= 0
    BY <1>1, <2>1, <2>2, SMT
  <2> QED BY <1>1, <2>1, <2>3, SMT DEF ArgInv
<1>4. CASE PushPointer
  <2>1. /\ esp' = esp - 4 /\ i' = i - 1 /\ i > 0 /\ i <= argc /\ pc' = "pointers"
        /\ UNCHANGED <<total_len, argv>>
    BY <1>4 DEF PushPointer, loadVars, ArgInv
  <2>2. esp' \in Int /\ esp' <= 0 /\ i' \in Nat /\ i' <= argc
    BY <1>1, <2>1, SMT
  <2> QED BY <1>1, <2>1, <2>2 DEF ArgInv
<1>5. CASE PushFrame
  <2>1. esp' = esp - 12 /\ pc' = "user" /\ UNCHANGED <<i, total_len, argv>>
    BY <1>5 DEF PushFrame
  <2>2. esp' \in Int /\ esp' <= 0
    BY <1>1, <2>1, SMT
  <2> QED BY <1>1, <2>1, <2>2 DEF ArgInv
<1> QED BY <1>2, <1>3, <1>4, <1>5

LEMMA LoadArg ==
  ASSUME MemInv, ArgInv, LoadNext
  PROVE  ArgInv'
<1>1. CASE LoadFails \/ Refused \/ EagerFails \/ ProcessExit
  BY <1>1, ArgSame DEF LoadFails, Refused, EagerFails, ProcessExit, Fail
<1>2. CASE Ignored \/ Accepted
  <2>1. /\ i' = i + 1 /\ pc' \notin {"strings", "pointers"} /\ UNCHANGED <<program, stackVars>>
    BY <1>2 DEF Ignored, Accepted, Header, loadVars
  <2>2. i' \in Nat /\ i' > 0
    BY <2>1, SMT DEF ArgInv
  <2> QED BY <2>1, <2>2 DEF ArgInv, stackVars, argc
<1>3. CASE EntryPage \/ EagerPage \/ SegmentDone \/ HeadersDone
  BY <1>3, ArgSame DEF EntryPage, EagerPage, SegmentDone, HeadersDone, SegmentPage, loadVars, ArgInv
<1>4. CASE SetupStack
  <2>1. argc \in Nat
    BY ProgramType DEF MemInv
  <2>2. /\ i' = argc /\ pc' \in {"user", "strings"} /\ UNCHANGED <<program, stackVars>>
    BY <1>4 DEF SetupStack
  <2>3. argc <= argc
    BY <2>1, SMT
  <2> QED BY <2>1, <2>2, <2>3 DEF ArgInv, stackVars, argc
<1>5. CASE PushString \/ PushNull \/ PushPointer \/ PushFrame
  BY <1>5, PushArg
<1> QED BY <1>1, <1>2, <1>3, <1>4, <1>5 DEF LoadNext

LEMMA LoadFault ==
  ASSUME MemInv, FaultInv, LoadStep
  PROVE  FaultInv'
<1>1. /\ pc \in LoadLabel /\ pc' \in LoadLabel
      /\ UNCHANGED <<spare, vme, interrupted>>
  BY LoadStaysOutside DEF LoadStep, faultVars
<1>2. pc # "dead"
  BY DEF LoadStep, LoadNext, LoadFails, Refused, EagerFails, Ignored, Accepted, HeadersDone,
     Header, EntryPage, EagerPage, SegmentDone, SegmentPage, SetupStack, ProcessExit,
     PushString, PushNull, PushPointer, PushFrame
<1>3. pc' = "dead" \/ DOMAIN vm \subseteq DOMAIN vm'
  <2>1. CASE LoadFails \/ Refused \/ EagerFails
    BY <2>1 DEF LoadFails, Refused, EagerFails, Fail, memVars
  <2>2. CASE Ignored \/ Accepted \/ HeadersDone \/ SegmentDone
    BY <2>2 DEF Ignored, Accepted, HeadersDone, SegmentDone, loadVars, memVars
  <2>3. CASE EntryPage
    BY <2>3 DEF EntryPage, insert_vme, At
  <2>4. CASE EagerPage
    BY <2>4 DEF EagerPage
  <2>5. CASE SetupStack
    BY <2>5, StackMem
  <2>6. CASE ProcessExit
    BY <2>6 DEF ProcessExit
  <2>7. CASE PushString \/ PushNull \/ PushPointer \/ PushFrame
    BY <2>7 DEF PushString, PushNull, PushPointer, PushFrame, loadVars, memVars
  <2> QED BY <2>1, <2>2, <2>3, <2>4, <2>5, <2>6, <2>7 DEF LoadStep, LoadNext
<1>4. vme = NULL
  BY <1>1 DEF FaultInv
<1>5. VmeAt(pc, vme)'
  BY <1>1, <1>4 DEF VmeAt, LoadLabel
<1>6. pc' # "dead" =>
        \A k \in 1 .. Len(interrupted) : VmeAt(interrupted[k].pc, interrupted[k].vme)'
  BY <1>1, <1>2, <1>3 DEF FaultInv, VmeAt
<1> QED BY <1>1, <1>4, <1>5, <1>6 DEF FaultInv

-----------------------------------------------------------------------------
(***************************************************************************)
(* The steps of a page fault.                                              *)
(***************************************************************************)

\* A handler leaves load()'s variables alone; the entries stay.
LEMMA HandlerKeeps ==
  ASSUME MemInv, ArgInv, FaultInv, HandlerStep \/ PageFault \/ ProcessEnds
  PROVE  /\ UNCHANGED <<program, seg, file, i, stackVars>>
         /\ DOMAIN vm' = DOMAIN vm /\ Maps(vm', VmEntry) /\ Maps(pagedir', PageContent)
<1>1. UNCHANGED <<program, seg, file, i, stackVars>>
  BY DEF HandlerStep, FindVme, NoPage, GetPage, NullEntry, Switch, LoadFile, LoadFileFails,
     LoadFileFaults, InstallFails, Install, KernelFault, GiveBack, PageFault, ProcessEnds, Kept
<1>2. CASE Install
  <2> DEFINE e == Content(vm[vme])
             v == [vm[vme] EXCEPT !.is_loaded = TRUE]
  <2>1. /\ pc = "install" /\ pagedir' = At(pagedir, vme, e)
        /\ vm' = [vm EXCEPT ![vme].is_loaded = TRUE]
    BY <1>2 DEF Install
  <2>2. vme \in DOMAIN vm /\ vm[vme] \in VmEntry /\ UserPage(vme)
    BY <2>1 DEF FaultInv, VmeAt, MemInv, Maps
  <2>3. e \in PageContent
    BY <2>2 DEF Content, VmEntry, PageContent
  <2>4. v \in VmEntry
    BY <2>2 DEF VmEntry
  <2>5. DOMAIN vm' = DOMAIN vm /\ \A a \in DOMAIN vm : vm'[a] = IF a = vme THEN v ELSE vm[a]
    BY <2>1, <2>2
  <2> HIDE DEF e, v
  <2>6. Maps(pagedir', PageContent)
    BY <2>1, <2>2, <2>3, AtMaps DEF MemInv
  <2>7. Maps(vm', VmEntry)
    BY <2>4, <2>5 DEF MemInv, Maps
  <2> QED BY <1>1, <2>5, <2>6, <2>7
<1>3. CASE UNCHANGED memVars
  BY <1>1, <1>3 DEF memVars, MemInv
<1>4. UNCHANGED memVars \/ Install
  BY DEF HandlerStep, FindVme, NoPage, GetPage, NullEntry, Switch, LoadFile, LoadFileFails,
     LoadFileFaults, InstallFails, KernelFault, GiveBack, PageFault, ProcessEnds
<1> QED BY <1>2, <1>3, <1>4

\* A handler that goes on or gives up.
LEMMA SameHandlers ==
  ASSUME FaultInv, DOMAIN vm' = DOMAIN vm, pc # "dead", UNCHANGED interrupted,
         spare' \in Nat, VmeAt(pc', vme'), pc' \in LoadLabel => vme' = NULL
  PROVE  FaultInv'
BY DEF FaultInv, VmeAt

LEMMA KernelFaultVme ==
  ASSUME AccountInv, FaultInv, DOMAIN vm' = DOMAIN vm, pc \in Holding, KernelFault
  PROVE  FaultInv'
<1>1. /\ vme' = NULL /\ spare' = spare /\ pc' \in {"find", "panic"}
  BY DEF KernelFault
<1>2. VmeAt(pc', vme') /\ pc' \notin LoadLabel /\ spare' \in Nat /\ pc # "dead"
  BY <1>1 DEF VmeAt, LoadLabel, FaultInv, Holding
<1>3. CASE Len(interrupted) < MaxDepth
  <2> DEFINE r == [pc |-> pc, vme |-> vme]
  <2>1. interrupted' = Append(interrupted, r)
    BY <1>3 DEF KernelFault
  <2>2. r.pc = pc /\ r.vme = vme
    OBVIOUS
  <2> HIDE DEF r
  <2>3. /\ Len(interrupted') = Len(interrupted) + 1
        /\ \A k \in 1 .. Len(interrupted') :
             interrupted'[k] = r
             \/ \E j \in 1 .. Len(interrupted) : interrupted'[k] = interrupted[j]
    BY <2>1, <2>2, PushHandler DEF AccountInv
  <2>4. Len(interrupted') <= MaxDepth
    BY <1>3, <2>3, LengthIsNat, PagingAssumption, SMT DEF AccountInv
  <2>5. ASSUME NEW k \in 1 .. Len(interrupted')
        PROVE  VmeAt(interrupted'[k].pc, interrupted'[k].vme)
    BY <1>2, <2>2, <2>3 DEF FaultInv
  <2>6. \A k \in 1 .. Len(interrupted') : VmeAt(interrupted[k].pc, interrupted[k].vme)'
    BY <2>5 DEF VmeAt
  <2> QED BY <1>1, <1>2, <2>4, <2>6 DEF FaultInv, VmeAt
<1>4. CASE ~ (Len(interrupted) < MaxDepth)
  <2>1. UNCHANGED interrupted
    BY <1>4 DEF KernelFault
  <2> QED BY <1>1, <1>2, <2>1 DEF FaultInv, VmeAt, LoadLabel
<1> QED BY <1>3, <1>4

LEMMA ResumeVme ==
  ASSUME AccountInv, FaultInv, DOMAIN vm' = DOMAIN vm, pc \in Holding, spare' = spare - 1, Resume
  PROVE  FaultInv'
<1>1. spare' \in Nat
  BY LengthIsNat, SMT DEF AccountInv, PagesAccounted, Holding, FaultInv
<1>2. CASE interrupted = <<>>
  <2>1. pc' = "user" /\ vme' = NULL /\ UNCHANGED interrupted
    BY <1>2 DEF Resume
  <2> QED BY <1>1, <2>1, SameHandlers DEF VmeAt, Holding
<1>3. CASE interrupted # <<>>
  <2>1. pc' = Last(interrupted).pc /\ vme' = Last(interrupted).vme
        /\ interrupted' = Front(interrupted)
    BY <1>3 DEF Resume
  <2>2. /\ Len(interrupted') = Len(interrupted) - 1 /\ pc' \in Holding
        /\ \E j \in 1 .. Len(interrupted) : Last(interrupted) = interrupted[j]
        /\ \A k \in 1 .. Len(interrupted') :
             \E j \in 1 .. Len(interrupted) : interrupted'[k] = interrupted[j]
    BY <1>3, <2>1, PopHandler DEF AccountInv
  <2>3. VmeAt(pc', vme')
    BY <2>1, <2>2 DEF FaultInv, Holding
  <2>4. \A k \in 1 .. Len(interrupted') : VmeAt(interrupted'[k].pc, interrupted'[k].vme)
    BY <2>2 DEF FaultInv, Holding
  <2>5. Len(interrupted') <= MaxDepth
    BY <2>2, LengthIsNat, PagingAssumption, SMT DEF AccountInv, FaultInv
  <2>6. pc' \notin LoadLabel
    BY <2>2 DEF Holding, LoadLabel
  <2> QED BY <1>1, <2>3, <2>4, <2>5, <2>6 DEF FaultInv, VmeAt
<1> QED BY <1>2, <1>3

LEMMA HandlerFault ==
  ASSUME AccountInv, MemInv, ArgInv, FaultInv, HandlerStep \/ PageFault \/ ProcessEnds
  PROVE  FaultInv'
<1>1. DOMAIN vm' = DOMAIN vm /\ spare \in Nat
  BY HandlerKeeps DEF FaultInv
<1>2. CASE FindVme
  BY <1>1, <1>2, SameHandlers DEF FindVme, VmeAt, LoadLabel
<1>3. CASE NoPage \/ ProcessEnds
  BY <1>1, <1>3, SameHandlers DEF NoPage, ProcessEnds, exit, VmeAt
<1>4. CASE GetPage
  <2>1. spare' \in Nat
    BY <1>1, <1>4, SMT DEF GetPage
  <2> QED BY <1>1, <1>4, <2>1, SameHandlers DEF GetPage, FaultInv, VmeAt, LoadLabel
<1>5. CASE PageFault
  BY <1>1, <1>5, SameHandlers DEF PageFault, faultVars, FaultInv, VmeAt, LoadLabel
<1>6. CASE NullEntry
  BY <1>1, <1>6, KernelFaultVme DEF NullEntry, Holding
<1>7. CASE Switch
  BY <1>1, <1>7, SameHandlers DEF Switch, faultVars, FaultInv, VmeAt, LoadLabel
<1>8. CASE LoadFile
  BY <1>1, <1>8, SameHandlers DEF LoadFile, faultVars, FaultInv, VmeAt, LoadLabel
<1>9. CASE LoadFileFails \/ InstallFails
  <2>1. pc \in Holding /\ spare' = spare - 1 /\ exit /\ pc # "dead"
    BY <1>9 DEF LoadFileFails, InstallFails, GiveBack, Holding
  <2>2. spare' \in Nat
    BY <2>1, LengthIsNat, SMT DEF AccountInv, PagesAccounted, Holding, FaultInv
  <2> QED BY <1>1, <2>1, <2>2, SameHandlers DEF exit, VmeAt
<1>10. CASE LoadFileFaults
  <2>1. pc \in Holding /\ pc \in {"bin", "file"}
    BY <1>10 DEF LoadFileFaults, Holding
  <2>2. CASE KernelFault
    BY <1>1, <2>1, <2>2, KernelFaultVme
  <2>3. CASE pc' = "panic" /\ UNCHANGED faultVars
    BY <1>1, <2>1, <2>3, SameHandlers DEF faultVars, FaultInv, VmeAt, LoadLabel
  <2> QED BY <1>10, <2>2, <2>3 DEF LoadFileFaults
<1>11. CASE Install
  <2>1. pc \in Holding /\ spare' = spare - 1 /\ (Resume \/ exit) /\ pc # "dead"
    BY <1>11 DEF Install, Holding
  <2>2. CASE Resume
    BY <1>1, <2>1, <2>2, ResumeVme
  <2>3. CASE exit
    <3>1. spare' \in Nat
      BY <2>1, LengthIsNat, SMT DEF AccountInv, PagesAccounted, Holding, FaultInv
    <3> QED BY <1>1, <2>1, <2>3, <3>1, SameHandlers DEF exit, VmeAt
  <2> QED BY <2>1, <2>2, <2>3
<1> QED BY <1>2, <1>3, <1>4, <1>5, <1>6, <1>7, <1>8, <1>9, <1>10, <1>11 DEF HandlerStep

LEMMA HandlerLabel ==
  ASSUME AccountInv, HandlerStep \/ PageFault \/ ProcessEnds
  PROVE  pc' \in Label \ {"assert", "header", "segment", "stack", "strings", "pointers"}
<1>1. CASE Install
  <2>1. CASE interrupted # <<>> /\ Resume
    BY <2>1, PopHandler DEF AccountInv, Resume, Holding, Label
  <2>2. CASE ~ (interrupted # <<>> /\ Resume)
    BY <1>1, <2>2 DEF Install, Resume, exit, Label
  <2> QED BY <2>1, <2>2
<1>2. CASE ~ Install
  BY <1>2 DEF HandlerStep, FindVme, NoPage, GetPage, NullEntry, Switch, LoadFile, LoadFileFails,
     LoadFileFaults, InstallFails, KernelFault, GiveBack, PageFault, ProcessEnds, exit, Label
<1> QED BY <1>1, <1>2

LEMMA PagingStep == PagingInv /\ [Next]_pagingVars => PagingInv'
<1> SUFFICES ASSUME PagingInv, [Next]_pagingVars PROVE PagingInv'
  OBVIOUS
<1>1. AccountInv'
  BY AccountStep DEF PagingInv
<1>2. CASE LoadStep
  BY <1>1, <1>2, LoadMem, LoadArg, LoadFault DEF PagingInv, LoadStep
<1>3. CASE HandlerStep \/ PageFault \/ ProcessEnds
  <2>1. /\ UNCHANGED <<program, seg, file, i, stackVars>>
        /\ Maps(vm', VmEntry) /\ Maps(pagedir', PageContent)
    BY <1>3, HandlerKeeps DEF PagingInv
  <2>2. pc' \in Label \ {"assert", "header", "segment", "stack", "strings", "pointers"}
    BY <1>3, HandlerLabel DEF PagingInv
  <2>3. MemInv'
    BY <2>1, <2>2 DEF PagingInv, MemInv
  <2>4. ArgInv'
    BY <2>1, <2>2, ArgSame DEF PagingInv
  <2>5. FaultInv'
    BY <1>3, HandlerFault DEF PagingInv
  <2> QED BY <1>1, <2>3, <2>4, <2>5 DEF PagingInv
<1>4. CASE UNCHANGED pagingVars
  <2>1. UNCHANGED <<program, vm, pagedir, seg, file, pc, i, stackVars, spare, vme, interrupted>>
    BY <1>4 DEF pagingVars, vars, loadVars, memVars, faultVars
  <2>2. MemInv'
    BY <2>1 DEF PagingInv, MemInv
  <2>3. ArgInv'
    BY <2>1, ArgSame DEF PagingInv, ArgInv
  <2>4. FaultInv'
    BY <2>1 DEF PagingInv, FaultInv, VmeAt
  <2> QED BY <1>1, <2>2, <2>3, <2>4 DEF PagingInv
<1> QED BY <1>2, <1>3, <1>4 DEF Next

\* The inductive invariant of a process's memory (load(), page_fault()): what is left of
\* a segment fits below the kernel, every page is the user's, and every handler, also an
\* interrupted one, works with an entry that is there.
THEOREM Invariance == Spec => []PagingInv
BY PagingInit, PagingStep, PTL DEF Spec

\* Every variable of the loader and of the page faults keeps its type.
THEOREM TypeCorrect == Spec => []TypeOK
<1>1. PagingInv => TypeOK
  BY DEF PagingInv, MemInv, ArgInv, FaultInv, VmeAt, Maps, TypeOK
<1> QED BY <1>1, Invariance, PTL

\* load_segment(): what validate_segment() lets through satisfies the three assertions,
\* for every size of a page and of a word.
THEOREM AssertionsPass == Spec => []AssertionsHold
<1>1. PagingInv => AssertionsHold
  BY DEF PagingInv, MemInv, AssertionsHold
<1> QED BY <1>1, Invariance, PTL

\* validate_segment(): no entry and no page of the process is at page 0 or the kernel's,
\* whatever program headers say.
THEOREM OnlyUserPages == Spec => []UserPagesOnly
<1>1. PagingInv => UserPagesOnly
  BY DEF PagingInv, MemInv, Maps, UserPage, UserPagesOnly
<1> QED BY <1>1, Invariance, PTL

-----------------------------------------------------------------------------
(***************************************************************************)
(* What load_segment() makes of a segment.                                 *)
(***************************************************************************)

\* How many program headers load() has worked on.
Done == IF pc \in {"header", "segment"} THEN i - 1 ELSE Len(program.phdrs)

\* load_segment() is still to come to page u of header j.
Ahead(j, u) == pc = "segment" /\ j = i - 1 /\ u >= seg.upage

\* No other segment, nor the stack, has page u of header j.
Alone(j, u) ==
  /\ u # PHYS_BASE - PGSIZE
  /\ \A k \in DOMAIN program.phdrs \ {j} : u \notin PagesOf(k)

\* Page u is as header s says, if e is what has been made of it.
Right(e, s, u) ==
  /\ e.writable = s.writable
  /\ \A a \in s.vaddr .. s.vaddr + s.memsz - 1 :
       pg_round_down(a) = u =>
         IF a < s.vaddr + s.filesz
           THEN pg_ofs(a) < e.read_bytes /\ Add(e.offset, pg_ofs(a)) = Add(s.offset, a - s.vaddr)
           ELSE ~ (pg_ofs(a) < e.read_bytes)

\* The arguments of load_segment(), so many pages behind the first one of s.
Tracks(c, s) ==
  LET d == c.upage - pg_round_down(s.vaddr) IN
  /\ d >= 0
  /\ c.writable = s.writable
  /\ c.upage + c.read_bytes + c.zero_bytes
       = pg_round_down(s.vaddr) + ReadBytes(s) + ZeroBytes(s)
  /\ c.read_bytes = IF d < ReadBytes(s) THEN ReadBytes(s) - d ELSE 0
  /\ c.read_bytes > 0 => c.ofs = Add(pg_round_down(s.offset), d)

Loading == pc \in {"header", "segment", "stack"}
Alive == pc \notin {"exiting", "dead", "panic", "assert"}

LoopInv ==
  /\ pc \in {"header", "segment"} => i - 1 <= Len(program.phdrs)
  /\ pc = "segment" =>
       i > 1 /\ program.phdrs[i - 1].type = "load" /\ Tracks(seg, program.phdrs[i - 1])

\* What is there belongs to a segment that has been loaded so far ...
OriginInv ==
  Loading =>
    \A a \in DOMAIN image :
      \E j \in 1 .. Done :
        program.phdrs[j].type = "load" /\ a \in PagesOf(j) /\ ~ Ahead(j, a)

\* ... and a segment that has been loaded is there.
ImageInv ==
  Alive =>
    \A j \in 1 .. Done :
      LET s == program.phdrs[j] IN
      s.type = "load" =>
        /\ validate_segment(s, program.length)
        /\ \A u \in PagesOf(j) :
             Alone(j, u) /\ ~ Ahead(j, u) => u \in DOMAIN image /\ Right(image[u], s, u)

ShapeInv == LoopInv /\ OriginInv /\ ImageInv

LEMMA AddAdd ==
  ASSUME NEW x \in Int, NEW y \in Int, NEW z \in Int
  PROVE  Add(Add(x, y), z) = Add(x, y + z)
<1> DEFINE q == (x + y) \div Word
           r == (x + y) % Word
           p == (r + z) \div Word
           t == (r + z) % Word
<1>1. Word \in Nat \ {0}
  BY LoaderAssumption, SMT
<1>2. x + y = Word * q + r /\ q \in Int /\ r \in 0 .. Word - 1
  <2>1. x + y \in Int
    BY SMT
  <2> QED BY <1>1, <2>1, DivMod
<1>3. r + z = Word * p + t /\ p \in Int /\ t \in 0 .. Word - 1
  <2>1. r + z \in Int
    BY <1>1, <1>2, SMT
  <2> QED BY <1>1, <2>1, DivMod
<1>4. Add(Add(x, y), z) = t
  BY DEF Add
<1> HIDE DEF q, r, p, t
<1>5. x + (y + z) = Word * (q + p) + t
  BY <1>1, <1>2, <1>3, Z3
<1>6. (Word * (q + p) + t) % Word = t
  <2>1. q + p \in Int
    BY <1>2, <1>3, SMT
  <2> QED BY <1>1, <1>3, <2>1, MulMod
<1> QED BY <1>4, <1>5, <1>6 DEF Add

\* What a header's numbers are.
LEMMA HeaderType ==
  ASSUME NEW s \in ProgramHeader
  PROVE  /\ s.vaddr \in Nat /\ s.memsz \in Nat /\ s.filesz \in Nat /\ s.offset \in Nat
         /\ pg_ofs(s.vaddr) \in 0 .. PGSIZE - 1 /\ pg_ofs(s.offset) \in 0 .. PGSIZE - 1
         /\ pg_round_down(s.vaddr) \in Nat /\ s.vaddr = pg_round_down(s.vaddr) + pg_ofs(s.vaddr)
         /\ pg_ofs(pg_round_down(s.vaddr)) = 0
         /\ pg_round_down(s.offset) \in Nat
         /\ s.offset = pg_round_down(s.offset) + pg_ofs(s.offset)
<1>1. s.vaddr \in Nat /\ s.memsz \in Nat /\ s.filesz \in Nat /\ s.offset \in Nat
  BY LoaderAssumption, SMT DEF ProgramHeader, Words
<1>2. /\ pg_ofs(s.vaddr) \in 0 .. PGSIZE - 1 /\ pg_round_down(s.vaddr) \in Nat
      /\ pg_ofs(s.offset) \in 0 .. PGSIZE - 1 /\ pg_round_down(s.offset) \in Nat
      /\ pg_ofs(pg_round_down(s.vaddr)) = 0
  BY <1>1, RoundDown
<1>3. PGSIZE \in Nat
  BY LoaderAssumption
<1>4. /\ s.vaddr = pg_round_down(s.vaddr) + pg_ofs(s.vaddr)
      /\ s.offset = pg_round_down(s.offset) + pg_ofs(s.offset)
  BY <1>1, <1>2, <1>3, SMT DEF pg_round_down
<1> QED BY <1>1, <1>2, <1>4

\* An address is in the page it is rounded down to, and in no other.
LEMMA PageOf ==
  ASSUME NEW a \in Nat, NEW u \in Nat, pg_ofs(u) = 0, u <= a, a < u + PGSIZE
  PROVE  pg_round_down(a) = u /\ pg_ofs(a) = a - u
<1> DEFINE w == pg_round_down(a)
<1>1. w \in Nat /\ pg_ofs(w) = 0 /\ w <= a /\ a < w + PGSIZE /\ PGSIZE \in Nat
      /\ pg_ofs(a) \in 0 .. PGSIZE - 1 /\ w = a - pg_ofs(a)
  BY RoundDown, LoaderAssumption DEF pg_round_down
<1> HIDE DEF w
<1>2. ~ (w < u) /\ ~ (u < w)
  <2>1. w < u => w + PGSIZE <= u
    BY <1>1, AlignedNext
  <2>2. u < w => u + PGSIZE <= w
    BY <1>1, AlignedNext
  <2> QED BY <1>1, <2>1, <2>2, SMT
<1>3. w = u /\ pg_ofs(a) = a - u
  BY <1>1, <1>2, SMT
<1> QED BY <1>3 DEF w

\* The pages of a segment are those that load_segment() goes through.
LEMMA Span ==
  ASSUME NEW l \in Nat, NEW j, program.phdrs[j] \in ProgramHeader,
         program.phdrs[j].type = "load", validate_segment(program.phdrs[j], l)
  PROVE  LET s == program.phdrs[j]
             U == pg_round_down(s.vaddr)
         IN  \A u : u \in PagesOf(j)
               <=> /\ u \in Nat /\ pg_ofs(u) = 0 /\ U <= u
                   /\ u < U + (ReadBytes(s) + ZeroBytes(s))
<1> DEFINE s == program.phdrs[j]
           v == s.vaddr
           n == s.memsz
           U == pg_round_down(v)
           R == ReadBytes(s) + ZeroBytes(s)
<1>1. /\ v \in Nat /\ n \in Nat /\ U \in Nat /\ pg_ofs(U) = 0 /\ pg_ofs(v) \in 0 .. PGSIZE - 1
      /\ v = U + pg_ofs(v) /\ PGSIZE \in Nat \ {0}
  BY HeaderType, LoaderAssumption
<1>2. 0 < n /\ R \in Nat /\ pg_ofs(R) = 0 /\ v + n <= U + R /\ R < pg_ofs(v) + n + PGSIZE
  <2>1. 0 < n
    BY ValidRegion
  <2>2. /\ ReadBytes(s) \in Words /\ ZeroBytes(s) \in Words /\ pg_ofs(R) = 0
        /\ v + n <= U + ReadBytes(s) + ZeroBytes(s) /\ R < pg_ofs(v) + n + PGSIZE
    BY SegmentSizes
  <2>3. ReadBytes(s) \in Nat /\ ZeroBytes(s) \in Nat
    BY <2>2, LoaderAssumption, SMT DEF Words
  <2>4. R \in Nat /\ U + ReadBytes(s) + ZeroBytes(s) = U + R
    BY <1>1, <2>3, SMT
  <2> QED BY <2>1, <2>2, <2>4
<1>3. PagesOf(j) = {pg_round_down(a) : a \in v .. v + n - 1}
  BY DEF PagesOf
<1> HIDE DEF R, U, v, n, s
<1>4. ASSUME NEW u, u \in PagesOf(j)
      PROVE  u \in Nat /\ pg_ofs(u) = 0 /\ U <= u /\ u < U + R
  <2>1. PICK a \in v .. v + n - 1 : u = pg_round_down(a)
    BY <1>3, <1>4
  <2>2. a \in Nat /\ v <= a /\ a < v + n
    BY <1>1, <1>2, <2>1, SMT
  <2>3. u \in Nat /\ pg_ofs(u) = 0 /\ u <= a /\ a < u + PGSIZE
    BY <2>1, <2>2, RoundDown
  <2>4. ~ (u < U)
    <3>1. u < U => u + PGSIZE <= U
      BY <1>1, <2>3, AlignedNext
    <3> QED BY <1>1, <2>2, <2>3, <3>1, SMT
  <2> QED BY <1>1, <1>2, <2>2, <2>3, <2>4, SMT
<1>5. ASSUME NEW u \in Nat, pg_ofs(u) = 0, U <= u, u < U + R
      PROVE  u \in PagesOf(j)
  <2>1. CASE u < v
    <3>1. pg_round_down(v) = U /\ v \in v .. v + n - 1
      BY <1>1, <1>2, SMT DEF U
    <3>2. u = U
      <4>1. U < u => U + PGSIZE <= u
        BY <1>1, <1>5, AlignedNext
      <4> QED BY <1>1, <1>5, <2>1, <4>1, SMT
    <3> QED BY <1>3, <3>1, <3>2
  <2>2. CASE v <= u
    <3>1. u + PGSIZE <= U + R
      <4>1. pg_ofs(U + R) = 0 /\ U + R \in Int
        BY <1>1, <1>2, AlignedSum, SMT
      <4> QED BY <1>5, <4>1, AlignedNext
    <3>2. u \in v .. v + n - 1
      BY <1>1, <1>2, <1>5, <2>2, <3>1, SMT
    <3>3. u <= u /\ u < u + PGSIZE
      BY <1>1, SMT
    <3>4. pg_round_down(u) = u
      BY <1>5, <3>3, PageOf
    <3> QED BY <1>3, <3>2, <3>4
  <2> QED BY <1>1, <2>1, <2>2, SMT
<1> QED BY <1>4, <1>5 DEF R, U, v, s

\* The page that load_segment() makes next is as the header says.
LEMMA RightPage ==
  ASSUME NEW s \in ProgramHeader, NEW l \in Nat, validate_segment(s, l),
         NEW c \in SegmentCall, Tracks(c, s),
         NEW e, e.writable = c.writable, e.offset = c.ofs, e.read_bytes = PageReadBytes(c)
  PROVE  Right(e, s, c.upage)
<1> DEFINE v == s.vaddr
           n == s.memsz
           F == s.filesz
           o == pg_ofs(v)
           U == pg_round_down(v)
           O == pg_round_down(s.offset)
           RB == ReadBytes(s)
           u == c.upage
           d == u - U
           rb == c.read_bytes
           k == PageReadBytes(c)
<1>1. /\ v \in Nat /\ n \in Nat /\ F \in Nat /\ U \in Nat /\ o \in 0 .. PGSIZE - 1
      /\ v = U + o /\ O \in Nat /\ PGSIZE \in Nat \ {0} /\ s.offset = O + o
  <2>1. pg_ofs(s.offset) = o
    BY DEF validate_segment
  <2> QED BY <2>1, HeaderType, LoaderAssumption
<1>2. RB = IF F > 0 THEN o + F ELSE 0
  BY SegmentSizes
<1>3. u \in Nat /\ rb \in Nat
  <2>1. u \in Words /\ rb \in Words
    BY DEF SegmentCall
  <2> QED BY <2>1, LoaderAssumption, SMT DEF Words
<1>4. /\ d >= 0 /\ c.writable = s.writable
      /\ rb = IF d < RB THEN RB - d ELSE 0
      /\ rb > 0 => c.ofs = Add(O, d)
  BY DEF Tracks
<1>5. k = IF rb < PGSIZE THEN rb ELSE PGSIZE
  BY DEF PageReadBytes
<1> HIDE DEF RB, k, rb, O, o, U
<1>6. ASSUME NEW a \in v .. v + n - 1, pg_round_down(a) = u
      PROVE  IF a < v + F
               THEN pg_ofs(a) < k /\ Add(e.offset, pg_ofs(a)) = Add(s.offset, a - v)
               ELSE ~ (pg_ofs(a) < k)
  <2> DEFINE x == pg_ofs(a)
  <2>1. a \in Nat /\ v <= a
    BY <1>1, <1>6, SMT
  <2>2. x \in 0 .. PGSIZE - 1 /\ u = a - x
    BY <1>6, <2>1, RoundDown DEF pg_round_down
  <2> HIDE DEF x
  <2>3. x = a - u /\ u \in Nat /\ x \in Nat
    BY <1>1, <1>3, <2>1, <2>2, SMT
  <2>4. CASE a < v + F
    <3>1. F > 0 /\ RB = o + F
      BY <1>1, <1>2, <2>1, <2>4, SMT
    <3>2. x < RB - d
      BY <1>1, <1>3, <2>1, <2>3, <2>4, <3>1, SMT
    <3>3. d < RB /\ rb = RB - d
      BY <1>1, <1>3, <1>4, <2>3, <3>1, <3>2, SMT
    <3>4. x < k /\ rb > 0
      <4>1. x < rb /\ rb > 0
        BY <1>3, <2>3, <3>2, <3>3, SMT
      <4>2. x < PGSIZE
        BY <1>1, <2>2, SMT
      <4> QED BY <1>5, <4>1, <4>2
    <3>5. e.offset = Add(O, d)
      BY <1>4, <3>4
    <3>6. Add(e.offset, x) = Add(O, d + x)
      <4>1. O \in Int /\ d \in Int /\ x \in Int
        BY <1>1, <1>3, <2>3, SMT
      <4> HIDE DEF d
      <4>2. Add(Add(O, d), x) = Add(O, d + x)
        BY <4>1, AddAdd
      <4> QED BY <3>5, <4>2
    <3>7. O + (d + x) = (O + o) + (a - v)
      BY <1>1, <1>3, <2>1, <2>3, SMT
    <3>8. Add(O, d + x) = Add(s.offset, a - v)
      BY <1>1, <3>7 DEF Add
    <3> QED BY <2>4, <3>4, <3>6, <3>8 DEF x
  <2>5. CASE ~ (a < v + F)
    <3>1. CASE F > 0
      <4>1. RB = o + F /\ ~ (x < RB - d)
        BY <1>1, <1>2, <1>3, <2>1, <2>3, <2>5, <3>1, SMT
      <4>2. ~ (x < rb)
        BY <1>1, <1>3, <1>4, <2>3, <4>1, SMT
      <4>3. ~ (x < k)
        BY <1>1, <1>3, <1>5, <2>3, <4>2, SMT
      <4> QED BY <2>5, <4>3 DEF x
    <3>2. CASE ~ (F > 0)
      <4>1. RB = 0 /\ ~ (d < 0)
        BY <1>1, <1>2, <1>3, <1>4, <3>2, SMT
      <4>2. rb = 0
        BY <1>4, <4>1
      <4>3. ~ (x < k)
        BY <1>1, <1>5, <2>3, <4>2, SMT
      <4> QED BY <2>5, <4>3 DEF x
    <3> QED BY <3>1, <3>2
  <2> QED BY <2>4, <2>5
<1> QED BY <1>4, <1>6 DEF Right, k

LEMMA TracksStart ==
  ASSUME NEW s \in ProgramHeader, NEW l \in Nat, validate_segment(s, l)
  PROVE  Tracks(Segment(s), s)
<1> DEFINE U == pg_round_down(s.vaddr)
           O == pg_round_down(s.offset)
<1>1. U \in Nat /\ O \in Nat /\ s.offset \in Words /\ O <= s.offset
  <2>1. s.offset \in Words /\ s.offset \in Nat
    BY HeaderType DEF ProgramHeader
  <2> QED BY <2>1, HeaderType, RoundDown
<1>2. ReadBytes(s) \in Nat
  <2>1. ReadBytes(s) \in Words
    BY SegmentSizes
  <2> QED BY <2>1, LoaderAssumption, SMT DEF Words
<1>3. O + 0 = O /\ O \in Words /\ U - U = 0 /\ 0 >= 0
  BY <1>1, LoaderAssumption, SMT DEF Words
<1>4. Add(O, 0) = O
  BY <1>3, NoWrap DEF Add
<1>5. ReadBytes(s) = IF 0 < ReadBytes(s) THEN ReadBytes(s) - 0 ELSE 0
  BY <1>2, SMT
<1>6. /\ Segment(s).upage = U /\ Segment(s).ofs = O /\ Segment(s).writable = s.writable
      /\ Segment(s).read_bytes = ReadBytes(s) /\ Segment(s).zero_bytes = ZeroBytes(s)
  BY DEF Segment
<1> HIDE DEF U, O
<1> QED BY <1>3, <1>4, <1>5, <1>6 DEF Tracks, U, O

LEMMA TracksNext ==
  ASSUME NEW s \in ProgramHeader, NEW l \in Nat, validate_segment(s, l),
         NEW c \in SegmentCall, Fits(c), c.read_bytes > 0 \/ c.zero_bytes > 0, Tracks(c, s)
  PROVE  Tracks(Advance(c), s)
<1> DEFINE U == pg_round_down(s.vaddr)
           O == pg_round_down(s.offset)
           RB == ReadBytes(s)
           ZB == ZeroBytes(s)
           u == c.upage
           d == u - U
           rb == c.read_bytes
           zb == c.zero_bytes
           k == PageReadBytes(c)
           f == Advance(c)
<1>1. /\ U \in Nat /\ O \in Nat /\ PGSIZE \in Nat \ {0} /\ RB \in Nat /\ ZB \in Nat
  <2>1. RB \in Words /\ ZB \in Words
    BY SegmentSizes
  <2>2. RB \in Nat /\ ZB \in Nat
    BY <2>1, LoaderAssumption, SMT DEF Words
  <2> QED BY <2>2, HeaderType, LoaderAssumption
<1>2. u \in Nat /\ rb \in Nat /\ zb \in Nat
  <2>1. u \in Words /\ rb \in Words /\ zb \in Words
    BY DEF SegmentCall
  <2> QED BY <2>1, LoaderAssumption, SMT DEF Words
<1>3. /\ d >= 0 /\ c.writable = s.writable /\ u + rb + zb = U + RB + ZB
      /\ rb = IF d < RB THEN RB - d ELSE 0
      /\ rb > 0 => c.ofs = Add(O, d)
  BY DEF Tracks
<1>4. k = IF rb < PGSIZE THEN rb ELSE PGSIZE
  BY DEF PageReadBytes
<1>5. /\ f.upage = u + PGSIZE /\ f.read_bytes = rb - k /\ f.writable = c.writable
      /\ f.ofs = Add(c.ofs, k) /\ f.read_bytes + f.zero_bytes + PGSIZE = rb + zb
      /\ f \in SegmentCall
  <2>1. /\ f.upage = u + PGSIZE /\ f.read_bytes + f.zero_bytes + PGSIZE = rb + zb
        /\ f \in SegmentCall
    BY AdvanceSound
  <2> QED BY <2>1 DEF Advance
<1>6. f.zero_bytes \in Nat /\ f.read_bytes \in Nat
  <2>1. f.zero_bytes \in Words /\ f.read_bytes \in Words
    BY <1>5 DEF SegmentCall
  <2> QED BY <2>1, LoaderAssumption, SMT DEF Words
<1> DEFINE g == f.upage - U
<1> HIDE DEF U, O, RB, ZB, rb, zb, k, f, u
<1>7. g = d + PGSIZE /\ g >= 0 /\ g \in Nat /\ d \in Nat
  BY <1>1, <1>2, <1>3, <1>5, SMT
<1>8. f.upage + f.read_bytes + f.zero_bytes = U + RB + ZB
  BY <1>1, <1>2, <1>3, <1>5, <1>6, SMT
<1>9. f.read_bytes = IF g < RB THEN RB - g ELSE 0
  BY <1>1, <1>2, <1>3, <1>4, <1>5, <1>7, SMT
<1>10. ASSUME f.read_bytes > 0 PROVE f.ofs = Add(O, g)
  <2>1. k = PGSIZE /\ rb > 0
    BY <1>1, <1>2, <1>4, <1>5, <1>10, SMT
  <2>2. Add(Add(O, d), PGSIZE) = Add(O, d + PGSIZE)
    <3>1. O \in Int /\ d \in Int /\ PGSIZE \in Int
      BY <1>1, <1>7, SMT
    <3> QED BY <3>1, AddAdd
  <2> QED BY <1>3, <1>5, <1>7, <2>1, <2>2
<1>11. f.writable = s.writable
  BY <1>3, <1>5
<1> HIDE DEF g
<1> QED BY <1>7, <1>8, <1>9, <1>10, <1>11 DEF Tracks, g, f, U, O, RB, ZB

-----------------------------------------------------------------------------
(***************************************************************************)
(* The image grows to what the headers say.                                *)
(***************************************************************************)

\* No step but process_exit() takes a page out of the image or changes what it shows.
Extends ==
  \A a \in DOMAIN image :
    /\ a \in DOMAIN image'
    /\ image'[a].offset = image[a].offset /\ image'[a].read_bytes = image[a].read_bytes
    /\ image'[a].writable = image[a].writable

LEMMA ImageAt ==
  ASSUME ImageInv, Alive, NEW j \in 1 .. Done, program.phdrs[j].type = "load",
         NEW u \in PagesOf(j), Alone(j, u), ~ Ahead(j, u)
  PROVE  u \in DOMAIN image /\ Right(image[u], program.phdrs[j], u)
BY DEF ImageInv

LEMMA ImageStep ==
  ASSUME ImageInv, Alive, program' = program, Extends,
         \A j \in 1 .. Done' :
           program.phdrs[j].type = "load" =>
             /\ validate_segment(program.phdrs[j], program.length)
             /\ \A u \in PagesOf(j) :
                  Alone(j, u) /\ ~ Ahead(j, u)' =>
                    \/ j \in 1 .. Done /\ ~ Ahead(j, u)
                    \/ u \in DOMAIN image' /\ Right(image'[u], program.phdrs[j], u)
  PROVE  ImageInv'
<1>1. ASSUME NEW j \in 1 .. Done', program.phdrs[j].type = "load",
             NEW u \in PagesOf(j), Alone(j, u), ~ Ahead(j, u)'
      PROVE  u \in DOMAIN image' /\ Right(image'[u], program.phdrs[j], u)
  <2>1. CASE j \in 1 .. Done /\ ~ Ahead(j, u)
    <3>1. u \in DOMAIN image /\ Right(image[u], program.phdrs[j], u)
      BY <1>1, <2>1 DEF ImageInv
    <3>2. /\ u \in DOMAIN image' /\ image'[u].offset = image[u].offset
          /\ image'[u].read_bytes = image[u].read_bytes
          /\ image'[u].writable = image[u].writable
      BY <3>1 DEF Extends
    <3> QED BY <3>1, <3>2 DEF Right
  <2> QED BY <1>1, <2>1
<1>2. \A j : PagesOf(j)' = PagesOf(j) /\ \A u : Alone(j, u)' = Alone(j, u)
  BY DEF PagesOf, Alone
<1>3. \A j \in 1 .. Done' : program.phdrs[j].type = "load" =>
        validate_segment(program.phdrs[j], program.length)
  OBVIOUS
<1> QED BY <1>1, <1>2, <1>3 DEF ImageInv

\* A step that does not move load_segment() on.
LEMMA ImageSame ==
  ASSUME ImageInv, Alive, program' = program, Extends, pc # "segment", pc' # "segment",
         \A j \in 1 .. Done' : j \in 1 .. Done
  PROVE  ImageInv'
<1>1. \A j, u : ~ Ahead(j, u) /\ ~ Ahead(j, u)'
  BY DEF Ahead
<1> QED BY <1>1, ImageStep DEF ImageInv

LEMMA DoneType ==
  ASSUME MemInv, ArgInv, LoopInv
  PROVE  /\ Len(program.phdrs) \in Nat /\ DOMAIN program.phdrs = 1 .. Len(program.phdrs)
         /\ Done \in Nat /\ Done <= Len(program.phdrs)
         /\ \A j \in 1 .. Len(program.phdrs) : program.phdrs[j] \in ProgramHeader
         /\ \A j \in 1 .. Done : j \in 1 .. Len(program.phdrs)
<1>1. program.phdrs \in Seq(ProgramHeader)
  BY ProgramType DEF MemInv
<1>2. /\ Len(program.phdrs) \in Nat /\ DOMAIN program.phdrs = 1 .. Len(program.phdrs)
      /\ \A j \in 1 .. Len(program.phdrs) : program.phdrs[j] \in ProgramHeader
  BY <1>1, LenProperties, ElementOfSeq
<1>3. Done \in Nat /\ Done <= Len(program.phdrs)
  <2>1. CASE pc \in {"header", "segment"}
    <3>1. Done = i - 1 /\ i \in Nat /\ i > 0 /\ i - 1 <= Len(program.phdrs)
      BY <2>1 DEF Done, ArgInv, LoopInv
    <3> QED BY <3>1, SMT
  <2>2. CASE pc \notin {"header", "segment"}
    <3>1. Done = Len(program.phdrs)
      BY <2>2 DEF Done
    <3> QED BY <1>2, <3>1, SMT
  <2> QED BY <2>1, <2>2
<1>4. \A j \in 1 .. Done : j \in 1 .. Len(program.phdrs)
  BY <1>2, <1>3, SMT
<1> QED BY <1>2, <1>3, <1>4

\* load(): the next header, if it is not a segment's, or is one that is accepted.
LEMMA HeaderShape ==
  ASSUME MemInv, ArgInv, ShapeInv, Ignored \/ Accepted
  PROVE  ShapeInv'
<1>1. /\ pc = "header" /\ i <= Len(program.phdrs) /\ i' = i + 1
      /\ UNCHANGED <<program, vm, pagedir>>
      /\ \/ phdr.type = "ignored" /\ pc' = "header"
         \/ /\ phdr.type = "load" /\ validate_segment(phdr, program.length)
            /\ seg' = Segment(phdr) /\ pc' \in {"segment", "assert"}
  BY DEF Ignored, Accepted, Header, loadVars, memVars
<1>2. pc' # "assert"
  BY LoadMem DEF MemInv, LoadNext
<1>3. i \in Nat /\ i > 0 /\ Done = i - 1 /\ Done' = i /\ i' - 1 = i
  <2>1. i \in Nat /\ i > 0 /\ Done = i - 1
    BY <1>1 DEF Done, ArgInv
  <2>2. Done' = i' - 1
    BY <1>1, <1>2 DEF Done
  <2> QED BY <1>1, <2>1, <2>2, SMT
<1>4. /\ image' = image /\ Extends
  BY <1>1 DEF image, Extends
<1>5. i \in 1 .. Len(program.phdrs) /\ phdr = program.phdrs[i] /\ phdr \in ProgramHeader
  <2>1. Len(program.phdrs) \in Nat
    BY DoneType DEF ShapeInv
  <2>2. i \in 1 .. Len(program.phdrs)
    BY <1>1, <1>3, <2>1, SMT
  <2> QED BY <2>2, DoneType DEF ShapeInv, phdr
<1>6. program.length \in Nat
  BY ProgramType DEF MemInv
<1>7. \A j \in 1 .. Done : j \in 1 .. Done' /\ j # i
  BY <1>3, SMT
<1>8. \A j \in 1 .. Done' : j \in 1 .. Done \/ j = i
  BY <1>3, SMT
<1>9. /\ \A j, u : ~ Ahead(j, u)
      /\ \A j, u : j # i => ~ Ahead(j, u)'
  BY <1>1, <1>3 DEF Ahead
<1>10. LoopInv'
  <2>1. i' - 1 <= Len(program'.phdrs)
    BY <1>1, <1>3
  <2>2. CASE pc' = "segment"
    <3>1. phdr.type = "load" /\ Tracks(Segment(phdr), phdr)
      BY <1>1, <1>5, <1>6, <2>2, TracksStart
    <3>2. i' > 1
      BY <1>1, <1>3, SMT
    <3> QED BY <1>1, <1>3, <1>5, <2>1, <2>2, <3>1, <3>2 DEF LoopInv
  <2> QED BY <2>1, <2>2 DEF LoopInv
<1>11. OriginInv'
  <2>1. \A j : PagesOf(j)' = PagesOf(j)
    BY <1>1 DEF PagesOf
  <2>2. ASSUME NEW a \in DOMAIN image'
        PROVE  \E j \in 1 .. Done' :
                 program'.phdrs[j].type = "load" /\ a \in PagesOf(j)' /\ ~ Ahead(j, a)'
    <3>1. PICK j \in 1 .. Done : program.phdrs[j].type = "load" /\ a \in PagesOf(j)
      BY <1>1, <1>4, <2>2 DEF ShapeInv, OriginInv, Loading
    <3> QED BY <1>1, <1>7, <1>9, <2>1, <3>1
  <2> QED BY <2>2 DEF OriginInv
<1>12. ImageInv'
  <2>0. PICK k : k = i
    OBVIOUS
  <2>1. ASSUME NEW u \in PagesOf(k), phdr.type = "load", ~ Ahead(k, u)'
        PROVE  FALSE
    <3>1. pc' = "segment" /\ seg'.upage = pg_round_down(phdr.vaddr)
      BY <1>1, <1>2, <2>1 DEF Segment
    <3>2. /\ validate_segment(phdr, program.length)
      BY <1>1, <2>1
    <3>3. u \in Nat /\ pg_round_down(phdr.vaddr) <= u
      BY <1>5, <1>6, <2>0, <2>1, <3>2, Span
    <3>4. pg_round_down(phdr.vaddr) \in Nat
      BY <1>5, HeaderType
    <3>5. u >= seg'.upage
      BY <3>1, <3>3, <3>4, SMT
    <3> QED BY <1>3, <2>0, <2>1, <3>1, <3>5 DEF Ahead
  <2>2. ASSUME NEW j \in 1 .. Done', program.phdrs[j].type = "load"
        PROVE  /\ validate_segment(program.phdrs[j], program.length)
               /\ \A u \in PagesOf(j) :
                    Alone(j, u) /\ ~ Ahead(j, u)' =>
                      \/ j \in 1 .. Done /\ ~ Ahead(j, u)
                      \/ u \in DOMAIN image' /\ Right(image'[u], program.phdrs[j], u)
    <3>1. CASE j = k
      BY <1>1, <1>5, <2>0, <2>1, <2>2, <3>1
    <3>2. CASE j \in 1 .. Done
      BY <1>1, <1>9, <2>2, <3>2 DEF ShapeInv, ImageInv, Alive
    <3> QED BY <1>8, <2>0, <3>1, <3>2
  <2> QED BY <1>1, <1>4, <2>2, ImageStep DEF ShapeInv, Alive
<1> QED BY <1>10, <1>11, <1>12 DEF ShapeInv

\* The header that load_segment() works for.
LEMMA Current ==
  ASSUME MemInv, ArgInv, ShapeInv, pc = "segment", NEW k, k = i - 1
  PROVE  /\ k \in Nat /\ k \in 1 .. Done /\ Done = k
         /\ program.phdrs[k] \in ProgramHeader /\ program.phdrs[k].type = "load"
         /\ program.length \in Nat /\ validate_segment(program.phdrs[k], program.length)
         /\ seg \in SegmentCall /\ Fits(seg) /\ Tracks(seg, program.phdrs[k])
         /\ seg.upage \in Nat /\ seg.read_bytes \in Nat /\ seg.zero_bytes \in Nat
<1>1. i \in Nat /\ i > 1 /\ Done = k /\ program.phdrs[k].type = "load"
      /\ Tracks(seg, program.phdrs[k])
  BY DEF ShapeInv, LoopInv, ArgInv, Done
<1>2. k \in Nat /\ k \in 1 .. Done
  BY <1>1, SMT
<1>3. program.phdrs[k] \in ProgramHeader
  BY <1>2, DoneType DEF ShapeInv
<1>4. program.length \in Nat
  BY ProgramType DEF MemInv
<1>5. validate_segment(program.phdrs[k], program.length)
  BY <1>1, <1>2 DEF ShapeInv, ImageInv, Alive
<1>6. seg \in SegmentCall /\ Fits(seg)
  BY DEF MemInv
<1>7. seg.upage \in Nat /\ seg.read_bytes \in Nat /\ seg.zero_bytes \in Nat
  <2>1. seg.upage \in Words /\ seg.read_bytes \in Words /\ seg.zero_bytes \in Words
    BY <1>6 DEF SegmentCall
  <2> QED BY <2>1, LoaderAssumption, SMT DEF Words
<1> QED BY <1>1, <1>2, <1>3, <1>4, <1>5, <1>6, <1>7

\* load_segment(): another page.
LEMMA SegmentShape ==
  ASSUME MemInv, ArgInv, ShapeInv, EntryPage \/ EagerPage
  PROVE  ShapeInv'
<1> DEFINE u == seg.upage
<1>1. /\ pc = "segment" /\ pc' = pc /\ i' = i /\ seg' = Advance(seg) /\ program' = program
      /\ seg.read_bytes > 0 \/ seg.zero_bytes > 0
  BY DEF EntryPage, EagerPage, SegmentPage
<1>2. \/ u \in DOMAIN image /\ image' = image
      \/ /\ u \notin DOMAIN image
         /\ \E e : /\ image' = At(image, u, e) /\ e.writable = seg.writable
                   /\ e.offset = seg.ofs /\ e.read_bytes = PageReadBytes(seg)
  <2>1. CASE EntryPage
    <3>1. image = vm /\ image' = vm'
      BY <2>1 DEF EntryPage, SegmentPage, image
    <3> DEFINE e == [type |-> "VM_BIN", offset |-> seg.ofs, read_bytes |-> PageReadBytes(seg),
                     writable |-> seg.writable, is_loaded |-> FALSE]
    <3>2. vm' = IF u \in DOMAIN vm THEN vm ELSE At(vm, u, e)
      BY <2>1 DEF EntryPage, insert_vme
    <3>3. e.writable = seg.writable /\ e.offset = seg.ofs /\ e.read_bytes = PageReadBytes(seg)
      OBVIOUS
    <3> HIDE DEF e, u
    <3> QED BY <3>1, <3>2, <3>3
  <2>2. CASE EagerPage
    <3>1. image = pagedir /\ image' = pagedir'
      BY <2>2 DEF EagerPage, SegmentPage, image
    <3> DEFINE e == [from |-> "exec", offset |-> seg.ofs, read_bytes |-> PageReadBytes(seg),
                     writable |-> seg.writable]
    <3>2. u \notin DOMAIN pagedir /\ pagedir' = At(pagedir, u, e)
      BY <2>2 DEF EagerPage
    <3>3. e.writable = seg.writable /\ e.offset = seg.ofs /\ e.read_bytes = PageReadBytes(seg)
      OBVIOUS
    <3> HIDE DEF e, u
    <3> QED BY <3>1, <3>2, <3>3
  <2> QED BY <2>1, <2>2
<1>3. PICK k : k = i - 1
  OBVIOUS
<1> DEFINE s == program.phdrs[k]
<1>4. /\ k \in 1 .. Done /\ Done = k /\ Done' = k /\ s \in ProgramHeader
      /\ s.type = "load" /\ program.length \in Nat /\ validate_segment(s, program.length)
      /\ seg \in SegmentCall /\ Fits(seg) /\ Tracks(seg, s)
      /\ u \in Nat /\ seg.read_bytes \in Nat /\ seg.zero_bytes \in Nat
  <2>1. Done' = i - 1
    BY <1>1 DEF Done
  <2> QED BY <1>1, <1>3, <2>1, Current
<1>5. seg'.upage = u + PGSIZE /\ Tracks(seg', s) /\ PGSIZE \in Nat \ {0}
  BY <1>1, <1>4, AdvanceSound, TracksNext, LoaderAssumption
<1>6. u \in PagesOf(k)
  <2> DEFINE U == pg_round_down(s.vaddr)
             RB == ReadBytes(s)
             ZB == ZeroBytes(s)
  <2>1. U \in Nat /\ RB \in Nat /\ ZB \in Nat
    <3>1. RB \in Words /\ ZB \in Words
      BY <1>4, SegmentSizes
    <3>2. RB \in Nat /\ ZB \in Nat
      BY <3>1, LoaderAssumption, SMT DEF Words
    <3> QED BY <1>4, <3>2, HeaderType
  <2>2. /\ u - U >= 0 /\ u + seg.read_bytes + seg.zero_bytes = U + RB + ZB
        /\ pg_ofs(u) = 0
    BY <1>4 DEF Tracks, Fits
  <2> HIDE DEF U, RB, ZB, u
  <2>3. U <= u /\ u < U + (RB + ZB)
    BY <1>1, <1>4, <2>1, <2>2, SMT
  <2> QED BY <1>4, <2>2, <2>3, Span DEF U, RB, ZB, s
<1>7. /\ \A j, a : Ahead(j, a) <=> j = k /\ a >= u
      /\ \A j, a : Ahead(j, a)' <=> j = k /\ a >= u + PGSIZE
  BY <1>1, <1>3, <1>5 DEF Ahead
<1>8. ASSUME NEW a \in PagesOf(k), Ahead(k, a), ~ Ahead(k, a)'
      PROVE  a = u
  <2>1. a \in Nat /\ pg_ofs(a) = 0 /\ pg_ofs(u) = 0
    BY <1>4, <1>8, Span DEF Fits
  <2>2. a >= u /\ ~ (a >= u + PGSIZE)
    BY <1>7, <1>8
  <2>3. u < a => u + PGSIZE <= a
    BY <1>4, <2>1, AlignedNext
  <2> HIDE DEF u
  <2> QED BY <1>4, <1>5, <2>1, <2>2, <2>3, SMT
<1> HIDE DEF u
<1>9. /\ Extends
      /\ \A a \in DOMAIN image' : a \in DOMAIN image \/ a = u
      /\ u \in DOMAIN image'
      /\ u \notin DOMAIN image =>
           /\ image'[u].writable = seg.writable /\ image'[u].offset = seg.ofs
           /\ image'[u].read_bytes = PageReadBytes(seg)
  <2>1. CASE u \in DOMAIN image /\ image' = image
    BY <2>1 DEF Extends
  <2>2. CASE u \notin DOMAIN image
    <3>1. PICK e : /\ image' = At(image, u, e) /\ e.writable = seg.writable
                   /\ e.offset = seg.ofs /\ e.read_bytes = PageReadBytes(seg)
      BY <1>2, <2>2
    <3>2. /\ DOMAIN image' = DOMAIN image \union {u} /\ image'[u] = e
          /\ \A a \in DOMAIN image : image'[a] = image[a]
      BY <2>2, <3>1 DEF At
    <3>3. Extends
      BY <3>2 DEF Extends
    <3> QED BY <3>1, <3>2, <3>3
  <2> QED BY <1>2, <2>1, <2>2
<1>10. LoopInv'
  <2>1. i' - 1 = k /\ program' = program /\ i' > 1
    BY <1>1, <1>3 DEF ShapeInv, LoopInv
  <2>2. k <= Len(program.phdrs)
    BY <1>1, <1>3 DEF ShapeInv, LoopInv
  <2> QED BY <1>4, <1>5, <2>1, <2>2 DEF LoopInv
<1>11. OriginInv'
  <2>1. \A j : PagesOf(j)' = PagesOf(j)
    BY <1>1 DEF PagesOf
  <2>2. ASSUME NEW a \in DOMAIN image'
        PROVE  \E j \in 1 .. Done' :
                 program'.phdrs[j].type = "load" /\ a \in PagesOf(j)' /\ ~ Ahead(j, a)'
    <3>1. CASE a = u
      <4>1. ~ Ahead(k, a)'
        <5>1. ~ (u >= u + PGSIZE)
          BY <1>4, <1>5, SMT
        <5> QED BY <1>7, <3>1, <5>1
      <4> QED BY <1>1, <1>4, <1>6, <2>1, <3>1, <4>1
    <3>2. CASE a \in DOMAIN image
      <4>1. PICK j \in 1 .. Done :
              program.phdrs[j].type = "load" /\ a \in PagesOf(j) /\ ~ Ahead(j, a)
        BY <1>1, <3>2 DEF ShapeInv, OriginInv, Loading
      <4>2. ~ Ahead(j, a)'
        <5>1. CASE j = k
          <6>1. a \in Nat /\ ~ (a >= u)
            BY <1>4, <1>7, <4>1, <5>1, Span
          <6>2. ~ (a >= u + PGSIZE)
            BY <1>4, <1>5, <6>1, SMT
          <6> QED BY <1>7, <6>2
        <5>2. CASE j # k
          BY <1>7, <5>2
        <5> QED BY <5>1, <5>2
      <4> QED BY <1>1, <1>4, <2>1, <4>1, <4>2
    <3> QED BY <1>9, <3>1, <3>2
  <2> QED BY <2>2 DEF OriginInv
<1>12. ImageInv'
  <2>1. ASSUME Alone(k, u)
        PROVE  u \in DOMAIN image' /\ Right(image'[u], s, u)
    <3>1. u \notin DOMAIN image
      <4>1. SUFFICES ASSUME u \in DOMAIN image PROVE FALSE
        OBVIOUS
      <4>2. PICK j \in 1 .. Done : u \in PagesOf(j) /\ ~ Ahead(j, u)
        BY <1>1, <4>1 DEF ShapeInv, OriginInv, Loading
      <4>3. j # k
        <5>1. u >= u
          BY <1>4, SMT
        <5> QED BY <1>7, <4>2, <5>1
      <4>4. j \in DOMAIN program.phdrs
        BY DoneType DEF ShapeInv
      <4> QED BY <2>1, <4>2, <4>3, <4>4 DEF Alone
    <3>2. /\ image'[u].writable = seg.writable /\ image'[u].offset = seg.ofs
          /\ image'[u].read_bytes = PageReadBytes(seg)
      BY <1>9, <3>1
    <3>3. Right(image'[u], s, u)
      BY <1>4, <3>2, RightPage DEF u
    <3> QED BY <1>9, <3>3
  <2>2. ASSUME NEW j \in 1 .. Done', program.phdrs[j].type = "load"
        PROVE  /\ validate_segment(program.phdrs[j], program.length)
               /\ \A a \in PagesOf(j) :
                    Alone(j, a) /\ ~ Ahead(j, a)' =>
                      \/ j \in 1 .. Done /\ ~ Ahead(j, a)
                      \/ a \in DOMAIN image' /\ Right(image'[a], program.phdrs[j], a)
    <3>1. j \in 1 .. Done /\ validate_segment(program.phdrs[j], program.length)
      BY <1>1, <1>4, <2>2 DEF ShapeInv, ImageInv, Alive
    <3>2. ASSUME NEW a \in PagesOf(j), Alone(j, a), ~ Ahead(j, a)', Ahead(j, a)
          PROVE  a \in DOMAIN image' /\ Right(image'[a], program.phdrs[j], a)
      BY <1>7, <1>8, <2>1, <3>2
    <3> QED BY <3>1, <3>2
  <2> QED BY <1>1, <1>9, <2>2, ImageStep DEF ShapeInv, Alive
<1> QED BY <1>10, <1>11, <1>12 DEF ShapeInv

\* load_segment() and load() have done.
LEMMA DoneShape ==
  ASSUME MemInv, ArgInv, ShapeInv, SegmentDone \/ HeadersDone
  PROVE  ShapeInv'
<1>1. /\ program' = program /\ i' = i /\ image' = image
      /\ \/ pc = "segment" /\ pc' = "header" /\ seg.read_bytes = 0 /\ seg.zero_bytes = 0
         \/ pc = "header" /\ pc' = "stack" /\ i > Len(program.phdrs)
  BY DEF SegmentDone, HeadersDone, loadVars, memVars, image
<1>2. Extends /\ Alive /\ Loading
  BY <1>1 DEF Extends, Alive, Loading
<1>3. Done' = Done
  <2>1. CASE pc = "segment"
    BY <1>1, <2>1 DEF Done
  <2>2. CASE pc = "header" /\ i > Len(program.phdrs)
    <3>1. Done = i - 1 /\ i - 1 <= Len(program.phdrs) /\ i \in Nat
      BY <2>2 DEF Done, ShapeInv, LoopInv, ArgInv
    <3>2. Len(program.phdrs) \in Nat
      BY DoneType DEF ShapeInv
    <3>3. i - 1 = Len(program.phdrs)
      BY <2>2, <3>1, <3>2, SMT
    <3> QED BY <1>1, <2>2, <3>1, <3>3 DEF Done
  <2> QED BY <1>1, <2>1, <2>2
<1>4. \A j, u : ~ Ahead(j, u)'
  BY <1>1 DEF Ahead
<1>5. ASSUME NEW j \in 1 .. Done, NEW u \in PagesOf(j), program.phdrs[j].type = "load"
      PROVE  ~ Ahead(j, u)
  <2>1. CASE pc = "segment" /\ j = i - 1
    <3> DEFINE s == program.phdrs[j]
               U == pg_round_down(s.vaddr)
               RB == ReadBytes(s)
               ZB == ZeroBytes(s)
    <3>1. /\ s \in ProgramHeader /\ program.length \in Nat /\ s.type = "load"
          /\ validate_segment(s, program.length) /\ Tracks(seg, s) /\ seg.upage \in Nat
      BY <2>1, Current
    <3>2. seg.read_bytes = 0 /\ seg.zero_bytes = 0
      BY <1>1, <2>1
    <3>3. U \in Nat /\ RB \in Nat /\ ZB \in Nat
      <4>1. RB \in Words /\ ZB \in Words
        BY <3>1, SegmentSizes
      <4>2. RB \in Nat /\ ZB \in Nat
        BY <4>1, LoaderAssumption, SMT DEF Words
      <4> QED BY <3>1, <4>2, HeaderType
    <3>4. u \in Nat /\ u < U + (RB + ZB)
      BY <1>5, <3>1, Span
    <3>5. seg.upage + seg.read_bytes + seg.zero_bytes = U + RB + ZB
      BY <3>1 DEF Tracks
    <3> HIDE DEF U, RB, ZB
    <3>6. ~ (u >= seg.upage)
      BY <3>1, <3>2, <3>3, <3>4, <3>5, SMT
    <3> QED BY <3>6 DEF Ahead
  <2> QED BY <2>1 DEF Ahead
<1>6. LoopInv'
  BY <1>1 DEF LoopInv, ShapeInv
<1>7. OriginInv'
  <2>1. \A j : PagesOf(j)' = PagesOf(j)
    BY <1>1 DEF PagesOf
  <2> QED BY <1>1, <1>2, <1>3, <1>4, <2>1 DEF ShapeInv, OriginInv
<1>8. ImageInv'
  BY <1>1, <1>2, <1>3, <1>5, ImageStep DEF ShapeInv, ImageInv
<1> QED BY <1>6, <1>7, <1>8 DEF ShapeInv

\* From here on no page comes in the way of a segment's.
LEMMA LoadedShape ==
  ASSUME ShapeInv, Alive, program' = program, Extends, pc # "segment", pc' \notin {"header", "segment", "stack"},
         Done = Len(program.phdrs)
  PROVE  ShapeInv'
<1>1. Done' = Done
  BY DEF Done
<1>2. ImageInv'
  BY <1>1, ImageSame DEF ShapeInv
<1>3. LoopInv' /\ OriginInv'
  BY DEF LoopInv, OriginInv, Loading
<1> QED BY <1>2, <1>3 DEF ShapeInv

LEMMA StackShape ==
  ASSUME ShapeInv, SetupStack
  PROVE  ShapeInv'
<1> DEFINE a == PHYS_BASE - PGSIZE
           e == [type |-> "VM_ANON", offset |-> 0, read_bytes |-> 0,
                 writable |-> TRUE, is_loaded |-> TRUE]
           d == [from |-> "zero", offset |-> 0, read_bytes |-> 0, writable |-> TRUE]
<1>1. /\ pc = "stack" /\ pc' \in {"user", "strings"} /\ program' = program
      /\ a \notin DOMAIN pagedir /\ pagedir' = At(pagedir, a, d)
      /\ program.project # 3 => vm' = IF a \in DOMAIN vm THEN vm ELSE At(vm, a, e)
  BY DEF SetupStack, insert_vme
<1> HIDE DEF a, e, d
<1>2. Extends
  <2>1. CASE program.project = 3
    <3>1. \A b \in DOMAIN pagedir : b \in DOMAIN pagedir' /\ pagedir'[b] = pagedir[b]
      BY <1>1 DEF At
    <3>2. image = pagedir /\ image' = pagedir'
      BY <1>1, <2>1 DEF image
    <3> QED BY <3>1, <3>2 DEF Extends
  <2>2. CASE program.project # 3
    <3>1. \A b \in DOMAIN vm : b \in DOMAIN vm' /\ vm'[b] = vm[b]
      BY <1>1, <2>2 DEF At
    <3>2. image = vm /\ image' = vm'
      BY <1>1, <2>2 DEF image
    <3> QED BY <3>1, <3>2 DEF Extends
  <2> QED BY <2>1, <2>2
<1>3. Done = Len(program.phdrs) /\ Alive
  BY <1>1 DEF Done, Alive
<1> QED BY <1>1, <1>2, <1>3, LoadedShape

\* A fault loads pages as their entries say: what they show stays.
LEMMA HandlerShape ==
  ASSUME PagingInv, ShapeInv, HandlerStep \/ PageFault \/ ProcessEnds
  PROVE  ShapeInv'
<1>1. program' = program /\ pc' \notin {"header", "segment", "stack"}
  BY HandlerKeeps, HandlerLabel DEF PagingInv
<1>2. pc \in {"user", "find", "palloc", "switch", "bin", "file", "install"}
  BY DEF HandlerStep, FindVme, NoPage, GetPage, NullEntry, Switch, LoadFile, LoadFileFails,
     LoadFileFaults, InstallFails, Install, PageFault, ProcessEnds
<1>3. Extends
  <2>1. CASE Install
    <3>1. /\ pc = "install" /\ vme \notin DOMAIN pagedir
          /\ pagedir' = At(pagedir, vme, Content(vm[vme]))
          /\ vm' = [vm EXCEPT ![vme].is_loaded = TRUE]
      BY <2>1 DEF Install
    <3>2. \A a \in DOMAIN pagedir : a \in DOMAIN pagedir' /\ pagedir'[a] = pagedir[a]
      BY <3>1 DEF At
    <3>3. \A a \in DOMAIN vm :
            /\ a \in DOMAIN vm' /\ vm'[a].offset = vm[a].offset
            /\ vm'[a].read_bytes = vm[a].read_bytes /\ vm'[a].writable = vm[a].writable
      <4>1. \A a \in DOMAIN vm : vm[a] \in VmEntry
        BY DEF PagingInv, MemInv, Maps
      <4>2. \A a \in DOMAIN vm :
              a \in DOMAIN vm'
              /\ vm'[a] = IF a = vme THEN [vm[a] EXCEPT !.is_loaded = TRUE] ELSE vm[a]
        BY <3>1
      <4> QED BY <4>1, <4>2 DEF VmEntry
    <3> QED BY <1>1, <3>2, <3>3 DEF image, Extends
  <2>2. CASE ~ Install
    <3>1. UNCHANGED memVars
      BY <2>2 DEF HandlerStep, FindVme, NoPage, GetPage, NullEntry, Switch, LoadFile,
         LoadFileFails, LoadFileFaults, InstallFails, KernelFault, GiveBack, PageFault,
         ProcessEnds
    <3> QED BY <1>1, <3>1 DEF memVars, image, Extends
  <2> QED BY <2>1, <2>2
<1>4. Done = Len(program.phdrs) /\ Alive /\ pc # "segment"
  BY <1>2 DEF Done, Alive
<1> QED BY <1>1, <1>3, <1>4, LoadedShape

\* Where the process has failed or is gone, nothing is said of its image.
LEMMA GoneShape ==
  ASSUME pc' \in {"exiting", "dead"}
  PROVE  ShapeInv'
BY DEF ShapeInv, LoopInv, OriginInv, ImageInv, Loading, Alive

LEMMA ShapeStep == PagingInv /\ ShapeInv /\ [Next]_pagingVars => ShapeInv'
<1> SUFFICES ASSUME PagingInv, ShapeInv, [Next]_pagingVars PROVE ShapeInv'
  OBVIOUS
<1>1. MemInv /\ ArgInv
  BY DEF PagingInv
<1>2. CASE LoadStep
  <2>1. CASE LoadFails \/ Refused \/ EagerFails \/ ProcessExit
    BY <2>1, GoneShape DEF LoadFails, Refused, EagerFails, Fail, ProcessExit
  <2>2. CASE Ignored \/ Accepted
    BY <1>1, <2>2, HeaderShape
  <2>3. CASE EntryPage \/ EagerPage
    BY <1>1, <2>3, SegmentShape
  <2>4. CASE SegmentDone \/ HeadersDone
    BY <1>1, <2>4, DoneShape
  <2>5. CASE SetupStack
    BY <2>5, StackShape
  <2>6. CASE PushString \/ PushNull \/ PushPointer \/ PushFrame
    <3>1. /\ UNCHANGED loadVars /\ pc \in {"strings", "pointers"}
          /\ pc' \in {"strings", "pointers", "user"}
      BY <2>6 DEF PushString, PushNull, PushPointer, PushFrame
    <3>2. Extends /\ program' = program
      BY <3>1 DEF loadVars, memVars, image, Extends
    <3>3. Done = Len(program.phdrs) /\ Alive
      BY <3>1 DEF Done, Alive
    <3> QED BY <3>1, <3>2, <3>3, LoadedShape
  <2> QED BY <1>2, <2>1, <2>2, <2>3, <2>4, <2>5, <2>6 DEF LoadStep, LoadNext
<1>3. CASE HandlerStep \/ PageFault \/ ProcessEnds
  BY <1>3, HandlerShape
<1>4. CASE UNCHANGED pagingVars
  BY <1>4 DEF pagingVars, vars, loadVars, memVars, ShapeInv, LoopInv, OriginInv, ImageInv,
     Loading, Alive, Done, Ahead, Alone, PagesOf, image
<1> QED BY <1>2, <1>3, <1>4 DEF Next

LEMMA ShapeInit == Init => ShapeInv
<1> SUFFICES ASSUME Init PROVE ShapeInv
  OBVIOUS
<1>1. /\ pc = "header" /\ i = 1 /\ program \in Program /\ DOMAIN image = {}
  BY DEF Init, LoadInit, image, Empty
<1>2. i - 1 = 0 /\ Len(program.phdrs) \in Nat
  BY <1>1, ProgramType, LenProperties, SMT
<1>3. Done = 0 /\ 1 .. Done = {} /\ i - 1 <= Len(program.phdrs)
  <2>1. Done = 0
    BY <1>1, <1>2 DEF Done
  <2> QED BY <1>2, <2>1, SMT
<1> QED BY <1>1, <1>3 DEF ShapeInv, LoopInv, OriginInv, ImageInv

\* load_segment() of both versions: wherever a segment begins and ends in its pages and in
\* the file, its first p_filesz bytes come from p_offset on and the others are zero, on
\* every page that it shares with no other segment nor with the stack.
THEOREM SegmentsRight == Spec => []SegmentsLoaded
<1>1. ASSUME PagingInv, ShapeInv
      PROVE  SegmentsLoaded
  <2> SUFFICES ASSUME Loaded, NEW j \in DOMAIN program.phdrs, program.phdrs[j].type = "load",
                      NEW a \in program.phdrs[j].vaddr ..
                                  program.phdrs[j].vaddr + program.phdrs[j].memsz - 1,
                      pg_round_down(a) # PHYS_BASE - PGSIZE,
                      \A k \in DOMAIN program.phdrs \ {j} : pg_round_down(a) \notin PagesOf(k)
               PROVE  /\ pg_round_down(a) \in DOMAIN image
                      /\ Shows(a) = IF a < program.phdrs[j].vaddr + program.phdrs[j].filesz
                                      THEN Add(program.phdrs[j].offset, a - program.phdrs[j].vaddr)
                                      ELSE ZERO
                      /\ image[pg_round_down(a)].writable = program.phdrs[j].writable
    BY DEF SegmentsLoaded
  <2> DEFINE s == program.phdrs[j]
             u == pg_round_down(a)
  <2>1. pc \in {"strings", "pointers", "user"} /\ Done = Len(program.phdrs) /\ Alive
    BY DEF Loaded, Done, Alive
  <2>2. j \in 1 .. Done
    BY <1>1, <2>1, DoneType DEF PagingInv, ShapeInv
  <2>3. u \in PagesOf(j)
    BY DEF PagesOf
  <2>4. Alone(j, u) /\ ~ Ahead(j, u)
    BY <2>1 DEF Alone, Ahead
  <2>5. u \in DOMAIN image /\ Right(image[u], s, u)
    <3>1. ImageInv
      BY <1>1 DEF ShapeInv
    <3> QED BY <2>1, <2>2, <2>3, <2>4, <3>1, ImageAt
  <2>6. /\ image[u].writable = s.writable
        /\ IF a < s.vaddr + s.filesz
             THEN pg_ofs(a) < image[u].read_bytes
                  /\ Add(image[u].offset, pg_ofs(a)) = Add(s.offset, a - s.vaddr)
             ELSE ~ (pg_ofs(a) < image[u].read_bytes)
    BY <2>5 DEF Right
  <2>7. Shows(a) = IF pg_ofs(a) < image[u].read_bytes
                     THEN Add(image[u].offset, pg_ofs(a)) ELSE ZERO
    BY DEF Shows
  <2> QED BY <2>5, <2>6, <2>7
<1>2. PagingInv /\ ShapeInv => SegmentsLoaded
  BY <1>1
<1> QED BY <1>2, PagingInit, PagingStep, ShapeInit, ShapeStep, PTL DEF Spec

-----------------------------------------------------------------------------
(***************************************************************************)
(* What construct_esp() leaves on the stack.                               *)
(***************************************************************************)

\* Every string is below PHYS_BASE, and no two overlap.
StringsApart ==
  /\ strings \subseteq Int \X (1 .. argc)
  /\ \A s \in strings :
       /\ s[1] + program.words[s[2]] < 0
       /\ \A r \in strings \ {s} :
            r[1] + program.words[r[2]] < s[1] \/ r[1] > s[1] + program.words[s[2]]

\* What has been pushed as words is below the strings.
WordsBelow ==
  /\ \A s \in strings : esp + 3 < s[1]
  /\ \A a \in DOMAIN stack : a \in Int /\ a >= esp /\ \A s \in strings : a + 3 < s[1]

\* argv[k] is where word k has been copied to.
Copied(k) == <<argv[k], k>> \in strings

\* What ArgumentsPassed says of the stack.
Passed ==
  /\ esp % 4 = 0
  /\ stack[esp + 4] = argc
  /\ LET v == stack[esp + 8] IN
     /\ \A k \in 1 .. argc : <<stack[v + 4 * (k - 1)], k>> \in strings
     /\ stack[v + 4 * argc] = 0
  /\ \A s \in strings :
       /\ s[1] + program.words[s[2]] < 0
       /\ \A a \in DOMAIN stack : a + 3 < s[1] \/ a > s[1] + program.words[s[2]]
       /\ \A r \in strings \ {s} :
            r[1] + program.words[r[2]] < s[1] \/ r[1] > s[1] + program.words[s[2]]

\* The words from i + 1 on have been copied; then their addresses have been pushed.
StackInv ==
  /\ Loading => esp = 0 /\ total_len = 0 /\ strings = {} /\ DOMAIN stack = {}
  /\ pc = "strings" =>
       /\ StringsApart /\ DOMAIN stack = {}
       /\ esp + total_len = 0 /\ \A s \in strings : s[1] >= esp
       /\ \A k \in i + 1 .. argc : Copied(k)
  /\ pc = "pointers" =>
       /\ StringsApart /\ WordsBelow
       /\ esp % 4 = 0
       /\ \A k \in 1 .. argc : Copied(k)
       /\ \A m \in 0 .. argc - i : esp + 4 * m \in DOMAIN stack
       /\ stack[esp + 4 * (argc - i)] = 0
       /\ \A k \in i + 1 .. argc : stack[esp + 4 * (k - 1 - i)] = argv[k]
  /\ pc \notin {"header", "segment", "stack", "strings", "pointers", "exiting", "dead", "assert"}
     /\ program.project = 4 => Passed

LEMMA PushAligned ==
  ASSUME NEW e \in Int
  PROVE  (e - 4) % 4 = e % 4 /\ (e - 12) % 4 = e % 4
BY Z3

LEMMA PaddingAligns ==
  ASSUME NEW e \in Int, NEW n \in Nat, e + n = 0
  PROVE  Padding(n) \in 0 .. 3 /\ (e - Padding(n) - 4) % 4 = 0
<1>1. Padding(n) = (4 - (n % 4)) % 4 /\ e = - n
  BY SMT DEF Padding
<1> QED BY <1>1, Z3

LEMMA WordType ==
  ASSUME MemInv, NEW k \in 1 .. argc
  PROVE  program.words[k] \in Nat \ {0} /\ k \in Nat
<1>1. program.words \in Seq(Nat \ {0}) /\ argc \in Nat
  BY ProgramType DEF MemInv
<1> QED BY <1>1, ElementOfSeq, SMT DEF argc

LEMMA PushStringStack ==
  ASSUME MemInv, ArgInv, StackInv, PushString
  PROVE  StackInv'
<1>1. PICK k : k = i
  OBVIOUS
<1> DEFINE w == program.words[k]
           e == esp - (w + 1)
           new == <<e, k>>
<1>2. /\ pc = "strings" /\ pc' = "strings" /\ k > 0
      /\ esp' = e /\ total_len' = total_len + w + 1 /\ argv' = [argv EXCEPT ![k] = e]
      /\ strings' = strings \union {new} /\ i' = k - 1
      /\ program' = program /\ stack' = stack
  BY <1>1 DEF PushString, loadVars
<1>3. /\ k \in Nat /\ k <= argc /\ argc \in Nat /\ argc' = argc /\ esp \in Int
      /\ total_len \in Nat /\ argv \in [1 .. argc -> Int]
  BY <1>1, <1>2, ProgramType DEF ArgInv, MemInv, argc
<1>4. k \in 1 .. argc
  BY <1>2, <1>3, SMT
<1>5. w \in Nat \ {0}
  BY <1>4, WordType
<1>6. /\ StringsApart /\ DOMAIN stack = {} /\ esp + total_len = 0
      /\ \A s \in strings : s[1] >= esp
      /\ \A j \in k + 1 .. argc : Copied(j)
  BY <1>1, <1>2 DEF StackInv
<1> HIDE DEF w
<1>7. /\ e \in Int /\ e < esp /\ e + w < esp /\ e + w < 0 /\ e + (total_len + w + 1) = 0
      /\ new[1] = e /\ new[2] = k
  BY <1>3, <1>5, <1>6, SMT
<1> HIDE DEF e
<1>8. ASSUME NEW s \in strings
      PROVE  /\ s[1] \in Int /\ s[2] \in 1 .. argc /\ s[1] >= esp
             /\ e + w < s[1] /\ s[1] >= e
  <2>1. s[1] \in Int /\ s[2] \in 1 .. argc /\ s[1] >= esp
    BY <1>6, <1>8 DEF StringsApart
  <2> QED BY <1>3, <1>5, <1>7, <2>1, SMT
<1>9. StringsApart'
  <2>1. new \in Int \X (1 .. argc)
    BY <1>4, <1>7
  <2>2. ASSUME NEW s \in strings \union {new}
        PROVE  /\ s[1] + program.words[s[2]] < 0
               /\ \A r \in (strings \union {new}) \ {s} :
                    \/ r[1] + program.words[r[2]] < s[1]
                    \/ r[1] > s[1] + program.words[s[2]]
    <3>1. CASE s = new
      <4>1. s[1] = e /\ program.words[s[2]] = w
        BY <1>7, <3>1 DEF w
      <4>2. \A r \in strings : r[1] > e + w
        BY <1>3, <1>5, <1>7, <1>8, SMT
      <4> QED BY <1>7, <3>1, <4>1, <4>2
    <3>2. CASE s \in strings
      <4>1. new[1] + program.words[new[2]] < s[1]
        BY <1>7, <1>8, <3>2 DEF w
      <4> QED BY <1>6, <3>2, <4>1 DEF StringsApart
    <3> QED BY <3>1, <3>2
  <2> QED BY <1>2, <1>3, <1>6, <2>1, <2>2 DEF StringsApart
<1>10. \A s \in strings' : s[1] >= esp'
  <2>1. new[1] >= e
    BY <1>7, SMT
  <2> QED BY <1>2, <1>8, <2>1
<1>11. \A j \in i' + 1 .. argc' : Copied(j)'
  <2>1. ASSUME NEW j \in i' + 1 .. argc'
        PROVE  <<argv'[j], j>> \in strings'
    <3>1. j = k \/ (j \in k + 1 .. argc /\ j # k /\ j \in 1 .. argc)
      BY <1>2, <1>3, SMT
    <3>2. CASE j = k
      BY <1>2, <1>3, <1>4, <3>2
    <3>3. CASE j \in k + 1 .. argc /\ j # k /\ j \in 1 .. argc
      <4>1. argv'[j] = argv[j] /\ <<argv[j], j>> \in strings
        BY <1>2, <1>3, <1>6, <3>3 DEF Copied
      <4> QED BY <1>2, <4>1
    <3> QED BY <3>1, <3>2, <3>3
  <2> QED BY <2>1 DEF Copied
<1>12. esp' + total_len' = 0
  BY <1>2, <1>7
<1>13. DOMAIN stack' = {}
  BY <1>2, <1>6
<1> QED BY <1>2, <1>9, <1>10, <1>11, <1>12, <1>13 DEF StackInv, Loading

\* Another word below the others.
LEMMA PushWord ==
  ASSUME StringsApart, \A a \in DOMAIN stack : a \in Int /\ a >= esp /\ \A s \in strings : a + 3 < s[1],
         esp \in Int, \A s \in strings : esp <= s[1],
         NEW n \in Nat, n >= 4, NEW v, esp' = esp - n, stack' = At(stack, esp', v),
         strings' = strings
  PROVE  WordsBelow' /\ esp' \in Int /\ esp' \in DOMAIN stack' /\ stack'[esp'] = v
         /\ \A a \in DOMAIN stack : a \in DOMAIN stack' /\ stack'[a] = stack[a]
<1>1. \A s \in strings : s[1] \in Int
  BY DEF StringsApart
<1>2. esp' \in Int /\ \A s \in strings : esp' + 3 < s[1]
  BY <1>1, SMT
<1>3. \A a \in DOMAIN stack : a >= esp' /\ a # esp'
  <2>1. \A a \in DOMAIN stack : a \in Int /\ a >= esp
    OBVIOUS
  <2>2. esp' < esp /\ esp' \in Int /\ esp \in Int
    BY SMT
  <2> QED BY <2>1, <2>2, SMT
<1>4. /\ DOMAIN stack' = DOMAIN stack \union {esp'} /\ stack'[esp'] = v
      /\ \A a \in DOMAIN stack : stack'[a] = stack[a]
  BY <1>3 DEF At
<1>5. esp' >= esp'
  BY <1>2, SMT
<1>6. \A a \in DOMAIN stack' : a \in Int /\ a >= esp' /\ \A s \in strings' : a + 3 < s[1]
  BY <1>2, <1>3, <1>4, <1>5
<1> QED BY <1>2, <1>3, <1>4, <1>6 DEF WordsBelow

LEMMA PushNullStack ==
  ASSUME MemInv, ArgInv, StackInv, PushNull
  PROVE  StackInv'
<1> DEFINE n == Padding(total_len) + 4
<1>1. /\ pc = "strings" /\ pc' = "pointers" /\ i = 0 /\ i' = argc
      /\ esp' = esp - Padding(total_len) - 4 /\ stack' = At(stack, esp', 0)
      /\ UNCHANGED <<program, total_len, argv, strings>>
  BY DEF PushNull, loadVars
<1>2. /\ argc \in Nat /\ argc' = argc /\ esp \in Int /\ total_len \in Nat
  BY <1>1, ProgramType DEF ArgInv, MemInv, argc
<1>3. /\ StringsApart /\ DOMAIN stack = {} /\ esp + total_len = 0
      /\ \A s \in strings : s[1] >= esp
      /\ \A k \in i + 1 .. argc : Copied(k)
  BY <1>1 DEF StackInv
<1>4. Padding(total_len) \in 0 .. 3 /\ esp' % 4 = 0
  BY <1>1, <1>2, <1>3, PaddingAligns
<1>5. n \in Nat /\ n >= 4 /\ esp' = esp - n
  <2>1. PICK p \in 0 .. 3 : p = Padding(total_len)
    BY <1>4
  <2>2. esp' = esp - p - 4 /\ n = p + 4
    BY <1>1, <2>1
  <2> HIDE DEF n
  <2> QED BY <1>2, <2>2, SMT
<1>6. \A s \in strings : esp <= s[1]
  <2>1. \A s \in strings : s[1] \in Int
    BY <1>3 DEF StringsApart
  <2> QED BY <1>2, <1>3, <2>1, SMT
<1> HIDE DEF n
<1>7. WordsBelow' /\ esp' \in Int /\ esp' \in DOMAIN stack' /\ stack'[esp'] = 0
  BY <1>1, <1>2, <1>3, <1>5, <1>6, PushWord
<1>8. StringsApart'
  BY <1>1, <1>2, <1>3 DEF StringsApart
<1>9. \A k \in 1 .. argc' : Copied(k)'
  <2>1. i + 1 = 1
    BY <1>1, SMT
  <2> QED BY <1>1, <1>2, <1>3, <2>1 DEF Copied
<1>10. /\ esp' + 4 * (argc' - i') = esp' /\ i' + 1 .. argc' = {}
       /\ \A m \in 0 .. argc' - i' : esp' + 4 * m = esp'
  BY <1>1, <1>2, <1>7, SMT
<1> QED BY <1>1, <1>4, <1>7, <1>8, <1>9, <1>10 DEF StackInv, Loading

LEMMA PushPointerStack ==
  ASSUME MemInv, ArgInv, StackInv, PushPointer
  PROVE  StackInv'
<1>1. PICK k : k = i
  OBVIOUS
<1>2. /\ pc = "pointers" /\ pc' = "pointers" /\ k > 0 /\ i' = k - 1
      /\ esp' = esp - 4 /\ stack' = At(stack, esp', argv[k])
      /\ UNCHANGED <<program, total_len, argv, strings>>
  BY <1>1 DEF PushPointer, loadVars
<1>3. argc \in Nat /\ argc' = argc /\ esp \in Int /\ k \in Nat /\ k <= argc
  BY <1>1, <1>2, ProgramType DEF ArgInv, MemInv, argc
<1>4. /\ StringsApart /\ WordsBelow /\ esp % 4 = 0
      /\ \A j \in 1 .. argc : Copied(j)
      /\ \A m \in 0 .. argc - k : esp + 4 * m \in DOMAIN stack
      /\ stack[esp + 4 * (argc - k)] = 0
      /\ \A j \in k + 1 .. argc : stack[esp + 4 * (j - 1 - k)] = argv[j]
  BY <1>1, <1>2 DEF StackInv
<1>5. esp' % 4 = 0
  BY <1>2, <1>3, <1>4, PushAligned
<1>6. \A s \in strings : esp <= s[1]
  <2>1. \A s \in strings : s[1] \in Int /\ esp + 3 < s[1]
    BY <1>4 DEF StringsApart, WordsBelow
  <2> QED BY <1>3, <2>1, SMT
<1>7. /\ WordsBelow' /\ esp' \in Int /\ esp' \in DOMAIN stack' /\ stack'[esp'] = argv[k]
      /\ \A a \in DOMAIN stack : a \in DOMAIN stack' /\ stack'[a] = stack[a]
  <2>1. 4 \in Nat /\ 4 >= 4
    BY SMT
  <2> QED BY <1>2, <1>3, <1>4, <1>6, <2>1, PushWord DEF WordsBelow
<1>8. StringsApart'
  BY <1>2, <1>3, <1>4 DEF StringsApart
<1>9. \A j \in 1 .. argc' : Copied(j)'
  BY <1>2, <1>3, <1>4 DEF Copied
<1>10. ASSUME NEW m \in 0 .. argc' - i'
       PROVE  esp' + 4 * m \in DOMAIN stack'
  <2>1. m = 0 \/ m - 1 \in 0 .. argc - k
    BY <1>2, <1>3, SMT
  <2>2. CASE m = 0
    <3>1. esp' \in Int /\ m \in Int
      BY <1>7, <2>2
    <3>2. ASSUME NEW e \in Int PROVE e + 4 * 0 = e
      BY SMT
    <3>3. esp' + 4 * m = esp'
      BY <2>2, <3>1, <3>2
    <3> QED BY <1>7, <3>3
  <2>3. CASE m - 1 \in 0 .. argc - k
    <3>1. esp' + 4 * m = esp + 4 * (m - 1)
      BY <1>2, <1>3, SMT
    <3> QED BY <1>4, <1>7, <2>3, <3>1
  <2> QED BY <2>1, <2>2, <2>3
<1>11. stack'[esp' + 4 * (argc' - i')] = 0
  <2>1. esp' + 4 * (argc' - i') = esp + 4 * (argc - k) /\ argc - k \in 0 .. argc - k
    BY <1>2, <1>3, SMT
  <2> QED BY <1>4, <1>7, <2>1
<1>12. ASSUME NEW j \in i' + 1 .. argc'
       PROVE  stack'[esp' + 4 * (j - 1 - i')] = argv'[j]
  <2>1. j = k \/ j \in k + 1 .. argc
    BY <1>2, <1>3, SMT
  <2>2. CASE j = k
    <3>1. esp' + 4 * (j - 1 - i') = esp'
      BY <1>2, <1>3, <1>7, <2>2, SMT
    <3> QED BY <1>2, <1>7, <2>2, <3>1
  <2>3. CASE j \in k + 1 .. argc
    <3>1. esp' + 4 * (j - 1 - i') = esp + 4 * (j - 1 - k) /\ j - 1 - k \in 0 .. argc - k
      BY <1>2, <1>3, <2>3, SMT
    <3>2. stack'[esp + 4 * (j - 1 - k)] = stack[esp + 4 * (j - 1 - k)]
      BY <1>4, <1>7, <3>1
    <3> QED BY <1>2, <1>4, <2>3, <3>1, <3>2
  <2> QED BY <2>1, <2>2, <2>3
<1> QED BY <1>2, <1>5, <1>7, <1>8, <1>9, <1>10, <1>11, <1>12 DEF StackInv, Loading

\* argv, argc and the return address: what main() finds.
LEMMA PushFrameStack ==
  ASSUME MemInv, ArgInv, StackInv, PushFrame
  PROVE  StackInv'
<1>1. /\ pc = "pointers" /\ pc' = "user" /\ i = 0 /\ esp' = esp - 12
      /\ stack' = At(At(At(stack, esp - 4, esp), esp - 8, argc), esp - 12, 0)
      /\ UNCHANGED <<program, strings>>
  BY DEF PushFrame, loadVars, ArgInv
<1>2. argc \in Nat /\ argc' = argc /\ esp \in Int
  BY <1>1, ProgramType DEF ArgInv, MemInv, argc
<1>3. /\ StringsApart /\ WordsBelow /\ esp % 4 = 0
      /\ \A k \in 1 .. argc : Copied(k)
      /\ \A m \in 0 .. argc - i : esp + 4 * m \in DOMAIN stack
      /\ stack[esp + 4 * (argc - i)] = 0
      /\ \A k \in i + 1 .. argc : stack[esp + 4 * (k - 1 - i)] = argv[k]
  BY <1>1 DEF StackInv
<1>4. /\ \A a \in DOMAIN stack : a \in Int /\ a # esp - 4 /\ a # esp - 8 /\ a # esp - 12
      /\ esp - 4 # esp - 8 /\ esp - 4 # esp - 12 /\ esp - 8 # esp - 12
  <2>1. \A a \in DOMAIN stack : a \in Int /\ a >= esp
    BY <1>3 DEF WordsBelow
  <2> QED BY <1>2, <2>1, SMT
<1>5. /\ DOMAIN stack' = DOMAIN stack \union {esp - 4, esp - 8, esp - 12}
      /\ stack'[esp - 4] = esp /\ stack'[esp - 8] = argc
      /\ \A a \in DOMAIN stack : stack'[a] = stack[a]
  BY <1>1, <1>4 DEF At
<1>6. esp' % 4 = 0 /\ esp' + 4 = esp - 8 /\ esp' + 8 = esp - 4
  <2>1. (esp - 12) % 4 = esp % 4
    BY <1>2, PushAligned
  <2>2. esp' + 4 = esp - 8 /\ esp' + 8 = esp - 4
    BY <1>1, <1>2, SMT
  <2> QED BY <1>1, <1>3, <2>1, <2>2
<1>7. ASSUME NEW k \in 1 .. argc
      PROVE  <<stack'[esp + 4 * (k - 1)], k>> \in strings
  <2>1. k \in i + 1 .. argc /\ k - 1 - i = k - 1 /\ k - 1 \in 0 .. argc - i
    BY <1>1, <1>2, SMT
  <2>2. stack'[esp + 4 * (k - 1)] = argv[k]
    BY <1>3, <1>5, <2>1
  <2> QED BY <1>3, <2>2 DEF Copied
<1>8. stack'[esp + 4 * argc] = 0
  <2>1. argc - i = argc /\ argc \in 0 .. argc - i
    BY <1>1, <1>2, SMT
  <2> QED BY <1>3, <1>5, <2>1
<1>9. ASSUME NEW s \in strings, NEW a \in DOMAIN stack'
      PROVE  a + 3 < s[1]
  <2>1. s[1] \in Int /\ esp + 3 < s[1]
    BY <1>3 DEF StringsApart, WordsBelow
  <2>2. CASE a \in DOMAIN stack
    BY <1>3, <2>2 DEF WordsBelow
  <2>3. CASE a \in {esp - 4, esp - 8, esp - 12}
    BY <1>2, <2>1, <2>3, SMT
  <2> QED BY <1>5, <2>2, <2>3
<1>10. \A s \in strings :
         /\ s[1] + program.words[s[2]] < 0
         /\ \A r \in strings \ {s} :
              r[1] + program.words[r[2]] < s[1] \/ r[1] > s[1] + program.words[s[2]]
  BY <1>3 DEF StringsApart
<1>11. Passed'
  BY <1>1, <1>2, <1>5, <1>6, <1>7, <1>8, <1>9, <1>10 DEF Passed
<1> QED BY <1>1, <1>11 DEF StackInv, Loading

\* Steps that push nothing.
LEMMA StackSame ==
  ASSUME StackInv, UNCHANGED <<program, stackVars>>,
         Loading' => Loading,
         ~ Loading' =>
            \/ pc' \in {"exiting", "dead", "assert"}
            \/ pc \in {"user", "find", "palloc", "switch", "bin", "file", "install"}
               /\ pc' \notin {"strings", "pointers"}
  PROVE  StackInv'
<1>1. CASE Loading'
  BY <1>1 DEF StackInv, Loading, stackVars
<1>2. CASE pc' \in {"exiting", "dead", "assert"}
  BY <1>2 DEF StackInv, Loading
<1>3. CASE /\ pc \in {"user", "find", "palloc", "switch", "bin", "file", "install"}
           /\ pc' \notin {"strings", "pointers"} /\ ~ Loading'
  <2>1. program.project = 4 => Passed
    BY <1>3 DEF StackInv
  <2>2. Passed' <=> Passed
    BY DEF Passed, stackVars, argc
  <2> QED BY <1>3, <2>1, <2>2 DEF StackInv, Loading
<1> QED BY <1>1, <1>2, <1>3

LEMMA StartStack ==
  ASSUME MemInv, StackInv, SetupStack
  PROVE  StackInv'
<1>1. /\ pc = "stack" /\ UNCHANGED <<program, stackVars>> /\ i' = argc
      /\ pc' = IF program.project = 3 THEN "user" ELSE "strings"
  BY DEF SetupStack
<1>2. esp = 0 /\ total_len = 0 /\ strings = {} /\ DOMAIN stack = {}
  BY <1>1 DEF StackInv, Loading
<1>3. CASE program.project = 3
  BY <1>1, <1>3 DEF StackInv, Loading
<1>4. CASE program.project # 3
  <2>1. /\ argc' = argc /\ argc \in Nat /\ pc' = "strings"
        /\ UNCHANGED <<esp, total_len, argv, strings, stack>>
    BY <1>1, <1>4, ProgramType DEF MemInv, argc, stackVars
  <2>2. StringsApart'
    BY <1>2, <2>1 DEF StringsApart
  <2>3. i' + 1 .. argc' = {} /\ esp' + total_len' = 0
    BY <1>1, <1>2, <2>1, SMT
  <2> QED BY <1>2, <2>1, <2>2, <2>3 DEF StackInv, Loading
<1> QED BY <1>3, <1>4

LEMMA StackStep == PagingInv /\ StackInv /\ [Next]_pagingVars => StackInv'
<1> SUFFICES ASSUME PagingInv, StackInv, [Next]_pagingVars PROVE StackInv'
  OBVIOUS
<1>1. MemInv /\ ArgInv
  BY DEF PagingInv
<1>2. CASE LoadStep
  <2>1. CASE LoadFails \/ Refused \/ EagerFails \/ ProcessExit
    BY <2>1, StackSame DEF LoadFails, Refused, EagerFails, Fail, ProcessExit, Loading
  <2>2. CASE Ignored \/ Accepted
    BY <2>2, StackSame DEF Ignored, Accepted, Header, loadVars, Loading
  <2>3. CASE EntryPage \/ EagerPage \/ SegmentDone \/ HeadersDone
    BY <2>3, StackSame DEF EntryPage, EagerPage, SegmentDone, HeadersDone, SegmentPage, loadVars,
       Loading
  <2>4. CASE SetupStack
    BY <1>1, <2>4, StartStack
  <2>5. CASE PushString
    BY <1>1, <2>5, PushStringStack
  <2>6. CASE PushNull
    BY <1>1, <2>6, PushNullStack
  <2>7. CASE PushPointer
    BY <1>1, <2>7, PushPointerStack
  <2>8. CASE PushFrame
    BY <1>1, <2>8, PushFrameStack
  <2> QED BY <1>2, <2>1, <2>2, <2>3, <2>4, <2>5, <2>6, <2>7, <2>8 DEF LoadStep, LoadNext
<1>3. CASE HandlerStep \/ PageFault \/ ProcessEnds
  <2>1. UNCHANGED <<program, stackVars>> /\ pc' \notin {"header", "segment", "stack", "strings", "pointers"}
    BY <1>3, HandlerKeeps, HandlerLabel DEF PagingInv
  <2>2. pc \in {"user", "find", "palloc", "switch", "bin", "file", "install"}
    BY <1>3 DEF HandlerStep, FindVme, NoPage, GetPage, NullEntry, Switch, LoadFile,
       LoadFileFails, LoadFileFaults, InstallFails, Install, PageFault, ProcessEnds
  <2> QED BY <2>1, <2>2, StackSame DEF Loading
<1>4. CASE UNCHANGED pagingVars
  <2>1. UNCHANGED <<program, pc, i, stackVars>>
    BY <1>4 DEF pagingVars, vars, loadVars
  <2>2. UNCHANGED <<esp, total_len, argv, strings, stack>> /\ argc' = argc
    BY <2>1 DEF stackVars, argc
  <2>3. (StringsApart' <=> StringsApart) /\ (WordsBelow' <=> WordsBelow)
        /\ (Passed' <=> Passed) /\ \A k : Copied(k)' <=> Copied(k)
    BY <2>1, <2>2 DEF StringsApart, WordsBelow, Passed, Copied
  <2> QED BY <2>1, <2>2, <2>3 DEF StackInv, Loading
<1> QED BY <1>2, <1>3, <1>4 DEF Next

\* construct_esp(): wherever words, padding and pointers come to lie, main() finds argc,
\* argv and every string where the calling convention says, and nothing is overwritten,
\* for every command line.
THEOREM ArgumentsRight == Spec => []ArgumentsPassed
<1>1. Init => StackInv
  BY DEF Init, LoadInit, StackInv, Loading, Empty
<1>2. StackInv => ArgumentsPassed
  BY DEF StackInv, Passed, ArgumentsPassed
<1> QED BY <1>1, <1>2, PagingInit, PagingStep, StackStep, PTL DEF Spec
=============================================================================
