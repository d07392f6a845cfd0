--------------------------- MODULE PayloadProofs ---------------------------
(***************************************************************************)
(* Proofs about Payload, for every memory size, heap size, set of file     *)
(* sizes and nesting of try blocks.                                        *)
(***************************************************************************)
EXTENDS Payload, SequenceTheorems, TLAPS

-----------------------------------------------------------------------------
(* Pages and sets of blocks *)

(* The macro rounds up: the pages it counts are the fewest that hold size  *)
(* bytes, and a size that is not zero needs at least one.                  *)
LEMMA SizeToPagesRoundsUp ==
  ASSUME NEW size \in Nat
  PROVE  /\ SizeToPages(size) \in Nat
         /\ SizeToPages(size) = (size + PageSize - 1) \div PageSize
         /\ size # 0 => SizeToPages(size) # 0
  BY DEF SizeToPages, PageSize

(* A block of pages that no block of the set has can join it. *)
LEMMA DisjointAdd ==
  ASSUME NEW blocks, NEW b, PairwiseDisjoint(blocks),
         PagesOf(b) \cap AllPages(blocks) = {}
  PROVE  PairwiseDisjoint(blocks \cup {b})
  <1>1. ASSUME NEW c \in blocks
        PROVE  PagesOf(b) \cap PagesOf(c) = {}
    BY <1>1 DEF AllPages
  <1> QED
    BY <1>1 DEF PairwiseDisjoint

LEMMA AllPagesAdd ==
  ASSUME NEW blocks, NEW b
  PROVE  AllPages(blocks \cup {b}) = AllPages(blocks) \cup PagesOf(b)
  BY DEF AllPages

(* Taking a block out of a set of disjoint blocks takes out its pages and  *)
(* no others.                                                              *)
LEMMA AllPagesRemove ==
  ASSUME NEW blocks, PairwiseDisjoint(blocks), NEW b, b \in blocks
  PROVE  /\ AllPages(blocks \ {b}) = AllPages(blocks) \ PagesOf(b)
         /\ PagesOf(b) \subseteq AllPages(blocks)
         /\ PairwiseDisjoint(blocks \ {b})
  <1>1. ASSUME NEW c \in blocks \ {b}
        PROVE  PagesOf(c) \cap PagesOf(b) = {}
    BY <1>1 DEF PairwiseDisjoint
  <1>2. AllPages(blocks \ {b}) = AllPages(blocks) \ PagesOf(b)
    BY <1>1 DEF AllPages
  <1>3. PagesOf(b) \subseteq AllPages(blocks)
    BY DEF AllPages
  <1>4. PairwiseDisjoint(blocks \ {b})
    BY DEF PairwiseDisjoint
  <1> QED
    BY <1>2, <1>3, <1>4

-----------------------------------------------------------------------------
(* The inductive invariant *)

(* Which entries of the table are filled, and where that matters. *)
TableInv ==
  /\ \A i \in 1 .. (idx - 1) : ServiceTable[i] \in service
  /\ pc = "assert" => idx > 1
  /\ pc \notin {"lookup", "assert", "hang"} => idx = Len(ServiceTable) + 1

(* Where the heap is there, and the interpreter over it. *)
HeapInv ==
  /\ mp = "up" <=> pc \in PythonPcs \cup
                     {"do_str", "print_exc", "repl", "deinit", "fatal", "reset"}
  /\ mp = "gc" <=> pc = "mp_init"
  /\ heap # NULL <=> mp # "down" \/ pc = "free_heap"

(* Where a file's pages may be in flight. *)
ImageInv ==
  /\ image # NULL => pc \in {"new_bytes", "free_image"}
  /\ image # NULL => image_size # 0

IInv == TypeOK /\ TableInv /\ HeapInv /\ ImageInv /\ NlrBalanced /\ Accounting

-----------------------------------------------------------------------------
(* Lemmas *)

LEMMA TableFacts ==
  /\ Len(ServiceTable) = 14
  /\ \A i \in 1..14 : ServiceTable[i] \in ServiceNames
  /\ ServiceTable[1] = "DebugPrint"
  <1>1. Len(ServiceTable) = 14
    BY DEF ServiceTable
  <1>2. DOMAIN ServiceTable = 1..14
    BY DEF ServiceTable
  <1>3. ServiceTable[1] = "DebugPrint"
    BY DEF ServiceTable
  <1> QED
    BY <1>1, <1>2, <1>3 DEF ServiceNames

(* Popping the innermost nlr buffer. *)
LEMMA PopFacts ==
  ASSUME NEW S, NEW s \in Seq(S), s # <<>>
  PROVE  /\ SubSeq(s, 1, Len(s) - 1) \in Seq(S)
         /\ Len(SubSeq(s, 1, Len(s) - 1)) = Len(s) - 1
         /\ \A i \in 1 .. (Len(s) - 1) : SubSeq(s, 1, Len(s) - 1)[i] = s[i]
         /\ Len(s) \in Nat \ {0}
         /\ s[Len(s)] \in S
  <1>1. Len(s) \in Nat \ {0} /\ \A i \in 1 .. Len(s) : s[i] \in S
    BY LenProperties, ElementOfSeq, EmptySeq
  <1> DEFINE n == Len(s) - 1
             t == SubSeq(s, 1, n)
  <1>2. 1 \in Int /\ n \in Nat /\ \A i \in 1 .. n : s[i] \in S
    BY <1>1
  <1>3. /\ t \in Seq(S)
        /\ Len(t) = IF 1 <= n THEN n - 1 + 1 ELSE 0
        /\ \A i \in 1 .. n - 1 + 1 : t[i] = s[1 + i - 1]
    <2> HIDE DEF n
    <2> QED BY <1>2, SubSeqProperties
  <1> HIDE DEF t
  <1>4. Len(t) = n
    <2> HIDE DEF n
    <2>1. 1 <= n \/ n = 0
      BY <1>2
    <2> QED
      BY <1>2, <1>3, <2>1
  <1>5. ASSUME NEW i \in 1 .. n
        PROVE  t[i] = s[i]
    <2>1. i \in 1 .. n - 1 + 1 /\ 1 + i - 1 = i
      BY <1>2
    <2> QED
      BY <1>3, <2>1
  <1> QED
    BY <1>1, <1>3, <1>4, <1>5 DEF t

(* A free block is one the allocator may hand out. *)
LEMMA FreeBlockFacts ==
  ASSUME TypeOK, NEW count \in Nat, NEW b \in FreeBlocks(count)
  PROVE  /\ b.first \in 1..MaxPages
         /\ b = Block(b.first, count)
         /\ PagesOf(b) \subseteq 1..MaxPages
         /\ PagesOf(b) \cap owned = {}
  BY DEF FreeBlocks, Block

LEMMA FreeBlockTypes ==
  ASSUME TypeOK, NEW count \in Nat, NEW b \in FreeBlocks(count)
  PROVE  b.first \in 0..MaxPages /\ owned \cup PagesOf(b) \subseteq 1..MaxPages
  <1>1. /\ b.first \in 1..MaxPages
        /\ PagesOf(b) \subseteq 1..MaxPages
        /\ owned \subseteq 1..MaxPages
    BY FreeBlockFacts DEF TypeOK
  <1>2. b.first \in 0..MaxPages
    BY <1>1, MaxPagesAssumption
  <1> QED
    BY <1>1, <1>2

LEMMA SizeFacts ==
  /\ SizeToPages(HeapSize) \in Nat \ {0}
  /\ \A size \in FileSizes :
       /\ FilePages(size) = SizeToPages(size)
       /\ FilePages(size) \in Nat \ {0}
  BY SizeToPagesRoundsUp, HeapSizeAssumption, FileSizesAssumption
     DEF FilePages

(* A jump out of Python code lands in Python code, with the outermost      *)
(* buffer still there, or empties the chain.                               *)
LEMMA PythonRaiseFacts ==
  ASSUME TypeOK, NlrBalanced, pc \in PythonPcs, NEW exc, Raise(exc)
  PROVE  /\ nlr' \in Seq({"do_str", "pyexec", "try"})
         /\ \/ /\ pc' = "python" /\ nlr' # <<>> /\ nlr'[1] = nlr[1]
               /\ \A i \in 2..Len(nlr') : nlr'[i] = "try"
            \/ pc' \in {"print_exc", "deinit"} /\ nlr' = <<>>
  <1> DEFINE n == Len(nlr)
             pop == SubSeq(nlr, 1, n - 1)
             Tags == {"do_str", "pyexec", "try"}
  <1>1. /\ nlr \in Seq(Tags) /\ nlr # <<>>
        /\ nlr[1] \in {"do_str", "pyexec"}
        /\ \A i \in 2..n : nlr[i] = "try"
    BY DEF TypeOK, NlrBalanced
  <1>2. nlr' = pop /\ pc' = AfterCatch(nlr[n], exc)
    BY <1>1 DEF Raise
  <1>3. /\ pop \in Seq(Tags) /\ Len(pop) = n - 1 /\ n \in Nat \ {0}
        /\ \A i \in 1 .. (n - 1) : pop[i] = nlr[i]
    BY <1>1, PopFacts
  <1> HIDE DEF pop, n
  <1>4. CASE n = 1
    <2>1. pop = <<>>
      BY <1>3, <1>4, EmptySeq
    <2>2. pc' \in {"print_exc", "deinit"}
      BY <1>1, <1>2, <1>4 DEF AfterCatch
    <2> QED
      BY <1>2, <1>3, <2>1, <2>2
  <1>5. CASE n # 1
    <2>1. n \in 2..n /\ 1 \in 1 .. (n - 1) /\ n - 1 # 0
      BY <1>3, <1>5
    <2>2. pc' = "python"
      BY <1>1, <1>2, <2>1 DEF AfterCatch
    <2>3. pop # <<>> /\ pop[1] = nlr[1]
      BY <1>3, <2>1, EmptySeq
    <2>4. \A i \in 2..(n - 1) : pop[i] = "try"
      <3>1. \A i \in 2..(n - 1) : i \in 2..n /\ i \in 1 .. (n - 1)
        BY <1>3
      <3> QED
        BY <1>1, <1>3, <3>1
    <2> QED
      BY <1>2, <1>3, <2>2, <2>3, <2>4
  <1> QED
    BY <1>4, <1>5

(* A jump with no handler on the chain ends in nlr_jump_fail. *)
LEMMA UnhandledRaiseFacts ==
  ASSUME NlrBalanced, pc \notin PythonPcs \cup {"reset"}, NEW exc, Raise(exc)
  PROVE  pc' = "fatal" /\ nlr' = nlr /\ nlr = <<>>
  BY DEF NlrBalanced, Raise

-----------------------------------------------------------------------------
(* The steps, one conjunct of the invariant at a time *)

(* The chain of nlr buffers. *)
LEMMA NlrStep ==
  ASSUME TypeOK, NlrBalanced, [Next]_vars
  PROVE  nlr' \in Seq({"do_str", "pyexec", "try"}) /\ NlrBalanced'
  <1> DEFINE Tags == {"do_str", "pyexec", "try"}
  <1>0. nlr \in Seq(Tags)
    BY DEF TypeOK
  <1>1. CASE LookupService
    BY <1>0, <1>1 DEF LookupService, OnMissing, NlrBalanced, PythonPcs
  <1>2. CASE DebugAssert \/ CallMain
    BY <1>0, <1>2 DEF DebugAssert, CallMain, NlrBalanced, PythonPcs
  <1>3. CASE AllocHeap
    BY <1>0, <1>3 DEF AllocHeap, NlrBalanced, PythonPcs
  <1>4. CASE MpInit \/ MpDeinit \/ FreeHeap
    BY <1>0, <1>4 DEF MpInit, MpDeinit, FreeHeap, NlrBalanced, PythonPcs
  <1>5. CASE DoStr
    <2>1. nlr = <<>> /\ nlr' = <<"do_str">> /\ pc' = "python"
      BY <1>5 DEF DoStr, NlrBalanced, PythonPcs
    <2> QED
      BY <2>1 DEF NlrBalanced, PythonPcs
  <1>6. CASE PrintException
    <2>1. nlr' = nlr /\ nlr = <<>> /\ pc' \in {"repl", "fatal"}
      BY <1>6, UnhandledRaiseFacts DEF PrintException, NlrBalanced, PythonPcs
    <2> QED
      BY <2>1 DEF NlrBalanced, PythonPcs
  <1>7. CASE Repl
    <2>1. nlr = <<>>
      BY <1>7 DEF Repl, NlrBalanced, PythonPcs
    <2>2. \/ pc' = "python" /\ nlr' = <<"pyexec">>
          \/ pc' \in {"deinit", "fatal"} /\ nlr' = <<>>
      BY <1>7, <2>1, UnhandledRaiseFacts DEF Repl, PythonPcs
    <2>3. CASE pc' = "python" /\ nlr' = <<"pyexec">>
      BY <2>3 DEF NlrBalanced, PythonPcs
    <2>4. CASE pc' \in {"deinit", "fatal"} /\ nlr' = <<>>
      BY <2>4 DEF NlrBalanced, PythonPcs
    <2> QED
      BY <2>2, <2>3, <2>4
  <1>8. CASE EnterTry
    <2>1. nlr # <<>> /\ nlr' = Append(nlr, "try") /\ pc' = "python"
          /\ nlr[1] \in {"do_str", "pyexec"}
          /\ \A i \in 2..Len(nlr) : nlr[i] = "try"
      BY <1>8 DEF EnterTry, NlrBalanced, PythonPcs
    <2>2. /\ nlr' \in Seq(Tags) /\ nlr' # <<>> /\ nlr'[1] = nlr[1]
          /\ \A i \in 2..Len(nlr') : nlr'[i] = "try"
      <3>1. nlr' \in Seq(Tags) /\ Len(nlr') = Len(nlr) + 1 /\ nlr' # <<>>
        BY <1>0, <2>1
      <3>2. Len(nlr) \in Nat \ {0}
        BY <1>0, <2>1, EmptySeq
      <3>3. \A i \in 1..Len(nlr) : nlr'[i] = nlr[i]
        BY <1>0, <2>1
      <3>4. nlr'[Len(nlr) + 1] = "try"
        BY <1>0, <2>1
      <3> QED
        BY <2>1, <3>1, <3>2, <3>3, <3>4
    <2> QED
      BY <2>1, <2>2 DEF NlrBalanced, PythonPcs
  <1>9. CASE LeaveTry
    <2> DEFINE pop == SubSeq(nlr, 1, Len(nlr) - 1)
    <2>1. /\ nlr # <<>> /\ Len(nlr) > 1 /\ nlr' = pop /\ pc' = "python"
          /\ nlr[1] \in {"do_str", "pyexec"}
          /\ \A i \in 2..Len(nlr) : nlr[i] = "try"
      BY <1>9 DEF LeaveTry, NlrBalanced, PythonPcs
    <2>2. /\ pop \in Seq(Tags) /\ Len(pop) = Len(nlr) - 1
          /\ Len(nlr) \in Nat
          /\ \A i \in 1 .. (Len(nlr) - 1) : pop[i] = nlr[i]
      BY <1>0, <2>1, PopFacts
    <2> HIDE DEF pop
    <2>3. pop # <<>> /\ pop[1] = nlr[1]
      BY <2>1, <2>2, EmptySeq
    <2>4. \A i \in 2..Len(pop) : pop[i] = "try"
      <3>1. \A i \in 2..Len(pop) : i \in 2..Len(nlr) /\ i \in 1 .. (Len(nlr) - 1)
        BY <2>2
      <3> QED
        BY <2>1, <2>2, <3>1
    <2> QED
      BY <2>1, <2>2, <2>3, <2>4 DEF NlrBalanced, PythonPcs
  <1>10. CASE PythonRaise
    <2>1. PICK exc \in {"Exception", "SystemExit"} : Raise(exc)
      BY <1>10 DEF PythonRaise
    <2>2. pc \in PythonPcs /\ nlr[1] \in {"do_str", "pyexec"}
      BY <1>10 DEF PythonRaise, PythonPcs, NlrBalanced
    <2> QED
      BY <2>1, <2>2, PythonRaiseFacts DEF NlrBalanced, PythonPcs
  <1>11. CASE PythonReturn
    <2> DEFINE pop == SubSeq(nlr, 1, Len(nlr) - 1)
    <2>1. nlr # <<>> /\ Len(nlr) = 1 /\ nlr' = pop /\ pc' = "repl"
      BY <1>11 DEF PythonReturn, NlrBalanced, PythonPcs
    <2>2. pop \in Seq(Tags) /\ Len(pop) = Len(nlr) - 1
      BY <1>0, <2>1, PopFacts
    <2> HIDE DEF pop
    <2>3. pop = <<>>
      BY <2>1, <2>2, EmptySeq
    <2> QED
      BY <2>1, <2>2, <2>3 DEF NlrBalanced, PythonPcs
  <1>12. CASE LoadFile \/ FreeImage
    BY <1>0, <1>12 DEF LoadFile, FreeImage, NlrBalanced, PythonPcs
  <1>13. CASE NewBytes
    <2>1. pc \in PythonPcs /\ nlr[1] \in {"do_str", "pyexec"}
      BY <1>13 DEF NewBytes, PythonPcs, NlrBalanced
    <2>2. CASE Raise("MemoryError")
      BY <2>1, <2>2, PythonRaiseFacts DEF NlrBalanced, PythonPcs
    <2>3. CASE pc' = "free_image" /\ nlr' = nlr
      BY <1>0, <2>1, <2>3 DEF NlrBalanced, PythonPcs
    <2> QED
      BY <1>13, <2>2, <2>3 DEF NewBytes
  <1>14. CASE Reboot
    BY <1>0, <1>14 DEF Reboot, NlrBalanced, PythonPcs
  <1>15. CASE UNCHANGED vars
    BY <1>0, <1>15 DEF vars, NlrBalanced
  <1> QED
    BY <1>1, <1>2, <1>3, <1>4, <1>5, <1>6, <1>7, <1>8, <1>9, <1>10, <1>11,
       <1>12, <1>13, <1>14, <1>15
       DEF Next, Boot, Main, Python, Stopped

(* Where the actions that may raise an exception lead. *)
LEMMA RaiseTargets ==
  ASSUME TypeOK, NlrBalanced
  PROVE  /\ PrintException => pc' \in {"repl", "fatal"}
         /\ Repl => pc' \in {"python", "deinit", "fatal"}
         /\ PythonRaise => pc' \in {"python", "print_exc", "deinit"}
         /\ NewBytes => pc' \in {"free_image", "python", "print_exc", "deinit"}
  <1>1. PrintException => pc' \in {"repl", "fatal"}
    BY UnhandledRaiseFacts DEF PrintException, PythonPcs
  <1>2. Repl => pc' \in {"python", "deinit", "fatal"}
    BY UnhandledRaiseFacts DEF Repl, PythonPcs
  <1>3. PythonRaise => pc' \in {"python", "print_exc", "deinit"}
    BY PythonRaiseFacts DEF PythonRaise, PythonPcs
  <1>4. NewBytes => pc' \in {"free_image", "python", "print_exc", "deinit"}
    BY PythonRaiseFacts DEF NewBytes, PythonPcs
  <1> QED
    BY <1>1, <1>2, <1>3, <1>4

(* The service table. *)
LEMMA TableStep ==
  ASSUME TypeOK, NlrBalanced, TableInv, [Next]_vars
  PROVE  TableInv'
  <1>1. CASE LookupService
    <2>1. idx \in 1..14
      BY <1>1, TableFacts DEF LookupService, TypeOK
    <2>2. CASE service' = service \cup {ServiceTable[idx]} /\ idx' = idx + 1
               /\ pc' = pc
      BY <1>1, <2>1, <2>2 DEF LookupService, TableInv
    <2>3. CASE pc' = OnMissing /\ service' = service /\ idx' = idx
      BY <1>1, <2>1, <2>3 DEF LookupService, OnMissing, TableInv
    <2> QED
      BY <1>1, <2>2, <2>3 DEF LookupService
  <1>2. CASE CallMain
    <2>1. idx = Len(ServiceTable) + 1
      BY <1>2, TableFacts DEF CallMain, TypeOK
    <2> QED
      BY <1>2, <2>1 DEF CallMain, TableInv, boot
  <1>3. CASE DebugAssert
    BY <1>3 DEF DebugAssert, TableInv, boot
  <1>4. CASE Main
    <2>1. pc \notin {"lookup", "assert", "hang"}
          /\ pc' \notin {"lookup", "assert", "hang"}
      BY <1>4, RaiseTargets
         DEF Main, AllocHeap, MpInit, DoStr, PrintException, Repl, MpDeinit,
             FreeHeap
    <2>2. UNCHANGED boot
      BY <1>4 DEF Main, AllocHeap, MpInit, DoStr, PrintException, Repl,
                  MpDeinit, FreeHeap
    <2> QED
      BY <2>1, <2>2 DEF TableInv, boot
  <1>5. CASE Python
    <2>1. pc \notin {"lookup", "assert", "hang"}
          /\ pc' \notin {"lookup", "assert", "hang"}
      BY <1>5, RaiseTargets
         DEF Python, EnterTry, LeaveTry, PythonRaise, PythonReturn, LoadFile,
             NewBytes, FreeImage, Reboot
    <2>2. UNCHANGED boot
      BY <1>5 DEF Python, EnterTry, LeaveTry, PythonRaise, PythonReturn,
                  LoadFile, NewBytes, FreeImage, Reboot
    <2> QED
      BY <2>1, <2>2 DEF TableInv, boot
  <1>6. CASE UNCHANGED vars
    BY <1>6 DEF TableInv, vars
  <1> QED
    BY <1>1, <1>2, <1>3, <1>4, <1>5, <1>6 DEF Next, Boot, Stopped

(* The interpreter and its heap. *)
LEMMA HeapStep ==
  ASSUME TypeOK, NlrBalanced, HeapInv, [Next]_vars
  PROVE  HeapInv'
  <1>1. CASE LookupService
    BY <1>1 DEF LookupService, OnMissing, HeapInv, PythonPcs, memory
  <1>2. CASE DebugAssert \/ CallMain
    BY <1>2 DEF DebugAssert, CallMain, HeapInv, PythonPcs, memory
  <1>3. CASE AllocHeap
    <2>1. CASE \E b \in FreeBlocks(SizeToPages(HeapSize)) :
                 heap' = b.first /\ mp' = "gc" /\ pc' = "mp_init"
      BY <2>1, SizeFacts, FreeBlockFacts DEF HeapInv, PythonPcs, NULL
    <2>2. CASE pc' = "wild" /\ heap' = heap /\ mp' = mp
      BY <1>3, <2>2 DEF AllocHeap, HeapInv, PythonPcs
    <2> QED
      BY <1>3, <2>1, <2>2 DEF AllocHeap
  <1>4. CASE MpInit \/ DoStr
    BY <1>4 DEF MpInit, DoStr, HeapInv, PythonPcs, memory
  <1>5. CASE PrintException \/ Repl
    BY <1>5, RaiseTargets DEF PrintException, Repl, HeapInv, PythonPcs, memory
  <1>6. CASE MpDeinit
    BY <1>6 DEF MpDeinit, HeapInv, PythonPcs, memory
  <1>11. CASE FreeHeap
    <2>1. mp = "down"
      BY <1>11 DEF FreeHeap, HeapInv, PythonPcs, TypeOK
    <2> QED
      BY <1>11, <2>1 DEF FreeHeap, HeapInv, PythonPcs
  <1>7. CASE EnterTry \/ LeaveTry \/ PythonReturn \/ Reboot
    BY <1>7 DEF EnterTry, LeaveTry, PythonReturn, Reboot, HeapInv, PythonPcs,
                memory
  <1>8. CASE PythonRaise \/ NewBytes
    BY <1>8, RaiseTargets DEF PythonRaise, NewBytes, HeapInv, PythonPcs, memory
  <1>9. CASE LoadFile \/ FreeImage
    BY <1>9 DEF LoadFile, FreeImage, HeapInv, PythonPcs
  <1>10. CASE UNCHANGED vars
    BY <1>10 DEF HeapInv, vars
  <1> QED
    BY <1>1, <1>2, <1>3, <1>4, <1>5, <1>6, <1>7, <1>8, <1>9, <1>10,
       <1>11
       DEF Next, Boot, Main, Python, Stopped

(* The file's pages. *)
LEMMA ImageStep ==
  ASSUME ImageInv, [Next]_vars
  PROVE  ImageInv'
  <1>1. CASE Boot
    BY <1>1 DEF Boot, LookupService, DebugAssert, CallMain, ImageInv, memory,
                file, NULL
  <1>2. CASE Main
    BY <1>2 DEF Main, AllocHeap, MpInit, DoStr, PrintException, Repl, MpDeinit,
                FreeHeap, ImageInv, memory, file, NULL
  <1>3. CASE EnterTry \/ LeaveTry \/ PythonReturn \/ Reboot \/ PythonRaise
    BY <1>3 DEF EnterTry, LeaveTry, PythonReturn, Reboot, PythonRaise,
                ImageInv, memory, file, NULL
  <1>4. CASE LoadFile
    BY <1>4, FileSizesAssumption DEF LoadFile, NotLoaded, ImageInv, NULL
  <1>5. CASE NewBytes \/ FreeImage
    BY <1>5 DEF NewBytes, FreeImage, ImageInv, NULL
  <1>6. CASE UNCHANGED vars
    BY <1>6 DEF ImageInv, vars
  <1> QED
    BY <1>1, <1>2, <1>3, <1>4, <1>5, <1>6 DEF Next, Python, Stopped

(* What the actions that touch memory change of the blocks held. *)
memoryVars == <<reserved, owned, heap, image, image_size, lost>>

LEMMA QuietSteps ==
  ASSUME \/ Boot
         \/ MpInit \/ DoStr \/ PrintException \/ Repl \/ MpDeinit
         \/ EnterTry \/ LeaveTry \/ PythonRaise \/ PythonReturn \/ Reboot
         \/ UNCHANGED vars
  PROVE  UNCHANGED memoryVars
  BY DEF Boot, LookupService, DebugAssert, CallMain, MpInit, DoStr,
         PrintException, Repl, MpDeinit, EnterTry, LeaveTry, PythonRaise,
         PythonReturn, Reboot, vars, boot, memory, file, memoryVars

LEMMA NewBlockFacts ==
  ASSUME Accounting, NEW p \in Nat \ {0}, NEW n \in Nat \ {0},
         PagesOf(Block(p, n)) \cap owned = {}
  PROVE  Block(p, n) \notin Held
  <1>1. p \in PagesOf(Block(p, n))
    BY DEF PagesOf, Block
  <1>2. Block(p, n) \in Held => PagesOf(Block(p, n)) \subseteq owned
    BY DEF Accounting, AllPages
  <1> QED
    BY <1>1, <1>2

(* Taking a block and giving it to the heap or to the file. *)
LEMMA TakeStep ==
  ASSUME Accounting, NEW p \in Nat \ {0}, NEW n \in Nat \ {0},
         PagesOf(Block(p, n)) \cap owned = {},
         owned' = owned \cup PagesOf(Block(p, n)),
         reserved' = reserved, lost' = lost,
         \/ /\ HeapBlock = {} /\ HeapBlock' = {Block(p, n)}
            /\ ImageBlock' = ImageBlock
         \/ /\ ImageBlock = {} /\ ImageBlock' = {Block(p, n)}
            /\ HeapBlock' = HeapBlock
  PROVE  Accounting'
  <1> DEFINE b == Block(p, n)
  <1>1. b \notin Held
    BY NewBlockFacts
  <1>2. Held' = Held \cup {b}
    BY DEF Held
  <1>3. /\ owned \cup PagesOf(b) = reserved \cup AllPages(Held \cup {b})
        /\ AllPages(Held \cup {b}) \cap reserved = {}
        /\ PairwiseDisjoint(Held \cup {b})
    <2>1. /\ owned = reserved \cup AllPages(Held)
          /\ AllPages(Held) \cap reserved = {}
          /\ PairwiseDisjoint(Held)
          /\ PagesOf(b) \cap owned = {}
      BY DEF Accounting
    <2> HIDE DEF b
    <2>2. PagesOf(b) \cap AllPages(Held) = {}
      BY <2>1
    <2>3. PairwiseDisjoint(Held \cup {b})
      BY <2>1, <2>2, DisjointAdd
    <2>4. AllPages(Held \cup {b}) = AllPages(Held) \cup PagesOf(b)
      BY AllPagesAdd
    <2>5. PagesOf(b) \cap reserved = {}
      BY <2>1
    <2> QED
      BY <2>1, <2>3, <2>4, <2>5
  <1> HIDE DEF b
  <1>4. /\ HeapBlock' \cap ImageBlock' = {}
        /\ (HeapBlock' \cup ImageBlock') \cap lost' = {}
    BY <1>1 DEF Accounting, Held, b
  <1>5. /\ owned' = reserved' \cup AllPages(Held')
        /\ AllPages(Held') \cap reserved' = {}
        /\ PairwiseDisjoint(Held')
    BY <1>2, <1>3 DEF b
  <1> QED
    BY <1>4, <1>5 DEF Accounting

(* Returning the heap's or the file's block. *)
LEMMA ReturnStep ==
  ASSUME Accounting, NEW b,
         owned' = owned \ PagesOf(b),
         reserved' = reserved, lost' = lost,
         \/ /\ HeapBlock = {b} /\ HeapBlock' = {}
            /\ ImageBlock' = ImageBlock
         \/ /\ ImageBlock = {b} /\ ImageBlock' = {}
            /\ HeapBlock' = HeapBlock
  PROVE  Accounting'
  <1>1. b \in Held
    BY DEF Held
  <1>2. Held' = Held \ {b}
    BY DEF Held, Accounting
  <1>3. /\ owned \ PagesOf(b) = reserved \cup AllPages(Held \ {b})
        /\ AllPages(Held \ {b}) \cap reserved = {}
        /\ PairwiseDisjoint(Held \ {b})
    <2>1. /\ owned = reserved \cup AllPages(Held)
          /\ AllPages(Held) \cap reserved = {}
          /\ PairwiseDisjoint(Held)
      BY DEF Accounting
    <2>2. /\ AllPages(Held \ {b}) = AllPages(Held) \ PagesOf(b)
          /\ PagesOf(b) \subseteq AllPages(Held)
          /\ PairwiseDisjoint(Held \ {b})
      BY <1>1, <2>1, AllPagesRemove
    <2> QED
      BY <2>1, <2>2
  <1>4. /\ HeapBlock' \cap ImageBlock' = {}
        /\ (HeapBlock' \cup ImageBlock') \cap lost' = {}
    BY DEF Accounting
  <1>5. /\ owned' = reserved' \cup AllPages(Held')
        /\ AllPages(Held') \cap reserved' = {}
        /\ PairwiseDisjoint(Held')
    BY <1>2, <1>3
  <1> QED
    BY <1>4, <1>5 DEF Accounting

(* The loader's pages. *)
LEMMA AccountStep ==
  ASSUME IInv, [Next]_vars
  PROVE  Accounting'
  <1> USE DEF IInv
  <1>1. CASE UNCHANGED memoryVars
    BY <1>1 DEF memoryVars, Accounting, Held, HeapBlock, ImageBlock
  <1>2. CASE AllocHeap
    <2> DEFINE n == SizeToPages(HeapSize)
    <2>1. heap = NULL /\ image = NULL /\ UNCHANGED <<reserved, image, image_size, lost>>
      BY <1>2 DEF AllocHeap, HeapInv, ImageInv, TypeOK, PythonPcs, boot, file
    <2>2. ImageBlock' = ImageBlock /\ HeapBlock = {}
      BY <2>1 DEF HeapBlock, ImageBlock, BlockAt
    <2>3. CASE heap' = heap /\ owned' = owned
      BY <1>1, <2>1, <2>3 DEF memoryVars
    <2>4. CASE \E b \in FreeBlocks(n) :
                 heap' = b.first /\ owned' = owned \cup PagesOf(b)
      <3>1. PICK b \in FreeBlocks(n) :
              heap' = b.first /\ owned' = owned \cup PagesOf(b)
        BY <2>4
      <3>2. n \in Nat \ {0}
        BY SizeFacts
      <3>3. b = Block(heap', n) /\ heap' \in Nat \ {0} /\ PagesOf(b) \cap owned = {}
        BY <3>1, <3>2, FreeBlockFacts, MaxPagesAssumption
      <3>4. HeapBlock' = {Block(heap', n)}
        BY <3>3 DEF HeapBlock, BlockAt, NULL
      <3> QED
        BY <2>1, <2>2, <3>1, <3>2, <3>3, <3>4, TakeStep
    <2> QED
      BY <1>2, <2>3, <2>4 DEF AllocHeap
  <1>3. CASE FreeHeap
    <2> DEFINE b == Block(heap, SizeToPages(HeapSize))
    <2>1. heap # NULL /\ UNCHANGED <<reserved, image, image_size, lost>>
      BY <1>3 DEF FreeHeap, HeapInv, boot, file
    <2>2. heap' = NULL /\ owned' = owned \ PagesOf(b)
      BY <1>3 DEF FreeHeap, FreePages
    <2>3. HeapBlock = {b} /\ HeapBlock' = {} /\ ImageBlock' = ImageBlock
      BY <2>1, <2>2 DEF HeapBlock, ImageBlock, BlockAt
    <2> QED
      BY <2>1, <2>2, <2>3, ReturnStep
  <1>4. CASE LoadFile
    <2>1. image = NULL /\ UNCHANGED <<reserved, heap, lost>>
      BY <1>4 DEF LoadFile, ImageInv, boot
    <2>2. HeapBlock' = HeapBlock /\ ImageBlock = {}
      BY <2>1 DEF HeapBlock, ImageBlock, BlockAt
    <2>3. CASE NotLoaded
      <3>1. ImageBlock' = ImageBlock /\ owned' = owned
        BY <2>2, <2>3 DEF NotLoaded, ImageBlock, BlockAt
      <3> QED
        BY <2>1, <2>2, <3>1 DEF Accounting, Held
    <2>4. CASE \E size \in FileSizes : \E b \in FreeBlocks(FilePages(size)) :
                 /\ image' = b.first /\ image_size' = size
                 /\ owned' = owned \cup PagesOf(b)
      <3>0. PICK size \in FileSizes : \E b \in FreeBlocks(FilePages(size)) :
                 /\ image' = b.first /\ image_size' = size
                 /\ owned' = owned \cup PagesOf(b)
        BY <2>4
      <3>1. PICK b \in FreeBlocks(FilePages(size)) :
                 /\ image' = b.first /\ image_size' = size
                 /\ owned' = owned \cup PagesOf(b)
        BY <3>0
      <3> DEFINE n == FilePages(size)
      <3>2. n \in Nat \ {0}
        BY SizeFacts
      <3>3. b = Block(image', n) /\ image' \in Nat \ {0} /\ PagesOf(b) \cap owned = {}
        BY <3>1, <3>2, FreeBlockFacts, MaxPagesAssumption
      <3>4. ImageBlock' = {Block(image', n)}
        BY <3>1, <3>3 DEF ImageBlock, BlockAt, NULL, FilePages
      <3> QED
        BY <2>1, <2>2, <3>1, <3>2, <3>3, <3>4, TakeStep
    <2> QED
      BY <1>4, <2>3, <2>4 DEF LoadFile
  <1>5. CASE NewBytes
    <2>1. CASE UNCHANGED <<image, image_size, lost>>
      BY <1>1, <1>5, <2>1 DEF NewBytes, boot, memoryVars
    <2>2. CASE lost' = lost \cup ImageBlock /\ image' = NULL
      <3>1. HeapBlock' = HeapBlock /\ ImageBlock' = {}
        BY <1>5, <2>2 DEF NewBytes, HeapBlock, ImageBlock, BlockAt
      <3>2. Held' = Held
        BY <2>2, <3>1 DEF Held
      <3>3. UNCHANGED <<reserved, owned>>
        BY <1>5 DEF NewBytes, boot
      <3>4. (HeapBlock' \cup ImageBlock') \cap lost' = {}
        BY <2>2, <3>1 DEF Accounting
      <3> QED
        BY <3>1, <3>2, <3>3, <3>4 DEF Accounting
    <2> QED
      BY <1>5, <2>1, <2>2 DEF NewBytes, ImageBlock
  <1>6. CASE FreeImage
    <2>1. image' = NULL /\ UNCHANGED <<reserved, heap, lost>>
      BY <1>6 DEF FreeImage, boot
    <2>2. ImageBlock' = {} /\ HeapBlock' = HeapBlock
      BY <2>1 DEF HeapBlock, ImageBlock, BlockAt
    <2>3. CASE image = NULL
      <3>1. ImageBlock = {} /\ owned' = owned
        BY <1>6, <2>3 DEF FreeImage, ImageBlock, BlockAt
      <3> QED
        BY <2>1, <2>2, <3>1 DEF Accounting, Held
    <2>4. CASE image # NULL
      <3> DEFINE b == Block(image, FilePages(image_size))
      <3>1. image_size \in FileSizes
        BY <2>4 DEF ImageInv, TypeOK
      <3>2. owned' = owned \ PagesOf(b)
        BY <1>6, <2>4, <3>1, SizeFacts DEF FreeImage, FreePages
      <3>3. ImageBlock = {b}
        BY <2>4 DEF ImageBlock, BlockAt
      <3> QED
        BY <2>1, <2>2, <3>2, <3>3, ReturnStep
    <2> QED
      BY <2>3, <2>4
  <1> QED
    BY <1>1, <1>2, <1>3, <1>4, <1>5, <1>6, QuietSteps
       DEF Next, Main, Python, Stopped

(* The types. *)
LEMMA TypeStep ==
  ASSUME IInv, [Next]_vars
  PROVE  TypeOK'
  <1> USE DEF IInv
  <1> DEFINE Blocks == [first : 1..MaxPages, count : Nat \ {0}]
  <1>1. nlr' \in Seq({"do_str", "pyexec", "try"})
    BY NlrStep
  <1>2. pc' \in BootPcs \cup MainPcs \cup PythonPcs \cup StoppedPcs
        /\ mp' \in {"down", "gc", "up"}
    BY RaiseTargets
       DEF TypeOK, Next, Boot, LookupService, OnMissing, DebugAssert, CallMain,
           Main, AllocHeap, MpInit, DoStr, PrintException, Repl, MpDeinit,
           FreeHeap, Python, EnterTry, LeaveTry, PythonRaise, PythonReturn,
           LoadFile, NewBytes, FreeImage, Reboot, Stopped, vars,
           BootPcs, MainPcs, PythonPcs, StoppedPcs
  <1>3. /\ idx' \in 1 .. (Len(ServiceTable) + 1)
        /\ exports' \subseteq ServiceNames /\ service' \subseteq ServiceNames
        /\ reserved' \subseteq 1..MaxPages
    <2>1. CASE LookupService
      <3>1. idx \in 1..14
        BY <2>1, TableFacts DEF LookupService, TypeOK
      <3>2. ServiceTable[idx] \in ServiceNames /\ idx' \in 1..15
        BY <2>1, <3>1, TableFacts DEF LookupService
      <3>3. service' \subseteq service \cup {ServiceTable[idx]}
        BY <2>1 DEF LookupService
      <3>4. exports' = exports /\ reserved' = reserved
        BY <2>1 DEF LookupService
      <3>5. Len(ServiceTable) + 1 = 15
        BY TableFacts
      <3> QED
        BY <3>2, <3>3, <3>4, <3>5 DEF TypeOK
    <2>2. CASE UNCHANGED boot
      BY <2>2 DEF boot, TypeOK
    <2> QED
      BY <2>1, <2>2
         DEF Next, Boot, DebugAssert, CallMain, Main, AllocHeap, MpInit, DoStr,
             PrintException, Repl, MpDeinit, FreeHeap, Python, EnterTry,
             LeaveTry, PythonRaise, PythonReturn, LoadFile, NewBytes,
             FreeImage, Reboot, Stopped, vars, boot
  <1>4. /\ owned' \subseteq 1..MaxPages
        /\ heap' \in 0..MaxPages /\ image' \in 0..MaxPages
        /\ image_size' \in FileSizes \cup {0}
        /\ lost' \subseteq Blocks
    <2>0. /\ owned \subseteq 1..MaxPages
          /\ heap \in 0..MaxPages /\ image \in 0..MaxPages
          /\ image_size \in FileSizes \cup {0}
          /\ lost \subseteq Blocks
          /\ NULL \in 0..MaxPages
      BY MaxPagesAssumption DEF TypeOK, NULL
    <2> HIDE DEF IInv, Blocks
    <2>1. CASE UNCHANGED memoryVars
      BY <2>0, <2>1 DEF memoryVars
    <2>2. CASE AllocHeap
      <3>1. \/ heap' = heap /\ owned' = owned
            \/ \E b \in FreeBlocks(SizeToPages(HeapSize)) :
                 heap' = b.first /\ owned' = owned \cup PagesOf(b)
        BY <2>2 DEF AllocHeap
      <3>2. heap' \in 0..MaxPages /\ owned' \subseteq 1..MaxPages
        BY <2>0, <3>1, SizeFacts, FreeBlockTypes DEF IInv
      <3>3. UNCHANGED <<image, image_size, lost>>
        BY <2>2 DEF AllocHeap, file
      <3> QED
        BY <2>0, <3>2, <3>3
    <2>3. CASE FreeHeap
      <3>1. heap' = NULL /\ owned' \subseteq owned
            /\ UNCHANGED <<image, image_size, lost>>
        BY <2>3 DEF FreeHeap, FreePages, file
      <3> QED
        BY <2>0, <3>1
    <2>4. CASE LoadFile
      <3>1. UNCHANGED <<heap, lost>>
        BY <2>4 DEF LoadFile
      <3>2. CASE NotLoaded
        BY <2>0, <3>1, <3>2 DEF NotLoaded
      <3>3. CASE \E size \in FileSizes : \E b \in FreeBlocks(FilePages(size)) :
                 /\ image' = b.first /\ image_size' = size
                 /\ owned' = owned \cup PagesOf(b)
        <4>1. owned' \subseteq 1..MaxPages /\ image' \in 0..MaxPages
          BY <2>0, <3>3, SizeFacts, FreeBlockTypes DEF IInv
        <4>2. image_size' \in FileSizes
          BY <3>3
        <4> QED
          BY <2>0, <3>1, <4>1, <4>2
      <3> QED
        BY <2>4, <3>2, <3>3 DEF LoadFile
    <2>5. CASE NewBytes
      <3>1. BlockAt(image, FilePages(image_size)) \subseteq Blocks
        <4>1. CASE image # NULL
          <5>1. image_size \in FileSizes /\ image \in 1..MaxPages
            BY <2>0, <4>1, MaxPagesAssumption DEF IInv, ImageInv, NULL
          <5> QED
            BY <5>1, SizeFacts DEF BlockAt, Block, Blocks
        <4> QED
          BY <4>1 DEF BlockAt
      <3>2. /\ UNCHANGED <<heap, owned>>
            /\ image' \in {image, NULL} /\ image_size' \in {image_size, 0}
            /\ lost' \subseteq lost \cup BlockAt(image, FilePages(image_size))
        BY <2>5 DEF NewBytes
      <3> QED
        BY <2>0, <3>1, <3>2
    <2>6. CASE FreeImage
      <3>1. /\ UNCHANGED <<heap, lost>> /\ owned' \subseteq owned
            /\ image' = NULL /\ image_size' = 0
        BY <2>6 DEF FreeImage, FreePages
      <3> QED
        BY <2>0, <3>1
    <2> QED
      BY <2>1, <2>2, <2>3, <2>4, <2>5, <2>6, QuietSteps
         DEF Next, Main, Python, Stopped
  <1> QED
    BY <1>1, <1>2, <1>3, <1>4 DEF TypeOK

-----------------------------------------------------------------------------
(* Theorems *)

LEMMA InitIInv == Init => IInv
  <1> SUFFICES ASSUME Init PROVE IInv
    OBVIOUS
  <1> USE DEF Init
  <1>1. TypeOK
    BY ReservedAssumption, MaxPagesAssumption, TableFacts, EmptySeq
       DEF TypeOK, BootPcs, NULL
  <1>2. TableInv /\ HeapInv /\ ImageInv /\ NlrBalanced
    BY DEF TableInv, HeapInv, ImageInv, NlrBalanced, PythonPcs
  <1>3. Held = {}
    BY DEF Held, HeapBlock, ImageBlock, BlockAt
  <1>4. Accounting
    BY <1>3 DEF Accounting, Held, AllPages, PairwiseDisjoint
  <1> QED
    BY <1>1, <1>2, <1>4 DEF IInv

LEMMA StepIInv == IInv /\ [Next]_vars => IInv'
  <1> SUFFICES ASSUME IInv, [Next]_vars PROVE IInv'
    OBVIOUS
  <1>1. TypeOK /\ TableInv /\ HeapInv /\ ImageInv /\ NlrBalanced
    BY DEF IInv
  <1>2. TypeOK' /\ Accounting'
    BY TypeStep, AccountStep
  <1>3. TableInv' /\ HeapInv' /\ ImageInv' /\ NlrBalanced'
    BY <1>1, TableStep, HeapStep, ImageStep, NlrStep
  <1> QED
    BY <1>2, <1>3 DEF IInv

(* The inductive invariant behind the others: how the service table, the   *)
(* heap, a file in flight, the nlr chain and the loader's pages depend on  *)
(* where the thread is.                                                    *)
THEOREM Inductive == Spec => []IInv
  BY InitIInv, StepIInv, PTL DEF Spec

(* Every variable keeps its type. *)
THEOREM TypeCorrect == Spec => []TypeOK
  BY Inductive, PTL DEF IInv

(* SecStartup, debug_assert, main and the pyb module never call through a  *)
(* NULL pointer of the service table.                                      *)
THEOREM NeverNullCall == Spec => []NoNullCall
  <1>1. IInv => NoNullCall
    <2> SUFFICES ASSUME IInv PROVE NoNullCall
      OBVIOUS
    <2>1. TableInv /\ idx \in 1..15
      BY TableFacts DEF IInv, TypeOK
    <2>2. CASE pc = "assert"
      <3>1. 1 \in 1 .. (idx - 1)
        BY <2>1, <2>2 DEF TableInv
      <3>2. "DebugPrint" \in service
        BY <2>1, <3>1, TableFacts DEF TableInv
      <3> QED
        BY <2>2, <3>2 DEF NoNullCall, Calls
    <2>3. CASE pc \in {"lookup", "hang"}
      BY <2>3 DEF NoNullCall, Calls
    <2>4. CASE pc \notin {"lookup", "assert", "hang"}
      <3>1. \A i \in 1..14 : ServiceTable[i] \in service
        BY <2>1, <2>4, TableFacts DEF TableInv
      <3>2. DOMAIN ServiceTable = 1..14
        BY DEF ServiceTable
      <3>3. ServiceNames \subseteq service
        BY <3>1, <3>2 DEF ServiceNames
      <3>4. {"DebugPrint", "AllocatePages", "ConsoleRead", "ConsoleWrite",
             "FreePages"} \subseteq ServiceNames
        <4>1. /\ ServiceTable[1] = "DebugPrint" /\ ServiceTable[4] = "ConsoleRead"
              /\ ServiceTable[5] = "ConsoleWrite"
              /\ ServiceTable[7] = "AllocatePages" /\ ServiceTable[8] = "FreePages"
          BY DEF ServiceTable
        <4> QED
          BY <4>1, TableFacts
      <3> QED
        BY <3>3, <3>4 DEF NoNullCall, Calls
    <2> QED
      BY <2>2, <2>3, <2>4
  <1> QED
    BY <1>1, Inductive, PTL

(* The loader's view of its pages and the payload's agree in every state.  *)
THEOREM AccountsAgree == Spec => []Accounting
  BY Inductive, PTL DEF IInv

(* The Python heap is loader memory, not yet returned, for as long as the  *)
(* interpreter is up.                                                      *)
THEOREM HeapAlwaysBacked == Spec => []HeapBacked
  <1>1. IInv => HeapBacked
    <2> SUFFICES ASSUME IInv PROVE HeapBacked
      OBVIOUS
    <2>1. mp # "down" => heap # NULL
      BY DEF IInv, HeapInv
    <2>2. heap # NULL =>
            PagesOf(Block(heap, SizeToPages(HeapSize))) \subseteq owned
      BY DEF IInv, Accounting, Held, HeapBlock, BlockAt, AllPages
    <2>3. pc \in PythonPcs \cup {"do_str", "print_exc", "repl"} => mp = "up"
      BY DEF IInv, HeapInv
    <2> QED
      BY <2>1, <2>2, <2>3 DEF HeapBacked
  <1> QED
    BY <1>1, Inductive, PTL

(* No nlr buffer outlives its frame, and Python code always has a handler. *)
THEOREM NlrAlwaysBalanced == Spec => []NlrBalanced
  BY Inductive, PTL DEF IInv

(* The pages out of reach are those of the lost blocks: every other block  *)
(* has its pointer, and shares no page with them.                          *)
LEMMA StrayIsLost == IInv => Stray = AllPages(lost)
  <1> SUFFICES ASSUME IInv PROVE Stray = AllPages(lost)
    OBVIOUS
  <1> DEFINE reached == HeapBlock \cup ImageBlock
  <1>1. owned = reserved \cup AllPages(reached) \cup AllPages(lost)
    BY DEF IInv, Accounting, Held, AllPages
  <1>2. AllPages(lost) \cap reserved = {}
    BY DEF IInv, Accounting, Held, AllPages
  <1>3. ASSUME NEW b \in reached, NEW c \in lost
        PROVE  PagesOf(b) \cap PagesOf(c) = {}
    <2>1. b \in Held /\ c \in Held /\ b # c
      BY <1>3 DEF IInv, Accounting, Held
    <2> QED
      BY <2>1 DEF IInv, Accounting, PairwiseDisjoint
  <1>4. AllPages(reached) \cap AllPages(lost) = {}
    BY <1>3 DEF AllPages
  <1> QED
    BY <1>1, <1>2, <1>4 DEF Stray

(* A page is lost to the payload only by an exception that leaves          *)
(* load_file, with the file's other pages.                                 *)
THEOREM LostByLoadFile == Spec => OnlyLoadFileLosesPages
  <1> DEFINE A == Stray' # Stray =>
                    /\ pc = "new_bytes" /\ pc' # "free_image"
                    /\ Stray' = Stray \cup AllPages(ImageBlock)
           B == Stray = AllPages(lost)
  <1>1. B /\ B' /\ [Next]_vars => [A]_vars
    <2> SUFFICES ASSUME B, B', Next PROVE A
      OBVIOUS
    <2>1. Stray = AllPages(lost) /\ Stray' = AllPages(lost')
      BY DEF AllPages, PagesOf
    <2>2. CASE NewBytes /\ lost' # lost
      <3>1. Raise("MemoryError") /\ lost' = lost \cup ImageBlock
        BY <2>2 DEF NewBytes, ImageBlock
      <3>2. pc' # "free_image"
        BY <3>1 DEF Raise, AfterCatch
      <3>3. AllPages(lost') = AllPages(lost) \cup AllPages(ImageBlock)
        BY <3>1 DEF AllPages
      <3> QED
        BY <2>1, <2>2, <3>2, <3>3 DEF NewBytes
    <2>3. CASE lost' = lost
      BY <2>1, <2>3
    <2>4. CASE ~NewBytes
      <3>1. lost' = lost
        BY <2>4 DEF Next, Boot, Main, Python, LookupService, DebugAssert, CallMain,
               AllocHeap, MpInit, DoStr, PrintException, Repl, MpDeinit, FreeHeap,
               EnterTry, LeaveTry, PythonRaise, PythonReturn, LoadFile, FreeImage,
               Reboot, Stopped, vars, memory, file
      <3> QED
        BY <2>1, <3>1
    <2> QED
      BY <2>2, <2>3, <2>4
  <1>2. IInv => B
    BY StrayIsLost
  <1> QED
    BY <1>1, <1>2, Inductive, PTL DEF Spec, OnlyLoadFileLosesPages

(* The start script never ends the payload. *)
THEOREM OnlyReplDeinits == Spec => DeinitOnlyByRepl
  <1> DEFINE A == pc # "deinit" /\ pc' = "deinit" =>
                    pc = "repl" \/ (nlr # <<>> /\ nlr[1] = "pyexec")
  <1>1. IInv /\ [Next]_vars => [A]_vars
    <2> SUFFICES ASSUME IInv, Next, pc # "deinit", pc' = "deinit", pc # "repl"
                 PROVE  nlr # <<>> /\ nlr[1] = "pyexec"
      OBVIOUS
    <2>1. \E exc : Raise(exc)
      BY DEF Next, Boot, LookupService, OnMissing, DebugAssert, CallMain, Main,
             AllocHeap, MpInit, DoStr, PrintException, Repl, MpDeinit,
             FreeHeap, Python, EnterTry, LeaveTry, PythonRaise, PythonReturn,
             LoadFile, NewBytes, FreeImage, Reboot, Stopped, vars
    <2>2. nlr # <<>> /\ nlr[Len(nlr)] = "pyexec"
      BY <2>1 DEF Raise, AfterCatch
    <2>3. /\ \A i \in 2..Len(nlr) : nlr[i] = "try"
          /\ nlr \in Seq({"do_str", "pyexec", "try"})
      BY <2>2 DEF IInv, NlrBalanced, TypeOK, PythonPcs,
                  Next, Boot, LookupService, DebugAssert, CallMain, Main,
                  AllocHeap, MpInit, DoStr, PrintException, Repl, MpDeinit,
                  FreeHeap, Python, EnterTry, LeaveTry, PythonRaise,
                  PythonReturn, LoadFile, NewBytes, FreeImage, Reboot, Stopped,
                  vars
    <2>4. Len(nlr) \in Nat \ {0}
      BY <2>2, <2>3, EmptySeq
    <2>5. Len(nlr) = 1
      BY <2>2, <2>3, <2>4
    <2> QED
      BY <2>2, <2>5
  <1>2. Spec => [][A]_vars
    BY <1>1, Inductive, PTL DEF Spec
  <1> QED
    BY <1>2 DEF DeinitOnlyByRepl

-----------------------------------------------------------------------------
(* The way to the first prompt *)

LEMMA StepsAheadFacts ==
  ASSUME NEW at, NEW entry \in 1..15, NEW chain
  PROVE  /\ StepsAhead("lookup", entry, chain) = 22 - entry
         /\ StepsAhead("alloc_heap", entry, chain) = 6
         /\ StepsAhead("mp_init", entry, chain) = 5
         /\ StepsAhead("do_str", entry, chain) = 4
         /\ at \in PythonPcs => StepsAhead(at, entry, chain)
                                 = IF chain[1] = "do_str" THEN 3 ELSE 0
         /\ StepsAhead("print_exc", entry, chain) = 2
         /\ StepsAhead("assert", entry, chain) = 1
         /\ at \in {"repl", "deinit", "free_heap"} \cup StoppedPcs =>
              StepsAhead(at, entry, chain) = 0
  BY TableFacts DEF StepsAhead, PythonPcs, StoppedPcs

(* Python code stays under its first buffer, or leaves for a place that    *)
(* depends on it.                                                          *)
LEMMA PythonGoesOn ==
  ASSUME TypeOK, NlrBalanced, pc \in PythonPcs, Next
  PROVE  /\ \/ pc' \in PythonPcs /\ nlr'[1] = nlr[1]
            \/ pc' \in {"print_exc", "repl", "reset"}
            \/ pc' = "deinit" /\ nlr[1] = "pyexec"
         /\ idx' = idx
  <1>1. /\ nlr \in Seq({"do_str", "pyexec", "try"}) /\ nlr # <<>>
        /\ nlr[1] \in {"do_str", "pyexec"}
        /\ \A i \in 2..Len(nlr) : nlr[i] = "try"
    BY DEF TypeOK, NlrBalanced
  <1>2. Len(nlr) \in Nat \ {0}
    BY <1>1, EmptySeq
  <1>3. Python /\ idx' = idx
    BY DEF Next, Boot, LookupService, DebugAssert, CallMain, Main, AllocHeap,
           MpInit, DoStr, PrintException, Repl, MpDeinit, FreeHeap, Python,
           EnterTry, LeaveTry, PythonRaise, PythonReturn, LoadFile, NewBytes,
           FreeImage, Reboot, Stopped, PythonPcs, StoppedPcs, boot
  <1>4. ASSUME NEW exc, Raise(exc)
        PROVE  \/ pc' = "python" /\ nlr'[1] = nlr[1]
               \/ pc' = "print_exc"
               \/ pc' = "deinit" /\ nlr[1] = "pyexec"
    <2>1. pc' = AfterCatch(nlr[Len(nlr)], exc)
      BY <1>1, <1>4 DEF Raise
    <2>2. pc' = "deinit" => nlr[Len(nlr)] = "pyexec"
      BY <2>1 DEF AfterCatch
    <2>3. nlr[Len(nlr)] = "pyexec" => nlr[1] = "pyexec"
      <3>0. \A m \in Nat \ {0} : m = 1 \/ m \in 2..m
        OBVIOUS
      <3>1. Len(nlr) = 1 \/ Len(nlr) \in 2..Len(nlr)
        BY <1>2, <3>0
      <3> QED
        BY <1>1, <3>1
    <2>4. \/ pc' = "python" /\ nlr'[1] = nlr[1]
          \/ pc' \in {"print_exc", "deinit"}
      BY <1>4, PythonRaiseFacts
    <2> QED
      BY <2>2, <2>3, <2>4
  <1>5. CASE EnterTry
    BY <1>1, <1>2, <1>3, <1>5 DEF EnterTry, PythonPcs
  <1>6. CASE LeaveTry
    <2> DEFINE pop == SubSeq(nlr, 1, Len(nlr) - 1)
    <2>1. Len(nlr) > 1 /\ nlr' = pop /\ pc' = pc
      BY <1>6 DEF LeaveTry
    <2>2. \A i \in 1 .. (Len(nlr) - 1) : pop[i] = nlr[i]
      BY <1>1, PopFacts
    <2> HIDE DEF pop
    <2>3. nlr'[1] = nlr[1]
      BY <1>2, <2>1, <2>2
    <2> QED
      BY <1>3, <2>1, <2>3
  <1>7. CASE PythonRaise \/ NewBytes
    <2>1. \/ \E exc : Raise(exc)
          \/ pc' = "free_image" /\ nlr' = nlr
      BY <1>7 DEF PythonRaise, NewBytes
    <2> QED
      BY <1>3, <1>4, <2>1 DEF PythonPcs
  <1>8. CASE PythonReturn \/ LoadFile \/ FreeImage \/ Reboot
    BY <1>3, <1>8 DEF PythonReturn, LoadFile, FreeImage, Reboot, PythonPcs
  <1> QED
    BY <1>3, <1>5, <1>6, <1>7, <1>8 DEF Python

(* Until the first prompt every step but one of Python code comes closer   *)
(* to it, or to a stop: what an exception, a missing service or memory     *)
(* that has run out changes is only which of the two it is                 *)
(* (MicroPython.c:53-69, main.c:59-92).  So PromptOrStop is a matter of    *)
(* steps being taken at all.                                               *)
THEOREM AlwaysForward == Spec => TowardsPrompt
  <1> DEFINE A == ToPrompt > 0 =>
       /\ ToPrompt' < ToPrompt \/ (pc \in PythonPcs /\ ToPrompt' = ToPrompt)
       /\ ToPrompt' = 0 => pc' \in {"repl"} \cup StoppedPcs
  <1>1. IInv /\ [Next]_vars => [A]_vars
    <2> SUFFICES ASSUME IInv, Next, IInv', ToPrompt > 0
                 PROVE  A
      BY StepIInv DEF vars
    <2>0. TypeOK /\ TypeOK' /\ NlrBalanced
      BY DEF IInv
    <2>1. /\ TypeOK /\ TypeOK' /\ NlrBalanced /\ idx \in 1..15 /\ idx' \in 1..15
          /\ pc \in BootPcs \cup MainPcs \cup PythonPcs \cup StoppedPcs
      <3>1. /\ idx \in 1 .. (Len(ServiceTable) + 1)
            /\ idx' \in 1 .. (Len(ServiceTable) + 1)
            /\ pc \in BootPcs \cup MainPcs \cup PythonPcs \cup StoppedPcs
        BY <2>0 DEF TypeOK
      <3>2. Len(ServiceTable) = 14
        BY TableFacts
      <3> QED
        BY <2>0, <3>1, <3>2
    <2>2. /\ ToPrompt = StepsAhead(pc, idx, nlr)
          /\ ToPrompt' = StepsAhead(pc', idx', nlr')
      BY DEF ToPrompt
    <2>3. CASE pc = "lookup"
      <3>1. \/ pc' = "lookup" /\ idx' = idx + 1
            \/ pc' \in {"assert", "hang", "alloc_heap"} /\ idx' = idx
        BY <2>3 DEF Next, Boot, LookupService, OnMissing, DebugAssert, CallMain,
           Main, AllocHeap, MpInit, DoStr, PrintException, Repl, MpDeinit,
           FreeHeap, Python, EnterTry, LeaveTry, PythonRaise, PythonReturn,
           LoadFile, NewBytes, FreeImage, Reboot, Stopped, StoppedPcs, boot
      <3> QED
        BY <2>1, <2>2, <2>3, <3>1, StepsAheadFacts DEF StoppedPcs
    <2>4. CASE pc = "assert"
      <3>1. pc' = "hang"
        BY <2>4 DEF Next, Boot, LookupService, DebugAssert, CallMain,
           Main, AllocHeap, MpInit, DoStr, PrintException, Repl, MpDeinit,
           FreeHeap, Python, EnterTry, LeaveTry, PythonRaise, PythonReturn,
           LoadFile, NewBytes, FreeImage, Reboot, Stopped, StoppedPcs
      <3> QED
        BY <2>1, <2>2, <2>4, <3>1, StepsAheadFacts DEF StoppedPcs
    <2>5. CASE pc \in {"alloc_heap", "mp_init", "do_str"}
      <3>1. \/ pc = "alloc_heap" /\ pc' \in {"mp_init", "wild"}
            \/ pc = "mp_init" /\ pc' = "do_str"
            \/ pc = "do_str" /\ pc' = "python"
        BY <2>5 DEF Next, Boot, LookupService, DebugAssert, CallMain,
           Main, AllocHeap, MpInit, DoStr, PrintException, Repl, MpDeinit,
           FreeHeap, Python, EnterTry, LeaveTry, PythonRaise, PythonReturn,
           LoadFile, NewBytes, FreeImage, Reboot, Stopped, StoppedPcs
      <3>2. pc = "do_str" => nlr'[1] = "do_str"
        <4>1. pc = "do_str" => nlr' = Append(nlr, "do_str") /\ nlr = <<>>
          BY <2>1 DEF NlrBalanced, PythonPcs,
             Next, Boot, LookupService, DebugAssert, CallMain,
             Main, AllocHeap, MpInit, DoStr, PrintException, Repl, MpDeinit,
             FreeHeap, Python, EnterTry, LeaveTry, PythonRaise, PythonReturn,
             LoadFile, NewBytes, FreeImage, Reboot, Stopped, StoppedPcs
        <4> QED
          BY <4>1
      <3>3. "python" \in PythonPcs
        BY DEF PythonPcs
      <3> QED
        BY <2>1, <2>2, <3>1, <3>2, <3>3, StepsAheadFacts DEF StoppedPcs
    <2>6. CASE pc = "print_exc"
      <3>1. PrintException
        BY <2>6 DEF Next, Boot, LookupService, DebugAssert, CallMain,
           Main, AllocHeap, MpInit, DoStr, Repl, MpDeinit,
           FreeHeap, Python, EnterTry, LeaveTry, PythonRaise, PythonReturn,
           LoadFile, NewBytes, FreeImage, Reboot, Stopped, StoppedPcs
      <3>2. pc' \in {"repl", "fatal"}
        BY <2>1, <3>1, RaiseTargets
      <3> QED
        BY <2>1, <2>2, <2>6, <3>2, StepsAheadFacts DEF StoppedPcs
    <2>7. CASE pc \in PythonPcs
      <3>1. nlr[1] = "do_str" /\ ToPrompt = 3
        BY <2>1, <2>2, <2>7, StepsAheadFacts
      <3>2. \/ pc' \in PythonPcs /\ nlr'[1] = "do_str"
            \/ pc' \in {"print_exc", "repl", "reset"}
        BY <2>1, <2>7, <3>1, PythonGoesOn
      <3> QED
        BY <2>1, <2>2, <2>7, <3>1, <3>2, StepsAheadFacts DEF StoppedPcs
    <2>8. CASE pc \in {"repl", "deinit", "free_heap"} \cup StoppedPcs
      BY <2>1, <2>2, <2>8, StepsAheadFacts
    <2> QED
      BY <2>1, <2>3, <2>4, <2>5, <2>6, <2>7, <2>8 DEF BootPcs, MainPcs
  <1>2. Spec => [][A]_vars
    BY <1>1, Inductive, PTL DEF Spec
  <1> QED
    BY <1>2 DEF TowardsPrompt

-----------------------------------------------------------------------------
(* The payload implements the abstract client of the page services *)

LEMMA FreshHeld ==
  ASSUME IInv
  PROVE  /\ image # NULL => image_size \in FileSizes
         /\ pc = "alloc_heap" => HeapBlock = {} /\ ImageBlock = {}
         /\ pc = "python" => ImageBlock = {}
         /\ pc = "free_heap" => HeapBlock = {Block(heap, SizeToPages(HeapSize))}
  BY DEF IInv, ImageInv, HeapInv, TypeOK, PythonPcs, HeapBlock, ImageBlock,
         BlockAt

(* A block of free pages is one the abstract client may take. *)
LEMMA TakeIsAbstract ==
  ASSUME IInv, NEW n \in Nat \ {0}, NEW b \in FreeBlocks(n),
         owned' = owned \cup PagesOf(b), Held' = Held \cup {b}
  PROVE  Client!Next
  <1>1. /\ b.first \in 1..MaxPages /\ b = Block(b.first, n)
        /\ PagesOf(b) \subseteq 1..MaxPages /\ PagesOf(b) \cap owned = {}
    BY FreeBlockFacts DEF IInv
  <1>2. n \in 1..MaxPages
    <2>1. b.first + n - 1 \in PagesOf(Block(b.first, n))
      BY <1>1, MaxPagesAssumption DEF PagesOf, Block
    <2>2. b.first + n - 1 \in 1..MaxPages
      BY <1>1, <2>1
    <2> QED
      BY <1>1, <2>2, MaxPagesAssumption
  <1>3. Client!Take(Block(b.first, n))
    BY <1>1 DEF Client!Take, Client!PagesOf, PagesOf
  <1> QED
    BY <1>1, <1>2, <1>3 DEF Client!Next, Client!Block, Block

LEMMA ReturnIsAbstract ==
  ASSUME NEW b \in Held, owned' = owned \ PagesOf(b), Held' = Held \ {b}
  PROVE  Client!Next
  BY DEF Client!Next, Client!Return, Client!PagesOf, PagesOf

(* Every step of the payload takes a block of free pages, returns one that *)
(* it took and still has, or leaves the page services alone.               *)
THEOREM ImplementsPageClient == Spec => RespectsLoader
  <1>1. Init => Client!Init
    <2> SUFFICES ASSUME Init PROVE Client!Init
      OBVIOUS
    <2>1. Held = {}
      BY DEF Init, Held, HeapBlock, ImageBlock, BlockAt
    <2>2. owned \in SUBSET (1..MaxPages)
      BY ReservedAssumption DEF Init
    <2> QED
      BY <2>1, <2>2 DEF Client!Init
  <1>2. IInv /\ [Next]_vars => [Client!Next]_(Client!clientVars)
    <2> SUFFICES ASSUME IInv, [Next]_vars
                 PROVE  Client!Next \/ UNCHANGED <<owned, Held>>
      BY DEF Client!clientVars
    <2>0. /\ HeapBlock \cap ImageBlock = {}
          /\ (HeapBlock \cup ImageBlock) \cap lost = {}
      BY DEF IInv, Accounting
    <2>1. CASE UNCHANGED memoryVars
      BY <2>1 DEF memoryVars, Held, HeapBlock, ImageBlock
    <2>2. CASE AllocHeap
      <3>1. HeapBlock = {} /\ ImageBlock = {} /\ UNCHANGED <<image, image_size, lost>>
        BY <2>2, FreshHeld DEF AllocHeap, file
      <3>2. CASE UNCHANGED <<heap, owned>>
        BY <3>1, <3>2 DEF Held, HeapBlock, ImageBlock
      <3>3. CASE \E b \in FreeBlocks(SizeToPages(HeapSize)) :
                   heap' = b.first /\ owned' = owned \cup PagesOf(b)
        <4>1. PICK b \in FreeBlocks(SizeToPages(HeapSize)) :
                heap' = b.first /\ owned' = owned \cup PagesOf(b)
          BY <3>3
        <4>2. b = Block(heap', SizeToPages(HeapSize)) /\ heap' # NULL
          BY <4>1, SizeFacts, FreeBlockFacts DEF IInv, NULL
        <4>3. Held' = Held \cup {b}
          BY <3>1, <4>2 DEF Held, HeapBlock, ImageBlock, BlockAt
        <4> QED
          BY <4>1, <4>3, SizeFacts, TakeIsAbstract
      <3> QED
        BY <2>2, <3>2, <3>3 DEF AllocHeap
    <2>3. CASE FreeHeap
      <3> DEFINE b == Block(heap, SizeToPages(HeapSize))
      <3>1. HeapBlock = {b} /\ HeapBlock' = {} /\ ImageBlock' = ImageBlock
            /\ lost' = lost /\ owned' = owned \ PagesOf(b)
        BY <2>3, FreshHeld DEF FreeHeap, FreePages, file, HeapBlock, ImageBlock,
                               BlockAt
      <3>2. Held' = Held \ {b} /\ b \in Held
        BY <2>0, <3>1 DEF Held
      <3> QED
        BY <3>1, <3>2, ReturnIsAbstract
    <2>4. CASE LoadFile
      <3>1. ImageBlock = {} /\ UNCHANGED <<heap, lost>>
        BY <2>4, FreshHeld DEF LoadFile
      <3>2. CASE NotLoaded
        BY <3>1, <3>2 DEF NotLoaded, Held, HeapBlock, ImageBlock, BlockAt
      <3>3. CASE \E size \in FileSizes : \E b \in FreeBlocks(FilePages(size)) :
                 /\ image' = b.first /\ image_size' = size
                 /\ owned' = owned \cup PagesOf(b)
        <4>1. PICK size \in FileSizes : \E b \in FreeBlocks(FilePages(size)) :
                 /\ image' = b.first /\ image_size' = size
                 /\ owned' = owned \cup PagesOf(b)
          BY <3>3
        <4>2. PICK b \in FreeBlocks(FilePages(size)) :
                 /\ image' = b.first /\ image_size' = size
                 /\ owned' = owned \cup PagesOf(b)
          BY <4>1
        <4>3. b = Block(image', FilePages(size)) /\ image' # NULL
          BY <4>2, SizeFacts, FreeBlockFacts DEF IInv, NULL
        <4>4. ImageBlock' = {b}
          BY <4>2, <4>3 DEF ImageBlock, BlockAt, FilePages
        <4>5. Held' = Held \cup {b}
          BY <3>1, <4>4 DEF Held, HeapBlock
        <4> QED
          BY <4>2, <4>5, SizeFacts, TakeIsAbstract
      <3> QED
        BY <2>4, <3>2, <3>3 DEF LoadFile
    <2>5. CASE NewBytes
      <3>1. UNCHANGED <<heap, owned>>
        BY <2>5 DEF NewBytes
      <3>2. CASE UNCHANGED <<image, image_size, lost>>
        BY <3>1, <3>2 DEF Held, HeapBlock, ImageBlock
      <3>3. CASE lost' = lost \cup ImageBlock /\ image' = NULL
        BY <3>1, <3>3 DEF Held, HeapBlock, ImageBlock, BlockAt
      <3> QED
        BY <2>5, <3>2, <3>3 DEF NewBytes, ImageBlock
    <2>6. CASE FreeImage
      <3>1. ImageBlock' = {} /\ UNCHANGED <<heap, lost>>
        BY <2>6 DEF FreeImage, ImageBlock, BlockAt
      <3>2. CASE image = NULL
        BY <2>6, <3>1, <3>2 DEF FreeImage, Held, HeapBlock, ImageBlock, BlockAt
      <3>3. CASE image # NULL
        <4> DEFINE b == Block(image, FilePages(image_size))
        <4>1. owned' = owned \ PagesOf(b)
          BY <2>6, <3>3, FreshHeld, SizeFacts DEF FreeImage, FreePages
        <4>2. ImageBlock = {b} /\ HeapBlock' = HeapBlock
          BY <3>1, <3>3 DEF ImageBlock, HeapBlock, BlockAt
        <4>3. Held' = Held \ {b} /\ b \in Held
          BY <2>0, <3>1, <4>2 DEF Held
        <4> QED
          BY <4>1, <4>3, ReturnIsAbstract
      <3> QED
        BY <3>2, <3>3
    <2> QED
      BY <2>1, <2>2, <2>3, <2>4, <2>5, <2>6, QuietSteps
         DEF Next, Main, Python, Stopped
  <1> QED
    BY <1>1, <1>2, Inductive, PTL
       DEF Spec, RespectsLoader, Client!Spec
=============================================================================
