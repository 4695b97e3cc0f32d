----------------------------- MODULE MCLibraries -----------------------------
(* Small instances of the sequential libraries.  They share no state, so a    *)
(* behaviour is one of a single library, driven by any sequence of its calls. *)
EXTENDS Heap, LinkedLists, SearchTrees, HashTable, Buffers, Allocators, DHCP,
        Sorting, Calculator, KnightTour, Strings, RefCounts

VARIABLE focus   \* the library that is called

libVars == <<heapVars, dllVars, sllVars, bstVars, avlVars, tableVars, bufferVars, vsaVars, fsaVars, dhcpVars,
             sortVars, calcVars, tourVars, wordVars, bitsVars, strVars, refVars>>

\* Boards for the knight: without a move, without a tour, with one; with and without
\* the heuristic.
MCTours == {<<1, FALSE, 0>>, <<3, FALSE, 0>>, <<3, TRUE, 4>>, <<5, TRUE, 0>>, <<5, TRUE, 12>>, <<4, TRUE, 0>>}

\* Where a library has several initial states, those that are not called have one.
MCInit ==
  /\ focus \in {"heap", "dll", "sll", "bst", "avl", "table", "buffers", "vsa", "fsa", "dhcp",
                "sorting", "calculator", "tour", "word", "bits", "strings", "refs"}
  /\ HeapInit /\ SLLInit /\ BSTInit /\ AVLInit /\ TableInit /\ DHCPInit /\ WordStart /\ RefInit
  /\ DLLInit /\ (focus # "dll" => sortedUse = FALSE)
  /\ BufferInit /\ (focus # "buffers" => cbuff = CBuffCreate(Min(CBuffCapacities)))
  /\ VSAStart /\ (focus # "vsa" => vsa = VSAInit(Min(VSAPools), 0, 1))
  /\ FSAStart /\ (focus # "fsa" => fsa = FSAInit(Min(FSABlocks), Min(BlockSizes)))
  /\ SortInit /\ (focus # "sorting" => given = <<Min(SortValues)>>)
  /\ CalcInit /\ (focus # "calculator" => calc.status = "SUCCESS")
  /\ TourInit /\ (focus # "tour" => tour.len = 1)
  /\ BitsStart /\ (focus # "bits" => bits = NewBitArray(Min(ArraySizes)))
  /\ StrInit /\ (focus # "strings" => strUse = "strings")

\* One call of the library, or the end of a program.
Call ==
  \/ focus = "heap" /\ HeapNext
  \/ focus = "dll" /\ DLLNext
  \/ focus = "sll" /\ SLLNext
  \/ focus = "bst" /\ BSTNextCall
  \/ focus = "avl" /\ AVLNext
  \/ focus = "table" /\ TableNext
  \/ focus = "buffers" /\ BufferNext
  \/ focus = "vsa" /\ VSANext
  \/ focus = "fsa" /\ FSANext
  \/ focus = "dhcp" /\ DHCPNext
  \/ focus = "sorting" /\ SortNext
  \/ focus = "calculator" /\ CalcNext
  \/ focus = "tour" /\ TourNext
  \/ focus = "word" /\ WordNext
  \/ focus = "bits" /\ BitsNext
  \/ focus = "strings" /\ StrNext
  \/ focus = "refs" /\ RefNext

MCNext ==
  /\ UNCHANGED focus
  /\ Call
  /\ focus # "heap" => UNCHANGED heapVars
  /\ focus # "dll" => UNCHANGED dllVars
  /\ focus # "sll" => UNCHANGED sllVars
  /\ focus # "bst" => UNCHANGED bstVars
  /\ focus # "avl" => UNCHANGED avlVars
  /\ focus # "table" => UNCHANGED tableVars
  /\ focus # "buffers" => UNCHANGED bufferVars
  /\ focus # "vsa" => UNCHANGED vsaVars
  /\ focus # "fsa" => UNCHANGED fsaVars
  /\ focus # "dhcp" => UNCHANGED dhcpVars
  /\ focus # "sorting" => UNCHANGED sortVars
  /\ focus # "calculator" => UNCHANGED calcVars
  /\ focus # "tour" => UNCHANGED tourVars
  /\ focus # "word" => UNCHANGED wordVars
  /\ focus # "bits" => UNCHANGED bitsVars
  /\ focus # "strings" => UNCHANGED strVars
  /\ focus # "refs" => UNCHANGED refVars

MCSpec == MCInit /\ [][MCNext]_<<libVars, focus>>

-----------------------------------------------------------------------------
(* A library that is not called is in an initial state, which is looked at in  *)
(* the behaviours in which it is.                                             *)

\* Vector, lists, queue, circular buffer and stack hold what their calls say; the
\* trees and the hash table are the sets of their keys, in order; the leases of the
\* dhcp are apart.
StructuresHold ==
  /\ focus = "heap" => BufferFits
  /\ focus = "dll" => ListsAgree
  /\ focus = "sll" => QueuesAgree
  /\ focus = "buffers" => BuffersKeepOrder
  /\ focus = "bst" => TreeIsTheSet
  /\ focus = "avl" => KeysInOrder
  /\ focus = "table" => TableIsTheSet
  /\ focus = "dhcp" => LeasesHold

\* Allocated blocks do not meet; bit arrays are sets of bits; string and memory
\* functions do what their definitions say; reference counts are exact.
MemoryHolds ==
  /\ focus \in {"vsa", "fsa"} => BlocksApart
  /\ focus \in {"word", "bits"} => BitsAreSets
  /\ focus = "strings" => StringsMean
  /\ focus = "refs" => CountsExact

\* The algorithms give what their reference definitions give.
AlgorithmsAgree ==
  /\ focus = "sorting" => SortsAgree
  /\ focus = "calculator" => ExpressionMeans
  /\ focus = "tour" => TourIsAPath

=============================================================================
