------------------------------- MODULE JvmMemory --------------------------------
(***************************************************************************)
(* The arithmetic of JvmMemoryDefaults: the sizes of the heap, in bytes,   *)
(* and of its young generation, in MiB, that the bootstrapper writes to    *)
(* jvm.options for a pod that has none there.                              *)
(***************************************************************************)
EXTENDS JavaMath

VARIABLE podSize    \* [cpu, memory]: millicores and bytes of the pod

MiB == 1048576

HeapSize == Larger(1, podSize.memory \div 2)

(* Mutant: the young generation grows with the processors only. *)
YoungSizeByCpu == Larger(Larger(podSize.cpu \div 10, 100), 1)

YoungSize == Larger(Smaller(Larger(podSize.cpu \div 10, 100), (podSize.memory \div MiB) \div 8), 1)

(* The young generation fits into the heap, and the heap into half of the  *)
(* pod, for every pod that has the memory for a heap of 1 MiB.             *)
YoungFitsHeap ==
    podSize.memory >= 2 * MiB => YoungSize * MiB <= HeapSize /\ HeapSize * 2 <= podSize.memory
=============================================================================
