---------------------------- MODULE MCKernelBind ----------------------------
(* Instances of KernelBind for TLC.  "one" is a size-1 dimension, which    *)
(* tracing may guard on; "tail" is a property of the values of an argument *)
(* which code generation finds the program to depend on; "long" is an      *)
(* extent beyond the bucket of a small one.                                *)
EXTENDS KernelBind, TLC

ThreadSymmetry == Permutations(Threads)

OneAndTail == {{}, {"one"}, {"tail"}}
ShortAndLong == {{}, {"long"}}
=============================================================================
