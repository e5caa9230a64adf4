-------------------------- MODULE MCBenchmarkWorker --------------------------
(* Instances of BenchmarkWorker for TLC.  An "error" that leaves the worker  *)
(* usable is treated like a "value".                                         *)
EXTENDS BenchmarkWorker

Three_Results == {"value", "sticky", "garbled"}
=============================================================================
