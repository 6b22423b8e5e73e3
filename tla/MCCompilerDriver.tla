-------------------------- MODULE MCCompilerDriver --------------------------
(* Instances of CompilerDriver. *)
EXTENDS CompilerDriver
=============================================================================
