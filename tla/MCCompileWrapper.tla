-------------------------- MODULE MCCompileWrapper --------------------------
(* Two compiles with files of their own, a third that reuses the names of   *)
(* the first (a configure script's conftest.c), and a link.                 *)
EXTENDS CompileWrapper

MCJobs == 1..4
MCKey == <<1, 2, 1, 3>>
MCChecks == <<1, 2, 4, 0>>
=============================================================================
