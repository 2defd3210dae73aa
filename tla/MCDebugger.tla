----------------------------- MODULE MCDebugger -----------------------------
(***************************************************************************)
(* Instances of Debugger: a chunk of two rows and a function that may call *)
(* itself, of one row or of two.                                           *)
(***************************************************************************)
EXTENDS Debugger

FunctionOf == [p \in Pos |-> IF p \in {"f1", "f2"} THEN "f" ELSE "main"]
First == [f \in Fn |-> IF f = "main" THEN "m1" ELSE "f1"]
Line == [p \in Pos |->
            CASE p = "m1" -> 1 [] p = "m2" -> 2 [] p = "f1" -> 3 [] p = "f2" -> 4]

\* Line numbers as a front end that uses JitComposer::packRowCol writes them.
PackedLine == [p \in Pos |-> Line[p] * 4096 + 1]
=============================================================================
