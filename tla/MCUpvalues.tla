----------------------------- MODULE MCUpvalues -----------------------------
(***************************************************************************)
(* Upvalues for a file with three levels of functions and two siblings:    *)
(* main holds f and h, and f holds g.  a and the preset p are variables of *)
(* main, c is one of f.                                                    *)
(***************************************************************************)
EXTENDS Upvalues

FileOuter == [f \in Fn \ {Main} |-> IF f = "g" THEN "f" ELSE "main"]
FileEnclosing ==
    [f \in Fn |-> CASE f = "main" -> {} [] f = "g" -> {"f", "main"} [] OTHER -> {"main"}]
FileOwner == [v \in Var |-> IF v = "c" THEN "f" ELSE "main"]
FileFixedSlot == [v \in Fixed |-> 0]
=============================================================================
