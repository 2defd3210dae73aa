----------------------------- MODULE MCRegAlloc -----------------------------
(***************************************************************************)
(* Instances of RegAlloc: all functions with a few registers of the kinds  *)
(* named below that are used between the instructions 1 and MaxPc.         *)
(***************************************************************************)
EXTENDS RegAlloc, TLC

CONSTANTS MaxPc, MaxLen

Ranges == {r \in (1 .. MaxPc) \X (1 .. MaxPc) : r[1] <= r[2]}

Group(kind, r, n, call, at) ==
    [kind |-> kind, from |-> r[1], to |-> r[2], n |-> n, call |-> call, at |-> at]

Scalars == {Group("auto", r, 1, FALSE, 0) : r \in Ranges}
Records == {Group("auto", r, n, c, 0) :
               r \in Ranges, n \in 2 .. MaxLen, c \in BOOLEAN}
Upvals == {Group("upval", <<1, 1>>, 1, FALSE, 0)}
Presets == {Group("preset", <<1, 1>>, 1, FALSE, s) : s \in 0 .. MaxSlots}
PresetRecords == {Group("preset", <<1, 1>>, n, FALSE, s) :
                     n \in 2 .. MaxLen, s \in 0 .. (MaxSlots - 1)}

All(params, kinds) == [params : params, group : [Groups -> kinds]]

\* Every kind of register, with no parameters or with nearly no slots left, or too many.
MixedPrograms ==
    {p \in All({0, 3, MaxSlots + 1}, Scalars \cup Records \cup Upvals \cup Presets \cup PresetRecords) :
        \A g \in Groups : p.group[g].at + p.group[g].n - 1 <= MaxSlots}

Symmetry == Permutations(Groups)

=============================================================================
