----------------------------- MODULE MCPageWalk -----------------------------
(* Small address spaces: three entries of the level pmd with two pages     *)
(* each.                                                                   *)
EXTENDS PageWalk

MCPages == 0 .. 5

Area(a, b) == [start |-> a, end |-> b]

\* One area, two with a gap, two that touch inside a region, one at an odd page.
MCVmas == {<<Area(0, 4)>>, <<Area(1, 2), Area(3, 6)>>, <<Area(0, 3), Area(3, 4)>>, <<Area(1, 5)>>}

\* Every level ends some walk, in front of, between and behind others.
Dir(a, b, c) == [r \in 0 .. 2 |-> CASE r = 0 -> a [] r = 1 -> b [] r = 2 -> c]
MCDirs ==
    {Dir(a, b, c) : a \in {"no_pgd", "no_pmd", "huge", "table"},
                    b \in {"no_p4d", "no_pmd", "huge", "table"},
                    c \in {"no_pud", "huge", "table"}}

MCSpaces == {s \in [vmas : MCVmas, dir : MCDirs] : WellFormed(s)}

\* Page frames in another order than the pages.
MCFrame(p) == 1 + ((5 * p) % 6)
=============================================================================
