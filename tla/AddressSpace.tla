---------------------------- MODULE AddressSpace ----------------------------
(***************************************************************************)
(* The memory of a process as the kernel modules of assignment 1 see it:   *)
(* its areas, and page tables whose upper levels are reduced to the level  *)
(* at which the walk to a page ends.  Addresses are page numbers.          *)
(*                                                                         *)
(* A huge page is an entry of the level pmd that points to no table:       *)
(* pmd_trans_huge is true of it, and so is pmd_bad.                        *)
(***************************************************************************)
EXTENDS Naturals, Sequences, FiniteSets

CONSTANTS
    Pages,       \* the page numbers
    PmdPages,    \* pages below one entry of the level pmd (512)
    Spaces       \* address spaces: records [vmas, dir]

Levels == {"no_pgd", "no_p4d", "no_pud", "no_pmd", "huge", "table"}

Region(p) == p \div PmdPages
Regions == {Region(p) : p \in Pages}
RegionPages(r) == {p \in Pages : Region(p) = r}

\* dir[r]: the entry that ends the walk, or "huge", or "table"
EndsAbovePmd(s, p) == s.dir[Region(p)] \in {"no_pgd", "no_p4d", "no_pud"}
PmdHuge(s, p) == s.dir[Region(p)] = "huge"
HasTable(s, p) == s.dir[Region(p)] = "table"

VmaPages(s, k) == s.vmas[k].start .. s.vmas[k].end - 1
AreasUpTo(s, k) == UNION {VmaPages(s, j) : j \in 1 .. k}
AllAreas(s) == AreasUpTo(s, Len(s.vmas))

\* Areas are in order and do not overlap; a huge page lies in one area.
WellFormed(s) ==
    /\ s \in [vmas : Seq([start : Pages, end : Nat]), dir : [Regions -> Levels]]
    /\ \A k \in 1 .. Len(s.vmas) :
           s.vmas[k].start < s.vmas[k].end /\ VmaPages(s, k) \subseteq Pages
    /\ \A j, k \in 1 .. Len(s.vmas) : j < k => s.vmas[j].end <= s.vmas[k].start
    /\ \A r \in Regions : s.dir[r] = "huge" =>
           \E k \in 1 .. Len(s.vmas) : RegionPages(r) \subseteq VmaPages(s, k)

\* Pages consists of whole regions.
ASSUME SpaceAssumption ==
    /\ Pages \subseteq Nat /\ IsFiniteSet(Pages)
    /\ PmdPages \in Nat \ {0}
    /\ \A p \in Pages : (Region(p) * PmdPages) .. (Region(p) * PmdPages + PmdPages - 1) \subseteq Pages
    /\ \A s \in Spaces : WellFormed(s)

\* Pages that an entry of a table can hold.
TablePages(s) == {p \in AllAreas(s) : HasTable(s, p)}
HugeRegions(s) == {r \in Regions : s.dir[r] = "huge"}
=============================================================================
