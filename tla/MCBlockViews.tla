------------------------------ MODULE MCBlockViews ------------------------------
EXTENDS BlockViews

MCMinY == -3
MCStoneTopY == -1
MCArea == {<<-1, 0>>, <<0, 0>>}

\* A block at the corner of chunk <<-1, 0>> in either section, with neighbours
\* in the other chunk, the other section, above and below all sections.
MCClicks == {<<-1, -3, 2>>, <<-1, -1, 0>>, <<-1, 2, 1>>}
MCHeld == {7, 31}

\* The first n blocks of section s of chunk <<-1, 0>> edited, with d distinct
\* states in turn, the first of them f.
Filled(s, n, d, f) ==
  LET pos(i) == client_position(<<-1, 0>>, s, i)
      cells == {i \in Index : i < n}
  IN  [p \in {pos(i) : i \in cells} |-> f + ((CHOOSE i \in cells : pos(i) = p) % d)]

\* No edits; sections with few, 8, 9 and 27 states beside the base; sections
\* that edits made uniform again.
MCWorlds ==
  {<<>>} \cup {Filled(s, 27, d, 0) : s \in Sections, d \in {1, 27}}
         \cup {Filled(s, d, d, f) : s \in Sections, d \in {1, 2, 4, 8, 9}, f \in {0, 5}}
=============================================================================
