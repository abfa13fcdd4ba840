------------------------------- MODULE MCGate -------------------------------
(* Instances of Gate for TLC. *)
EXTENDS Gate

Said(letters, lx, ly) == [ok |-> TRUE, letters |-> letters, lx |-> lx, ly |-> ly]

\* A button held, let go of and held again; every letter, and every one in turn
\* with its neighbour; the stick to each side and corner, and beyond; lines that
\* are none; a movie as long as the run, and longer.
MCMovies ==
  {<<>>, <<BadLine>>,
   <<Said({1}, 0, 0), Said({}, 0, 0), Said({1}, 0, 0), Said({1, 10}, 0, 0)>>,
   <<Said(1..12, 5, 5), BadLine, Said({}, -5, -5)>>,
   <<Said({5}, 127, 127), Said({9}, -128, 1), Said({}, 0, 300)>>,
   <<Said({}, -128, -128), Said({}, 0, -300)>>,
   <<Said({6}, -300, 127), Said({}, 1, -1), Said({}, -1, 1), Said({}, 0, 0), Said({8}, 9, 9)>>}
   \cup {<<Said({i}, 0, -127), Said({i, i + 1}, 1, 0)>> : i \in {1, 3, 5, 7, 9, 11}}

MCPattern ==
  <<[buttons |-> {"up", "L"}, x |-> 200, y |-> 17], [buttons |-> {}, x |-> 128, y |-> 255],
    [buttons |-> {"up"}, x |-> 0, y |-> 128], [buttons |-> {}, x |-> 3, y |-> 250],
    [buttons |-> {"R"}, x |-> 3, y |-> 1]>>

\* A core with no Vulkan renderer is told of no state.
MCLegs == {l \in [rerecord : BOOLEAN, turbo : BOOLEAN, rewind : BOOLEAN, axes : BOOLEAN,
                  vulkan : BOOLEAN, saveTold : BOOLEAN, loadTold : BOOLEAN] :
             l.saveTold \/ l.loadTold => l.vulkan}
=============================================================================
