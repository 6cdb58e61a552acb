----------------------------- MODULE MCFdGenerate ----------------------------
(* Every phase as the one that refuses, and sets of failed invariants that *)
(* tell the reasons apart.                                                 *)
EXTENDS FdGenerate

MCFates ==
  {[at |-> p, failed |-> {}] :
     p \in {"draws", "coast", "lattice", "river", "biome", "names", "road",
            "validate"}}
  \cup {[at |-> "validate", failed |-> f] :
          f \in {{"TERRAIN_COVERAGE", "HYDROLOGY"}, {"HYDROLOGY", "SETTLEMENTS"},
                 {"SETTLEMENTS", "OTHER"}, {"OTHER"}}}
=============================================================================
