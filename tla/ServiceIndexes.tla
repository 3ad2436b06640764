--------------------------- MODULE ServiceIndexes ---------------------------
(***************************************************************************)
(* The services that keep an index beside what it indexes: the directories *)
(* of capabilities, the collaboration handlers, the interaction memory and *)
(* the semantic graph.  They share no state; what they promise of their    *)
(* indexes is stated here once.                                            *)
(***************************************************************************)
EXTENDS CapabilityDirectories, Collaboration, InteractionMemory, SemanticGraph

IndexesSpec == DirectoriesSpec /\ CollabSpec /\ MemorySpec /\ GraphSpec

(***************************************************************************)
(* What is there is found by these indexes, whatever was added twice,      *)
(* replaced, removed or dropped before: adapters by role (not by tool, see *)
(* ToolsFound), annotations by entity, nodes by role and source (in a      *)
(* trimmed graph too), and the newest of the history by lastDiscussed.     *)
(***************************************************************************)
IndexesLead ==
  /\ RolesCover
  /\ AnnotationsAreListed
  /\ MemoryIsCoherent
  /\ IsIndexed(g) /\ IsIndexed(Trim(g, 1))

=============================================================================
