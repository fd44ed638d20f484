------------------------------- MODULE MCDeploy --------------------------------
(* The VMs' jobs, and the pipeline that brings their images to the node.  The  *)
(* two share no state: an image that is refused ends a deploy before its first *)
(* effect (Refuse), and a deploy's VM does not matter to the pipeline.  So any *)
(* behaviour of both is a shuffle of one of each, and a property of either     *)
(* needs only the behaviours with the other at rest.  Two files, two contents  *)
(* of one size, two versions, two runs; at the start a set is absent or whole, *)
(* and the publisher rewrites one of its files.                                *)
EXTENDS MCVnfLifecycle, ImagePipeline

MCSize == [c \in Images |-> 1]

MCSymmetry ==
  Permutations(Jobs) \union Permutations(Images) \union Permutations(Files) \union Permutations(Versions)

NothingServed == \A f \in Files : served[f].artifact = Nothing

MCInit == Init /\ ImagesInit

MCNext ==
  \/ Init /\ ImagesNext /\ UNCHANGED vars
  \/ ImagesInit /\ NothingServed /\ Next /\ UNCHANGED ivars

MCSpec == MCInit /\ [][MCNext]_<<vars, ivars>>
=============================================================================
