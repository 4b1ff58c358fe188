------------------------ MODULE MCPublisherConfirms ------------------------
(* PublisherConfirms for TLC: the publishers are model values. *)
EXTENDS PublisherConfirms, TLC

\* Publishers are alike; runs of safety properties may take them as such.
Symmetry == Permutations(Publisher)
=============================================================================
