-------------------------- MODULE MCPartitionSource --------------------------
(* Two instances on one worker, of which only a REST reader cares where it runs;
   one slice has rows that fail. *)
EXTENDS PartitionSource

MCInit == /\ Init
          /\ \A s \in Slices : s > 1 => bad[s] = {}
          /\ remote => kind = "rest"

MCSpec == MCInit /\ [][Next]_vars /\ Fairness
=============================================================================
