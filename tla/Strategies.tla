----------------------------- MODULE Strategies -----------------------------
(***************************************************************************)
(* The merge strategies of nxml-mux.  A snapshot is a record: who made it  *)
(* (human or not), the action vector, and the mask of the dimensions it    *)
(* contributes; a source without a mask contributes every dimension.       *)
(***************************************************************************)
EXTENDS Naturals, Sequences

CONSTANT Dims   \* the dimensions of an action vector

Neutral == [d \in Dims |-> 0]

Claimants(snaps, d) == {i \in DOMAIN snaps : d \in snaps[i].mask}
Humans(snaps) == {i \in DOMAIN snaps : snaps[i].human}

Earliest(S) == CHOOSE i \in S : \A j \in S : i <= j
Last(S) == CHOOSE i \in S : \A j \in S : j <= i

\* Fault: the human is polled first but not ranked first.
ArrivalOrder(snaps) ==
  [d \in Dims |-> LET all == Claimants(snaps, d)
                  IN IF all = {} THEN 0 ELSE snaps[Last(all)].action[d]]

\* HumanPriority.merge: per dimension the earliest human claim wins, and only
\* where no human claims, the earliest other claim.
HumanPriority(snaps) ==
  [d \in Dims |->
     LET all    == Claimants(snaps, d)
         humans == all \cap Humans(snaps)
         rank   == IF humans # {} THEN humans ELSE all
     IN IF rank = {} THEN 0 ELSE snaps[Earliest(rank)].action[d]]

\* HumanTakeover.merge: one active human dimension silences every other
\* source; among humans the latest claim overwrites the earlier ones.
HumanTakeover(snaps) ==
  LET active == \E i \in Humans(snaps) : snaps[i].mask # {}
  IN [d \in Dims |->
        LET all  == Claimants(snaps, d)
            rank == IF active THEN all \cap Humans(snaps) ELSE all \ Humans(snaps)
        IN CASE rank = {} -> 0
             [] rank # {} /\ active -> snaps[Last(rank)].action[d]
             [] rank # {} /\ ~active -> snaps[Earliest(rank)].action[d]]
=============================================================================
