------------------------------ MODULE NodeMap ------------------------------
(***************************************************************************)
(* What the kernel relies on in a FUSE server's node numbers, with no tree *)
(* and no p4 server: a number stands for one (parent, name) for ever, no   *)
(* two numbers for the same one, and a number handed out by LOOKUP is the  *)
(* number of the name that was asked for.  P4Fs implements it.             *)
(***************************************************************************)
EXTENDS Naturals, FiniteSets

VARIABLES
  nodes,     \* the (parent, name) of every number in use, from 1 on
  known      \* the numbers handed to the kernel, with what was asked for

vars == <<nodes, known>>

Distinct(f) == \A i, j \in DOMAIN f : f[i] = f[j] => i = j

Init == nodes = [i \in {1} |-> <<0, 0>>] /\ known = {<<1, 0, 0>>}

(* Any number of nodes appear; those there are stay what they are.         *)
Grow ==
  /\ DOMAIN nodes' = 1 .. Cardinality(DOMAIN nodes')
  /\ DOMAIN nodes \subseteq DOMAIN nodes'
  /\ \A i \in DOMAIN nodes : nodes'[i] = nodes[i]
  /\ Distinct(nodes')

(* Handing one out: it is a node in use after the step, whose parent the   *)
(* kernel knew.                                                            *)
Hand ==
  \E i \in DOMAIN nodes' :
    /\ \E k \in known : k[1] = nodes'[i][1]
    /\ known' = known \cup {<<i, nodes'[i][1], nodes'[i][2]>>}

Next == (nodes' = nodes \/ Grow) /\ (known' = known \/ Hand)

Spec == Init /\ [][Next]_vars
=============================================================================
