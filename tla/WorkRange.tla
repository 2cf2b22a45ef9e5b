------------------------------ MODULE WorkRange ------------------------------
(***************************************************************************)
(* What a restriction tracker promises the runner, whatever it tracks      *)
(* (bytes of a file, partition slices, pages): the positions of the input  *)
(* are shared out among the work items, an item seals a growing prefix of  *)
(* its positions by claiming them, and a dynamic split hands the positions *)
(* from some unsealed one onwards to a new item.  A failed item starts     *)
(* again on the positions it still owns.                                   *)
(***************************************************************************)
EXTENDS Integers

CONSTANTS Items,        \* identifiers of work items
          Positions     \* the positions of the input, integers

VARIABLES own,          \* own[i]: the positions item i is responsible for
          sealed        \* sealed[i]: the positions item i has claimed past

workVars == <<own, sealed>>

WorkTypeOK ==
  /\ own \in [Items -> SUBSET Positions]
  /\ sealed \in [Items -> SUBSET Positions]

(* The work items share the input: nobody's position is also another's, *)
(* and no position is left without an item.                             *)
Disjoint == \A i, j \in Items : i # j => own[i] \cap own[j] = {}
Covered  == \A p \in Positions : \E i \in Items : p \in own[i]
SealedOwned == \A i \in Items : sealed[i] \subseteq own[i]

WorkInit ==
  /\ own \in [Items -> SUBSET Positions]
  /\ Disjoint
  /\ Covered
  /\ sealed = [i \in Items |-> {}]

UpTo(S, p) == {q \in S : q <= p}
From(S, p) == {q \in S : q >= p}

Seal(i) ==
  \E p \in own[i] \ sealed[i] :
    /\ sealed' = [sealed EXCEPT ![i] = sealed[i] \cup UpTo(own[i], p)]
    /\ UNCHANGED own

HandOver(i, j) ==
  /\ own[j] = {}
  /\ \E p \in own[i] \ sealed[i] :
       /\ From(own[i], p) \cap sealed[i] = {}
       /\ own' = [own EXCEPT ![i] = own[i] \ From(own[i], p),
                             ![j] = From(own[i], p)]
       /\ UNCHANGED sealed

Restart(i) ==
  /\ sealed' = [sealed EXCEPT ![i] = {}]
  /\ UNCHANGED own

WorkNext ==
  \/ \E i \in Items : Seal(i) \/ Restart(i)
  \/ \E i, j \in Items : i # j /\ HandOver(i, j)

WorkSpec == WorkInit /\ [][WorkNext]_workVars
=============================================================================
