----------------------------- MODULE Apportion -----------------------------
(***************************************************************************)
(* internal/apportion: dividing an integer total across weighted claimants *)
(* with the largest remainder method.                                      *)
(*                                                                         *)
(* A Go slice of weights is a function from an ordered, finite set of      *)
(* integers to integers.  The order of the domain is the order of the      *)
(* slice, so that callers which sort their claimants by id (coordinator,   *)
(* agent) can index the shares by the id itself.                           *)
(***************************************************************************)
EXTENDS Integers, FiniteSets, FiniteSetsExt, Functions

(***************************************************************************)
(* The claimants with a positive weight, and the sum of those weights.     *)
(***************************************************************************)
Claimants(w) == {i \in DOMAIN w : w[i] > 0}

TotalWeight(w) == SumFunctionOnSet(w, Claimants(w))

(***************************************************************************)
(* The floor of the exact proportional share and the fraction it discards, *)
(* scaled by the total weight.                                             *)
(***************************************************************************)
Floor(total, w, i) == (total * w[i]) \div TotalWeight(w)

Remainder(total, w, i) == (total * w[i]) % TotalWeight(w)

(***************************************************************************)
(* The smaller remainder first.                                            *)
(***************************************************************************)
PrecedesReversed(total, w, i, j) ==
    LET ri == Remainder(total, w, i)
        rj == Remainder(total, w, j)
    IN  IF ri # rj THEN ri < rj ELSE i < j

(***************************************************************************)
(* The order of the claims once sorted: larger remainder first, ties       *)
(* toward the lower index.                                                 *)
(***************************************************************************)
Precedes(total, w, i, j) ==
    LET ri == Remainder(total, w, i)
        rj == Remainder(total, w, j)
    IN  IF ri # rj THEN ri > rj ELSE i < j

(***************************************************************************)
(* Units left over by rounding down.                                       *)
(***************************************************************************)
Leftover(total, w) ==
    total - MapThenSumSet(LAMBDA i : Floor(total, w, i), Claimants(w))

(***************************************************************************)
(* Largest: every claimant gets its floor, and the claims at the first     *)
(* Leftover places of the sorted order get one unit more.                  *)
(***************************************************************************)
Largest(total, w) ==
    IF total <= 0 \/ Claimants(w) = {}
    THEN [i \in DOMAIN w |-> 0]
    ELSE LET left == Leftover(total, w)
             place(i) == Cardinality({j \in Claimants(w) : Precedes(total, w, j, i)})
         IN  [i \in DOMAIN w |->
                IF w[i] <= 0 THEN 0
                ELSE Floor(total, w, i) + (IF place(i) < left THEN 1 ELSE 0)]

(***************************************************************************)
(* Equal: n claimants of weight one.                                       *)
(***************************************************************************)
Equal(total, n) == Largest(total, [i \in 0 .. n - 1 |-> 1])

=============================================================================
