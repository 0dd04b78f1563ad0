------------------------------ MODULE Bookings ------------------------------
(***************************************************************************)
(* Totals of tables of bookings.                                           *)
(*                                                                         *)
(* A policy keeps a counter and no table, and every proof about it needs   *)
(* the counter to be the total of the bookings.  A total computed by       *)
(* recursion over the table does not lend itself to a proof step by step,  *)
(* so the units that are booked are counted instead: a new booking adds    *)
(* a set of units of its own, a released one takes its units away.         *)
(***************************************************************************)
EXTENDS Integers, FiniteSets

\* The units booked by the keys S: as many of each key as the table f says.
Units(f, S) == {u \in S \X Nat : u[2] < f[u[1]]}

\* total is the sum of the table f over the keys S.
IsTotal(f, S, total) ==
    /\ IsFiniteSet(Units(f, S)) /\ Cardinality(Units(f, S)) = total
    /\ \A k \in S : f[k] \in Nat

\* The element that the recursion of SumFunction takes from a set.
First(s) == CHOOSE x \in s : TRUE

\* iter solves the recursion of SumFunction for the table f over S.
Recursion(f, S, iter) ==
    iter = [s \in SUBSET S |-> IF s = {} THEN 0 ELSE f[First(s)] + iter[s \ {First(s)}]]

=============================================================================
