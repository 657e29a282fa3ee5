------------------------------- MODULE Lowest -------------------------------
(***************************************************************************)
(* What several searches for a free place find one after the other.  The   *)
(* allocators of this kernel all take the first clear bit or unused entry. *)
(***************************************************************************)
EXTENDS Integers

\* The place that a search finds, as a set; none if S is empty.
LeastOf(S) == {n \in S : \A m \in S : n <= m}

\* The one way to give each member of R a place in S such that lower members
\* get lower places and no place is passed over; none if S is too small.  R and
\* S are sets of numbers.
InOrder(R, S) ==
    {f \in [R -> S] :
        /\ \A r, t \in R : r < t => f[r] < f[t]
        /\ \A r \in R, s \in S : s < f[r] => \E t \in R : f[t] = s}
=============================================================================
