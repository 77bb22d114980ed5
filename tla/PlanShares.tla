----------------------------- MODULE PlanShares -----------------------------
(***************************************************************************)
(* What plan() (common/src/planner_helpers.rs) promises, as arithmetic.    *)
(* Line the operations of all chunks up in chunk order; instance p gets    *)
(* the positions (p-1)*size .. p*size-1 of that line.  RegularPlan checks  *)
(* the loop of the code against Shares.                                    *)
(***************************************************************************)
EXTENDS Integers, Sequences, FiniteSets, FiniteSetsExt, Sums

\* Operations of the chunks before c.  cnt is a function over 0..n-1.
Before(cnt, c) == SumTo([i \in 1 .. c |-> cnt[i - 1]], c)

Total(cnt) == Before(cnt, Cardinality(DOMAIN cnt))

\* First and last+1 line position of what instance p takes from chunk c.
From(cnt, size, p, c) ==
    Max({(p - 1) * size, Before(cnt, c)})
To(cnt, size, p, c) ==
    Min({p * size, Before(cnt, c) + cnt[c]})

Share(cnt, size, p) ==
    [c \in {d \in DOMAIN cnt : From(cnt, size, p, d) < To(cnt, size, p, d)} |->
        [num  |-> To(cnt, size, p, c) - From(cnt, size, p, c),
         skip |-> From(cnt, size, p, c) - Before(cnt, c)]]

\* The whole plan: one scope per instance, ceil(Total / size) of them.
Shares(cnt, size) ==
    IF size = 0 THEN <<>>
    ELSE [p \in 1 .. (Total(cnt) + size - 1) \div size |-> Share(cnt, size, p)]
=============================================================================
