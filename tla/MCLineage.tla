----------------------------- MODULE MCLineage -----------------------------
(* Lineage for TLC: three calls, two hours, a foreign row, pages of two rows.  *)
EXTENDS LineageGraph

MCCorrs == {<<Own, x, Own>> : x \in {Own, NoCorr, "other"}}

MCForeign == <<[id |-> 9, corr |-> Own, parent |-> 0, at |-> 1,
                error |-> TRUE, cost |-> 0, readable |-> FALSE]>>

\* --since and --until as the command line takes them, three hours past.
Now == 3
Anything == [corr |-> Never, since |-> Never, until |-> Never, errorsOnly |-> FALSE]
MCFilters ==
    {[Anything EXCEPT !.corr = Own],
     [Anything EXCEPT !.since = ParseWhen([kind |-> "ago", hours |-> 1], Now)],
     [Anything EXCEPT !.until = ParseWhen([kind |-> "at", local |-> 1, zone |-> Naive], Now),
                      !.errorsOnly = TRUE]}

\* --since 04:00+02:00, which is 02:00 in UTC.
ZonedFilters ==
    {[Anything EXCEPT !.since = ParseWhen([kind |-> "at", local |-> 4, zone |-> 2], Now)]}
=============================================================================
