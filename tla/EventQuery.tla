----------------------------- MODULE EventQuery -----------------------------
(* What the SQL stores answer to list_events and count_events (sqlite.py,     *)
(* postgres.py), and the time bounds the command line gives them              *)
(* (cli/_store.py).                                                           *)
(*                                                                            *)
(* Abstractions.  A row is a record; a table is the sequence of its rows in   *)
(* the order they were inserted.  An instant is an hour, a datetime an        *)
(* instant and the zone it is written in; events are stamped in UTC           *)
(* (events/models.py).  `readable` is FALSE for a row that row_to_event       *)
(* refuses, such as one with an error_kind of a newer version.  The model     *)
(* filter is an equality like the correlation filter and left out.            *)
EXTENDS Integers, Sequences, SequencesExt, FiniteSets

CONSTANTS
    Never,      \* a filter argument that is not given (a model value)
    Naive       \* the zone of a time argument that names none (a model value)

Rows == [id : Nat, corr : STRING, parent : Nat, at : Nat,
         error : BOOLEAN, cost : Nat, readable : BOOLEAN]

Backends == {"sqlite", "postgres"}

----------------------------------------------------------------------------
(* Time bounds. *)

\* "2h" is two hours before now, in UTC; a time without a zone is taken for
\* UTC; a time with one is returned as it was written.
ParseWhen(arg, now) ==
    IF arg.kind = "ago" THEN [at |-> now - arg.hours, zone |-> 0]
    ELSE IF arg.zone = Naive THEN [at |-> arg.local, zone |-> 0]
    ELSE [at |-> arg.local - arg.zone, zone |-> arg.zone]

\* isoformat() is the wall clock's time, then the zone: "+02:00" sorts after
\* "+00:00", and '-' after '+'.
ZoneRank(zone) == IF zone >= 0 THEN zone ELSE 100 - zone

TextBefore(t, u) ==
    LET wall(w) == w.at + w.zone
    IN  wall(t) < wall(u) \/ (wall(t) = wall(u) /\ ZoneRank(t.zone) <= ZoneRank(u.zone))

\* t <= u as the store's column compares: text in SQLite, instants in Postgres.
NotAfter(backend, t, u) ==
    IF backend = "sqlite" THEN TextBefore(t, u) ELSE t.at <= u.at

Stamp(row) == [at |-> row.at, zone |-> 0]

----------------------------------------------------------------------------
(* WHERE, ORDER BY, LIMIT and OFFSET. *)

\* _build_where: the filters that are given, joined by AND.
Matches(backend, row, f) ==
    /\ f.corr # Never => row.corr = f.corr
    /\ f.since # Never => NotAfter(backend, f.since, Stamp(row))
    /\ f.until # Never => NotAfter(backend, Stamp(row), f.until)
    /\ f.errorsOnly => row.error

Hits(backend, table, f) == {i \in DOMAIN table : Matches(backend, table[i], f)}

CountEvents(backend, table, f) == Cardinality(Hits(backend, table, f))

\* ORDER BY timestamp DESC: rows of the same time come in the order of their
\* insertion in SQLite, in any order in Postgres, in a new one for each query.
Listings(backend, table, f) ==
    {s \in SetToSeqs(Hits(backend, table, f)) :
        \A i, j \in DOMAIN s : i < j =>
          \/ table[s[i]].at > table[s[j]].at
          \/ table[s[i]].at = table[s[j]].at /\ (backend = "sqlite" => s[i] < s[j])}

\* The rows at some positions, in their order.
Pick(rows, places) ==
    LET picked[k \in 0..Len(rows)] ==
          IF k = 0 THEN <<>>
          ELSE IF k \in places THEN Append(picked[k - 1], rows[k]) ELSE picked[k - 1]
    IN  picked[Len(rows)]

\* row_to_event for each row; one that cannot be read is logged and left out.
Readable(rows) == Pick(rows, {k \in DOMAIN rows : rows[k].readable})

\* The rows of s from one position to another, which LIMIT and OFFSET count
\* before it is known which of them can be read.
RowsOf(table, s, from, to) ==
    LET page == SubSeq(s, from, IF to < Len(s) THEN to ELSE Len(s))
    IN  Readable([k \in DOMAIN page |-> table[page[k]]])

\* Mutant: OFFSET counts from one.
PageFromOne(table, s, limit, offset) == RowsOf(table, s, offset + 2, offset + limit + 1)

Page(table, s, limit, offset) == RowsOf(table, s, offset + 1, offset + limit)
=============================================================================
