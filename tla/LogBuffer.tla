------------------------------ MODULE LogBuffer -----------------------------
(***************************************************************************)
(* The log entries the dashboard keeps and how its logs page shows them:   *)
(* llm_resolver/log_buffer.go, and handleLogsHTML, buildLogTimeline and    *)
(* their helpers in dashboard.go.                                          *)
(*                                                                         *)
(* Add and Entries each run under the buffer's lock.  Times are whole      *)
(* seconds.                                                                *)
(***************************************************************************)
EXTENDS Selection

CONSTANTS
    Capacity,            \* entries the buffer keeps (500)
    NiceBucketDurations, \* widths a bar of the timeline may have
    BucketTarget,        \* timelineBucketTarget
    BucketMax,           \* timelineBucketMax
    LongestBar           \* the widest of them (24 h)

ASSUME CapacityAssumption == Capacity \in Nat \ {0}
ASSUME BarsAssumption ==
    /\ NiceBucketDurations \subseteq Nat \ {0}
    /\ LongestBar \in NiceBucketDurations
    /\ BucketTarget \in Nat \ {0} /\ BucketMax \in Nat \ {0}

VARIABLE buffer   \* LogBuffer.entries, the oldest first

\* LogEntry: hosts are the values of the fields host, hostname, origin and
\* cacheKey; status is that of a "request" entry.
Levels  == {"info", "warn", "error"}
LogEntry(Hosts, Codes) == [time : Nat, level : Levels, isRequest : BOOLEAN,
                           hosts : SUBSET Hosts, status : Codes]

InitBuffer == buffer = <<>>

\* The oldest makes room.
Add(e) ==
    buffer' = Append(IF Len(buffer) >= Capacity THEN Tail(buffer) ELSE buffer, e)

\* Mutant: only the level decides.
IsErrorLevel(e) == e.level = "error"

IsErrorLogEntry(e) ==
    e.level = "error" \/ (e.isRequest /\ (e.status = 0 \/ e.status >= 500))

-----------------------------------------------------------------------------
(* The page: scoped to a host (or to none, {}), then to a window of time.  *)

\* A time that the query does not give.
NoTime == -1

HostScoped(filterHost) ==
    Select(buffer, LAMBDA e : filterHost = {} \/ filterHost \cap e.hosts # {})

\* Mutant: the end of the window is in it.
RowsToTheEnd(es, from, to) ==
    LET Shown(e) == (from = NoTime \/ e.time >= from) /\ (to = NoTime \/ e.time <= to)
    IN  Reverse(Select(es, Shown))

\* The newest first, as the buffer has them.
Rows(es, from, to) ==
    LET Shown(e) == (from = NoTime \/ e.time >= from) /\ (to = NoTime \/ e.time < to)
    IN  Reverse(Select(es, Shown))

ChooseBucketDur(span) ==
    LET wide == {d \in NiceBucketDurations : d * BucketTarget >= span}
    IN IF wide = {} THEN LongestBar ELSE Min(wide)

\* Mutant: the first bar starts at the first entry.
GridUnaligned(es) ==
    LET times == {e.time : e \in Range(es)}
        dur   == ChooseBucketDur(Max(times) - Min(times))
        n     == (Max(times) - Min(times)) \div dur + 1
    IN [start |-> Min(times), dur |-> dur, bars |-> n]

\* Where the bars lie: as many as span the entries, the last BucketMax of them.
Grid(es) ==
    LET times == {e.time : e \in Range(es)}
        dur   == ChooseBucketDur(Max(times) - Min(times))
        first == Min(times) \div dur
        last  == Max(times) \div dur
        n     == Min({last + 1 - first, BucketMax})
    IN [start |-> (last + 1 - n) * dur, dur |-> dur, bars |-> n]

\* Fewer than two entries, or all within a second, are not plotted.
Plotted(es) == Len(es) >= 2 /\ \E d, e \in Range(es) : d.time # e.time

\* Where bar i of grid g begins and ends: the window a click on it selects.
Start(g, i) == g.start + (i - 1) * g.dur
End(g, i)   == g.start + i * g.dur

\* The bar an entry is counted in; 0 if it is before the first.
BarOf(e, g) == IF e.time < g.start THEN 0 ELSE (e.time - g.start) \div g.dur + 1

Counted(es, g, i) == Select(es, LAMBDA e : BarOf(e, g) = i)
Total(es, g, i)   == Len(Counted(es, g, i))
Errors(es, g, i)  == Len(Select(Counted(es, g, i), IsErrorLogEntry))

\* The bars that are marked when a window is selected.
Selected(g, i, from, to) == Start(g, i) < to /\ End(g, i) > from
=============================================================================
