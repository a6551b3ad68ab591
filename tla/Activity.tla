------------------------------- MODULE Activity -----------------------------
(***************************************************************************)
(* What the dashboard knows of the traffic: when a proxied request is      *)
(* through, the deferred function of ServeHTTP (handler.go) records it in  *)
(* the statistics and then logs it; the resolver, the tunnel and the       *)
(* handlers log other things meanwhile.                                    *)
(*                                                                         *)
(* zap stamps an entry with the time before its core takes the buffer's    *)
(* lock, so entries can be added in another order than that of their       *)
(* times.  A tick of the clock is a bucket of the statistics and, at       *)
(* another scale, a second of the log.                                     *)
(***************************************************************************)
EXTENDS RouteStats, LogBuffer

CONSTANT Notes   \* other things that are logged, once each

Loggers == Requests \cup Notes

ASSUME LoggersAssumption == Requests \cap Notes = {}

VARIABLES
    logPc,  \* logPc[l]: "silent", "stamped" or "logged"
    entry   \* entry[l]: the entry that l has stamped and not added yet

logs    == <<buffer, logPc, entry>>
allVars == <<vars, logs>>

NoEntry == [time |-> 0, level |-> "info", isRequest |-> FALSE, hosts |-> {},
            status |-> 0]

Entries == LogEntry(Hosts, Statuses \cup {0})

LogTypeOK ==
    /\ TypeOK
    /\ buffer \in Seq(Entries) /\ Len(buffer) <= Capacity
    /\ logPc \in [Loggers -> {"silent", "stamped", "logged"}]
    /\ entry \in [Loggers -> Entries]

AInit ==
    /\ Init
    /\ InitBuffer
    /\ logPc = [l \in Loggers |-> "silent"]
    /\ entry = [l \in Loggers |-> NoEntry]

-----------------------------------------------------------------------------

\* Check of the logger takes the time of an entry that is to be written.
Stamp(l, level, isRequest, hs, code) ==
    /\ logPc[l] = "silent"
    /\ entry' = [entry EXCEPT ![l] =
                   [time |-> clock, level |-> level, isRequest |-> isRequest,
                    hosts |-> hs, status |-> code]]
    /\ logPc' = [logPc EXCEPT ![l] = "stamped"]
    /\ UNCHANGED buffer

\* The request's own entry, once Record has returned.  Nobody looks at its
\* status again.
LogRequest(q) ==
    /\ pc[q] = "done"
    /\ Stamp(q, "info", TRUE, {host[q]}, statusCode[q])
    /\ statusCode' = [statusCode EXCEPT ![q] = 200]
    /\ UNCHANGED <<clock, routes, stats, mu, pc, host, now, object, scan, history>>

\* Any other entry, about one host or none; debug entries are not kept.
LogNote(n) ==
    /\ \E level \in {"info", "error"}, hs \in {{}} \cup {{h} : h \in Hosts} :
         Stamp(n, level, FALSE, hs, 0)
    /\ UNCHANGED vars

\* bufferCore.Write.
AddEntry(l) ==
    /\ logPc[l] = "stamped"
    /\ Add(entry[l])
    /\ entry' = [entry EXCEPT ![l] = NoEntry]
    /\ logPc' = [logPc EXCEPT ![l] = "logged"]
    /\ UNCHANGED vars

\* Bound: a behaviour has requests or other entries.
OneKind == \/ \A q \in Requests : pc[q] = "serving"
           \/ \A n \in Notes : logPc[n] = "silent"

ANext ==
    \/ Next /\ UNCHANGED logs /\ OneKind'
    \/ \E q \in Requests : LogRequest(q)
    \/ \E n \in Notes : LogNote(n) /\ OneKind'
    \/ \E l \in Loggers : AddEntry(l)

ASpec == AInit /\ [][ANext]_allVars

-----------------------------------------------------------------------------
(* Properties.                                                             *)

\* The filters of the page.
HostFilters == {{}} \cup {{h} : h \in Hosts}

\* The errors and requests that the statistics count for a host are those its
\* log shows, once they are logged, as long as the buffer still has them all
\* and the route was never dropped: both follow from one status, by two
\* conditions written in two files.
LogAgreesWithStats ==
    Cardinality({l \in Loggers : logPc[l] = "logged"}) <= Capacity =>
      \A h \in Hosts \ dropped :
        LET mine   == {q \in Requests : host[q] = h}
            logged == Select(buffer, LAMBDA e : e.isRequest /\ h \in e.hosts)
        IN /\ routes[h] # None
           /\ \A q \in mine : pc[q] = "done" => logPc[q] = "logged"
           => /\ stats[routes[h]].total  = Len(logged)
              /\ stats[routes[h]].errors = Len(Select(logged, IsErrorLogEntry))

\* A bar counts the rows and errors that the page shows when it is selected,
\* whatever host the page is scoped to. Every entry is in one bar, unless it is
\* before the first and there are as many bars as fit. In any other window, as an
\* older page may select, a bar that is not marked has none of the rows shown.
\* Bars count by an index, rows are chosen by their time, bars are marked by
\* overlap, and entries may be out of order.
BarsShowTheirRows ==
    \A f \in HostFilters :
      LET es   == HostScoped(f)
          g    == Grid(es)
          bars == 1..g.bars
      IN Plotted(es) =>
           /\ g.bars <= BucketMax
           /\ \A i \in bars :
                LET rows == Rows(es, Start(g, i), End(g, i))
                IN /\ Total(es, g, i) = Len(rows)
                   /\ Errors(es, g, i) = Len(Select(rows, IsErrorLogEntry))
           /\ SumFunctionOnSet([i \in bars |-> Total(es, g, i)], bars)
                = Len(Rows(es, IF g.bars < BucketMax THEN NoTime ELSE g.start, NoTime))
           /\ \A from \in Time, to \in Time, i \in bars :
                Selected(g, i, from, to)
                  \/ \A e \in Range(Rows(es, from, to)) : BarOf(e, g) # i

\* New entries do not move the bars: as long as bars keep their width, bars of
\* the timelines before and after that share an instant are the same
\* ("positions stay stable when new entries arrive").
BarsStayAligned ==
    [][\A f \in HostFilters :
         LET g == Grid(HostScoped(f))
             h == Grid(HostScoped(f)')
         IN /\ buffer # buffer'
            /\ Plotted(HostScoped(f)) /\ Plotted(HostScoped(f)')
            /\ g.dur = h.dur
            => (g.start - h.start) % g.dur = 0]_buffer
=============================================================================
