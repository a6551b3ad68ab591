------------------------------ MODULE RouteStats ----------------------------
(***************************************************************************)
(* The dashboard's request statistics: llm_resolver/route_stats.go and     *)
(* status_writer.go, driven by the deferred Record of ServeHTTP.           *)
(*                                                                         *)
(* StatsTracker.mu guards the map of routes, each routeStats has a mutex   *)
(* of its own, and Record lets go of the first before it takes the second. *)
(* A routeStats object is named after the request that created it.         *)
(* One tick of the clock is one bucket.                                    *)
(***************************************************************************)
EXTENDS Selection

CONSTANTS
    Hosts,      \* hostnames
    Requests,   \* proxied requests; each is recorded once
    MaxRoutes,  \* statsMaxHostnames
    Buckets,    \* statsBuckets
    MaxTime,    \* bound: ticks
    None        \* no route, no request holding t.mu, nothing scanned

ASSUME RoutesAssumption  == MaxRoutes \in Nat \ {0}
ASSUME BucketsAssumption == Buckets \in Nat \ {0}
ASSUME TimeAssumption    == MaxTime \in Nat
ASSUME FiniteAssumption  == IsFiniteSet(Hosts) /\ IsFiniteSet(Requests)
ASSUME NoneAssumption    == None \notin Hosts \cup Requests \cup Nat

VARIABLES
    clock,   \* time.Now in buckets
    routes,  \* routes[h]: the routeStats of h in the map, or None
    stats,   \* stats[o]: the counters of object o
    mu,      \* the request that holds StatsTracker.mu while it evicts
    pc,      \* pc[q]: where request q is
    host,    \* host[q]: its hostname
    statusCode, \* statusCode[q]: of its statusWriter
    now,     \* now[q]: time.Now when Record began
    object,  \* object[q]: the routeStats Record found or created
    scan,    \* scan[q]: what evictOldestLocked has looked at so far
    events,  \* history: events[o][t], requests recorded in object o that
             \* were finished at t
    failed,  \* history: failed[q], whether the client got a 5xx
    dropped  \* history: hosts whose route was ever evicted or forgotten

locals  == <<pc, host, statusCode, now, object, scan>>
history == <<events, failed, dropped>>
vars == <<clock, routes, stats, mu, locals, history>>

-----------------------------------------------------------------------------
(* The next handler answers through the statusWriter.                      *)

\* Write, among the codes of WriteHeader.
Body == 0

\* What a handler may do with its ResponseWriter: 103 and other 1xx headers,
\* one final header or more (the rest is ignored by net/http), or just a body.
Calls == {<<>>, <<Body>>, <<200>>, <<502>>, <<103, 200>>, <<103, 502>>,
          <<Body, 502>>, <<200, 502>>}

\* The status the client sees: of the first final header, 200 for a body.
ClientStatus(calls) ==
    LET final == Select(calls, LAMBDA c : c # 103) IN
      IF final = <<>> \/ final[1] = Body THEN 200 ELSE final[1]

\* Mutant: a later WriteHeader overwrites the status.
LatchLast(w, c) == IF c = Body THEN w ELSE [w EXCEPT !.statusCode = c]

\* WriteHeader keeps the first code, a 1xx too; Write keeps 200.
Latch(w, c) ==
    IF c = Body \/ w.written THEN [w EXCEPT !.written = TRUE]
                               ELSE [statusCode |-> c, written |-> TRUE]

Captured(calls) ==
    LET w[i \in 0..Len(calls)] ==
          IF i = 0 THEN [statusCode |-> 200, written |-> FALSE]
                   ELSE Latch(w[i - 1], calls[i])
    IN  w[Len(calls)].statusCode

\* The codes that a statusWriter may hold.
Statuses == {200} \cup {Captured(calls) : calls \in Calls}

-----------------------------------------------------------------------------
Bucket   == [requests : Nat, errors : Nat, idx : Int]
Counters == [buckets : [0..Buckets - 1 -> Bucket], total : Nat, errors : Nat,
             lastSeen : Int]
Time     == 0..MaxTime
PCs      == {"serving", "stamped", "evicting", "creating", "found", "done"}

\* The zero routeStats: its lastSeen is before every time.
NewStats == [buckets |-> [i \in 0..Buckets - 1 |->
                            [requests |-> 0, errors |-> 0, idx |-> -1]],
             total |-> 0, errors |-> 0, lastSeen |-> -1]

NoScan == [seen |-> {}, oldest |-> None, at |-> -1]

TypeOK ==
    /\ clock \in Time
    /\ routes \in [Hosts -> Requests \cup {None}]
    /\ stats \in [Requests -> Counters]
    /\ mu \in Requests \cup {None}
    /\ pc \in [Requests -> PCs]
    /\ host \in [Requests -> Hosts]
    /\ statusCode \in [Requests -> Statuses]
    /\ now \in [Requests -> Time]
    /\ object \in [Requests -> Requests \cup {None}]
    /\ scan \in [Requests -> [seen : SUBSET Hosts, oldest : Hosts \cup {None},
                              at : Int]]
    /\ events \in [Requests -> [Time -> Nat]]
    /\ failed \in [Requests -> BOOLEAN]
    /\ dropped \in SUBSET Hosts

Init ==
    /\ clock = 0
    /\ routes = [h \in Hosts |-> None]
    /\ stats = [q \in Requests |-> NewStats]
    /\ mu = None
    /\ pc = [q \in Requests |-> "serving"]
    /\ host \in [Requests -> Hosts]
    /\ statusCode = [q \in Requests |-> 200]
    /\ now = [q \in Requests |-> 0]
    /\ object = [q \in Requests |-> None]
    /\ scan = [q \in Requests |-> NoScan]
    /\ events = [q \in Requests |-> [t \in Time |-> 0]]
    /\ failed = [q \in Requests |-> FALSE]
    /\ dropped = {}

Goto(q, l) == pc' = [pc EXCEPT ![q] = l]
Mapped == {h \in Hosts : routes[h] # None}

\* next.ServeHTTP returns, with an answer or with an error that Caddy turns
\* into a 5xx once ServeHTTP is through; the deferred Record takes the time.
Serve(q) ==
    /\ pc[q] = "serving"
    /\ \E calls \in Calls :
         /\ statusCode' = [statusCode EXCEPT ![q] = Captured(calls)]
         /\ \E handlerErr \in BOOLEAN :
              /\ handlerErr => calls = <<>>
              /\ failed' = [failed EXCEPT ![q] =
                              handlerErr \/ ClientStatus(calls) >= 500]
    /\ now' = [now EXCEPT ![q] = clock]
    /\ Goto(q, "stamped")
    /\ UNCHANGED <<clock, routes, stats, mu, host, object, scan, events, dropped>>

-----------------------------------------------------------------------------
(* Record.                                                                 *)

\* Mutant: the map is never full.
LookupNeverEvicts(q) ==
    /\ pc[q] = "stamped"
    /\ mu = None
    /\ \/ /\ routes[host[q]] # None
          /\ object' = [object EXCEPT ![q] = routes[host[q]]]
          /\ Goto(q, "found")
          /\ UNCHANGED mu
       \/ /\ routes[host[q]] = None
          /\ mu' = q
          /\ Goto(q, "creating")
          /\ UNCHANGED object
    /\ UNCHANGED <<clock, routes, stats, host, statusCode, now, scan, history>>

\* Mutant: t.mu is released between the lookup and the insertion.
LookupUnlocks(q) ==
    /\ pc[q] = "stamped"
    /\ mu = None
    /\ \/ /\ routes[host[q]] # None
          /\ object' = [object EXCEPT ![q] = routes[host[q]]]
          /\ Goto(q, "found")
       \/ /\ routes[host[q]] = None
          /\ Goto(q, IF Cardinality(Mapped) >= MaxRoutes THEN "evicting" ELSE "creating")
          /\ UNCHANGED object
    /\ UNCHANGED <<clock, routes, stats, mu, host, statusCode, now, scan, history>>

\* The route is in the map, or t.mu is kept until it is.
Lookup(q) ==
    /\ pc[q] = "stamped"
    /\ mu = None
    /\ \/ /\ routes[host[q]] # None
          /\ object' = [object EXCEPT ![q] = routes[host[q]]]
          /\ Goto(q, "found")
          /\ UNCHANGED mu
       \/ /\ routes[host[q]] = None
          /\ mu' = q
          /\ Goto(q, IF Cardinality(Mapped) >= MaxRoutes THEN "evicting" ELSE "creating")
          /\ UNCHANGED object
    /\ UNCHANGED <<clock, routes, stats, host, statusCode, now, scan, history>>

\* evictOldestLocked reads one lastSeen at a time, in any order; their owners
\* may record meanwhile.
Scan(q) ==
    /\ pc[q] = "evicting"
    /\ \E h \in Mapped \ scan[q].seen :
         LET last == stats[routes[h]].lastSeen
             seen == scan[q].seen \cup {h}
         IN scan' = [scan EXCEPT ![q] =
                       IF @.oldest = None \/ last < @.at
                         THEN [seen |-> seen, oldest |-> h, at |-> last]
                         ELSE [@ EXCEPT !.seen = seen]]
    /\ UNCHANGED <<clock, routes, stats, mu, pc, host, statusCode, now, object, history>>

Evict(q) ==
    /\ pc[q] = "evicting"
    /\ Mapped = scan[q].seen
    /\ routes' = [routes EXCEPT ![scan[q].oldest] = None]
    /\ dropped' = dropped \cup {scan[q].oldest}
    /\ scan' = [scan EXCEPT ![q] = NoScan]
    /\ Goto(q, "creating")
    /\ UNCHANGED <<clock, stats, mu, host, statusCode, now, object, events, failed>>

Create(q) ==
    /\ pc[q] = "creating"
    /\ routes' = [routes EXCEPT ![host[q]] = q]
    /\ object' = [object EXCEPT ![q] = q]
    /\ mu' = None
    /\ Goto(q, "found")
    /\ UNCHANGED <<clock, stats, host, statusCode, now, scan, history>>

\* slotFor(bucketIndex(t)); stale slots are zeroed on their first write.
Slot(t) == t % Buckets

\* Mutant: a slot is taken over with what is in it.
NotZeroed(b, t) == [b EXCEPT !.idx = t]

Zeroed(b, t) == IF b.idx # t THEN [requests |-> 0, errors |-> 0, idx |-> t] ELSE b

\* What Record counts as an error.
IsErr(code) == code = 0 \/ code >= 500

ErrorCount(q) == IF IsErr(statusCode[q]) THEN 1 ELSE 0

\* routeStats.record, under its own mutex.
RecordEvent(q) ==
    /\ pc[q] = "found"
    /\ LET o == object[q]
           t == now[q]
           b == Zeroed(stats[o].buckets[Slot(t)], t)
       IN /\ stats' = [stats EXCEPT ![o] =
                [buckets  |-> [@.buckets EXCEPT ![Slot(t)] =
                                 [b EXCEPT !.requests = @ + 1,
                                           !.errors = @ + ErrorCount(q)]],
                 total    |-> @.total + 1,
                 errors   |-> @.errors + ErrorCount(q),
                 lastSeen |-> t]]
          /\ events' = [events EXCEPT ![o][t] = @ + 1]
    /\ Goto(q, "done")
    /\ failed' = [failed EXCEPT ![q] = FALSE]
    /\ now' = [now EXCEPT ![q] = 0]
    /\ object' = [object EXCEPT ![q] = None]
    /\ UNCHANGED <<clock, routes, mu, host, statusCode, scan, dropped>>

Record(q) ==
    Lookup(q) \/ Scan(q) \/ Evict(q) \/ Create(q) \/ RecordEvent(q)

\* DELETE of a mapping drops its statistics.
Forget(h) ==
    /\ mu = None
    /\ routes[h] # None
    /\ routes' = [routes EXCEPT ![h] = None]
    /\ dropped' = dropped \cup {h}
    /\ UNCHANGED <<clock, stats, mu, locals, events, failed>>

\* Bound: a Record is through within the window it is counted in (300 s).
Tick ==
    /\ clock < MaxTime
    /\ \A q \in Requests : pc[q] \in {"stamped", "evicting", "creating", "found"}
                             => clock - now[q] < Buckets - 1
    /\ clock' = clock + 1
    /\ UNCHANGED <<routes, stats, mu, locals, history>>

Next ==
    \/ \E q \in Requests : Serve(q) \/ Record(q)
    \/ \E h \in Hosts : Forget(h)
    \/ Tick

Spec == Init /\ [][Next]_vars

-----------------------------------------------------------------------------
(* What the dashboard shows: routeStats.snapshot.                          *)

\* The buckets whose slot still holds them, of the last statsBuckets.
Live(o) ==
    {t \in clock - Buckets + 1 .. clock : t >= 0 /\ stats[o].buckets[Slot(t)].idx = t}

WindowReq(o) ==
    SumFunctionOnSet([t \in Live(o) |-> stats[o].buckets[Slot(t)].requests], Live(o))
WindowErr(o) ==
    SumFunctionOnSet([t \in Live(o) |-> stats[o].buckets[Slot(t)].errors], Live(o))

-----------------------------------------------------------------------------
(* Properties.                                                             *)

\* The map never tracks more than statsMaxHostnames hosts.
RoutesBounded == Cardinality(Mapped) <= MaxRoutes

\* The window shown for a route counts exactly the requests recorded in it
\* that finished in its last statsBuckets buckets: no slot shows what an older
\* bucket left in it, and none loses a late Record.
WindowIsExact ==
    \A o \in Requests :
        LET window == {t \in clock - Buckets + 1 .. clock : t >= 0} IN
          /\ WindowReq(o) = SumFunctionOnSet(events[o], window)
          /\ WindowErr(o) <= WindowReq(o) /\ WindowReq(o) <= stats[o].total

\* The total of a host that was never evicted or forgotten is the number of
\* its requests that finished, however their Records interleaved.
NoRequestLost ==
    \A h \in Hosts \ dropped :
        LET finished == {q \in Requests : host[q] = h /\ pc[q] = "done"} IN
          IF routes[h] = None THEN finished = {}
                              ELSE stats[routes[h]].total = Cardinality(finished)

\* No request is counted as an error whose client got something else than a
\* 5xx.
ErrorsAreReal ==
    \A q \in Requests : pc[q] # "done" /\ IsErr(statusCode[q]) => failed[q]
=============================================================================
