---------------------------- MODULE RouteResolver ---------------------------
(***************************************************************************)
(* How a proxied request gets its mapping: ServeHTTP and                   *)
(* handleSecondLevelProxy of llm_resolver/handler.go, with the             *)
(* singleflight group that lets one request (the leader) resolve a cache   *)
(* key for all who ask meanwhile, running against the mappings API and the *)
(* picker, which change the same cache without the group.                  *)
(*                                                                         *)
(* A mapping is abstracted to who made it and a stamp that orders writes   *)
(* of the cache.  What discovery, the heuristic and the LLM find is a      *)
(* choice; what the chain does with it is not.                             *)
(***************************************************************************)
EXTENDS Integers, FiniteSets

CONSTANTS
    Hosts,      \* cache keys of first-level requests: "<hostname>"
    Related,    \* cache keys of /_proxy/ requests: "<origin>:<service>"
    Requests,   \* proxied requests; each arrives once
    Admins,     \* clients of the mappings API and of the picker; each makes
                \* one change
    None        \* no mapping, no flight, no answer yet, no change pending

Keys == Hosts \cup Related

ASSUME KeysAssumption  == Keys # {} /\ Hosts \cap Related = {}
ASSUME NoneAssumption  == None \notin Requests

Makers  == {"heuristic", "llm", "manual"}
Mapping == [by : Makers, at : Nat]
Failed  == [by |-> "nobody", at |-> 0]

\* A request before it is read and after it is answered.
NoRequest == [key |-> CHOOSE k \in Keys : TRUE, force |-> FALSE, prompt |-> FALSE]

VARIABLES
    llmAvailable, \* API key set and LLM routing on: fixed when provisioned
    cache,        \* cache[k]: the mapping of k, or None
    flight,       \* flight[k]: the leader of the singleflight call, or None
    pc,           \* pc[r]: where request r is
    req,          \* req[r]: its key and its ?force and ?prompt
    found,        \* found[r]: what r resolved, or was given, or Failed
    edit,         \* edit[a]: key and stamp of the change client a waits for, or None
    idle,         \* the clients that have not asked for their change yet
    clock,        \* history: number of cache writes so far
    lastEdit,     \* history: lastEdit[k], stamp of the last write of key k
    known,        \* history: known[r], the last write of its key before r
                  \* arrived, 0 if a call for the key was in flight then
    looked,       \* history: looked[r], the last write of any key before r
                  \* looked again as a leader, or None
    selected      \* history: keys whose manual mapping was acknowledged and
                  \* which nobody has edited or forced since

flights == <<cache, flight>>
history == <<clock, lastEdit, known, looked, selected>>
edits   == <<edit, idle>>
vars == <<llmAvailable, cache, flight, pc, req, found, edits, history>>

PCs == {"new", "missed", "leading", "resolving", "asking", "storing",
        "finishing", "waiting", "resolved", "done"}

\* The leader owns the key's singleflight call at these places.
InFlight == {"leading", "resolving", "asking", "storing", "finishing"}

TypeOK ==
    /\ llmAvailable \in BOOLEAN
    /\ cache \in [Keys -> Mapping \cup {None}]
    /\ flight \in [Keys -> Requests \cup {None}]
    /\ pc \in [Requests -> PCs]
    /\ req \in [Requests -> [key : Keys, force : BOOLEAN, prompt : BOOLEAN]]
    /\ found \in [Requests -> Mapping \cup {Failed, None}]
    /\ idle \in SUBSET Admins
    /\ edit \in [Admins -> [key : Keys, at : Nat] \cup {None}]
    /\ clock \in Nat
    /\ lastEdit \in [Keys -> Nat]
    /\ known \in [Requests -> Nat]
    /\ looked \in [Requests -> Nat \cup {None}]
    /\ selected \in SUBSET Keys

Init ==
    /\ llmAvailable \in BOOLEAN
    /\ cache = [k \in Keys |-> None]
    /\ flight = [k \in Keys |-> None]
    /\ pc = [r \in Requests |-> "new"]
    /\ req = [r \in Requests |-> NoRequest]
    /\ edit = [a \in Admins |-> None]
    /\ idle = Admins
    /\ found = [r \in Requests |-> None]
    /\ clock = 0
    /\ lastEdit = [k \in Keys |-> 0]
    /\ known = [r \in Requests |-> 0]
    /\ looked = [r \in Requests |-> None]
    /\ selected = {}

Goto(r, l) == pc' = [pc EXCEPT ![r] = l]

-----------------------------------------------------------------------------
(* A proxied request.                                                      *)

\* The request is read and, without ?force, the cache is looked up.
Arrive(r, k, force, prompt) ==
    /\ pc[r] = "new"
    /\ req' = [req EXCEPT ![r] = [key |-> k, force |-> force, prompt |-> prompt]]
    /\ IF ~force /\ cache[k] # None
         THEN found' = [found EXCEPT ![r] = cache[k]] /\ Goto(r, "resolved")
         ELSE UNCHANGED found /\ Goto(r, "missed")
    /\ known' = [known EXCEPT ![r] = IF flight[k] = None THEN lastEdit[k] ELSE 0]
    /\ selected' = IF force THEN selected \ {k} ELSE selected
    /\ UNCHANGED <<llmAvailable, flights, edits, clock, lastEdit, looked>>

\* Mutant: every request that misses the cache resolves for itself.
DoWithoutGroup(r) ==
    /\ pc[r] = "missed"
    /\ flight' = [flight EXCEPT ![req[r].key] = r]
    /\ Goto(r, "leading")
    /\ UNCHANGED <<llmAvailable, cache, req, found, edits, history>>

\* Mutant: the group keeps a call until its leader has responded, and joins
\* later requests to it.
DoJoinsFinished(r) ==
    /\ pc[r] = "missed"
    /\ LET k == req[r].key
           over == {s \in Requests : pc[s] = "resolved" /\ req[s].key = k}
       IN \/ /\ \E s \in over : found' = [found EXCEPT ![r] = found[s]]
             /\ Goto(r, "resolved")
             /\ UNCHANGED flight
          \/ /\ over = {}
             /\ UNCHANGED found
             /\ IF flight[k] = None
                  THEN flight' = [flight EXCEPT ![k] = r] /\ Goto(r, "leading")
                  ELSE UNCHANGED flight /\ Goto(r, "waiting")
    /\ UNCHANGED <<llmAvailable, cache, req, edits, history>>

\* resolveGroup.Do: the first to ask for a key leads, the others wait.
Do(r) ==
    /\ pc[r] = "missed"
    /\ LET k == req[r].key IN
         IF flight[k] = None
           THEN flight' = [flight EXCEPT ![k] = r] /\ Goto(r, "leading")
           ELSE UNCHANGED flight /\ Goto(r, "waiting")
    /\ UNCHANGED <<llmAvailable, cache, req, found, edits, history>>

\* Mutant: the leader does not look again.
DoubleCheckDropped(r) ==
    /\ pc[r] = "leading"
    /\ looked' = [looked EXCEPT ![r] = clock]
    /\ Goto(r, "resolving")
    /\ UNCHANGED <<llmAvailable, flights, req, found, edits, clock, lastEdit,
                   known, selected>>

\* Mutant: the leader takes a cached mapping in spite of ?force.
DoubleCheckIgnoresForce(r) ==
    /\ pc[r] = "leading"
    /\ LET cached == cache[req[r].key] IN
         IF cached # None
           THEN found' = [found EXCEPT ![r] = cached] /\ Goto(r, "finishing")
           ELSE UNCHANGED found /\ Goto(r, "resolving")
    /\ looked' = [looked EXCEPT ![r] = clock]
    /\ UNCHANGED <<llmAvailable, flights, req, edits, clock, lastEdit,
                   known, selected>>

\* Another request may just have finished: the leader looks again.
DoubleCheck(r) ==
    /\ pc[r] = "leading"
    /\ LET cached == cache[req[r].key] IN
         IF cached # None /\ ~req[r].force
           THEN found' = [found EXCEPT ![r] = cached] /\ Goto(r, "finishing")
           ELSE UNCHANGED found /\ Goto(r, "resolving")
    /\ looked' = [looked EXCEPT ![r] = clock]
    /\ UNCHANGED <<llmAvailable, flights, req, edits, clock, lastEdit,
                   known, selected>>

\* A mapping being resolved gets its stamp when it is stored.
Resolved(maker) == [by |-> maker, at |-> 0]

\* ?force and ?prompt override a previous answer, which the heuristic would
\* reproduce; a related service has no picker to fall back on, so without an
\* LLM it runs the heuristic all the same.
SkipHeuristic(r) ==
    /\ req[r].force \/ req[r].prompt
    /\ req[r].key \in Related => llmAvailable

\* resolveTargetChain and resolveRelatedChain up to the heuristic's result.
Heuristic(r) ==
    /\ pc[r] = "resolving"
    /\ \/ /\ ~SkipHeuristic(r)
          /\ found' = [found EXCEPT ![r] = Resolved("heuristic")]
          /\ Goto(r, "storing")
       \/ /\ llmAvailable
          /\ Goto(r, "asking")
          /\ UNCHANGED found
       \/ /\ ~llmAvailable                                      \* errNoLLM
          /\ found' = [found EXCEPT ![r] = Failed]
          /\ Goto(r, "finishing")
    /\ UNCHANGED <<llmAvailable, flights, req, edits, history>>

\* callLLM answers with a mapping that validates.
Answered(r) ==
    /\ pc[r] = "asking"
    /\ found' = [found EXCEPT ![r] = Resolved("llm")]
    /\ Goto(r, "storing")
    /\ UNCHANGED <<llmAvailable, flights, req, edits, history>>

\* An API error, an answer that does not validate, the 30s timeout of the
\* HTTP client, or the cancelled context of a leader whose client has left:
\* followers share the error, and a follower's own client makes no difference.
NotAnswered(r) ==
    /\ pc[r] = "asking"
    /\ found' = [found EXCEPT ![r] = Failed]
    /\ Goto(r, "finishing")
    /\ UNCHANGED <<llmAvailable, flights, req, edits, history>>

\* Mutant: Set keeps a mapping that is already there.
StoreIfAbsent(r) ==
    /\ pc[r] = "storing"
    /\ found' = [found EXCEPT ![r].at = clock + 1]
    /\ cache' = [cache EXCEPT ![req[r].key] = IF @ = None THEN found'[r] ELSE @]
    /\ clock' = clock + 1
    /\ lastEdit' = [lastEdit EXCEPT ![req[r].key] = clock + 1]
    /\ Goto(r, "finishing")
    /\ UNCHANGED <<llmAvailable, flight, req, edits, known, looked,
                   selected>>

\* cache.Set by the leader; a failed Save is only logged.
Store(r) ==
    /\ pc[r] = "storing"
    /\ found' = [found EXCEPT ![r].at = clock + 1]
    /\ cache' = [cache EXCEPT ![req[r].key] = found'[r]]
    /\ clock' = clock + 1
    /\ lastEdit' = [lastEdit EXCEPT ![req[r].key] = clock + 1]
    /\ Goto(r, "finishing")
    /\ UNCHANGED <<llmAvailable, flight, req, edits, known, looked,
                   selected>>

\* Mutant: the call leaves the group without waking its followers.
FinishForgetsFollowers(r) ==
    /\ pc[r] = "finishing"
    /\ Goto(r, "resolved")
    /\ flight' = [flight EXCEPT ![req[r].key] = None]
    /\ UNCHANGED <<llmAvailable, cache, req, found, edits, history>>

\* The call leaves the group and its result goes to everyone waiting for it.
Finish(r) ==
    /\ pc[r] = "finishing"
    /\ LET shared == {s \in Requests : /\ pc[s] = "waiting"
                                       /\ req[s].key = req[r].key}
       IN /\ found' = [s \in Requests |-> IF s \in shared THEN found[r] ELSE found[s]]
          /\ pc' = [s \in Requests |->
                      IF s \in shared \cup {r} THEN "resolved" ELSE pc[s]]
    /\ flight' = [flight EXCEPT ![req[r].key] = None]
    /\ UNCHANGED <<llmAvailable, cache, req, edits, history>>

\* The mapping is proxied to, or the failure is answered with the picker or
\* with a 502; what the handler knew goes with it.
Respond(r) ==
    /\ pc[r] = "resolved"
    /\ Goto(r, "done")
    /\ req' = [req EXCEPT ![r] = NoRequest]
    /\ found' = [found EXCEPT ![r] = None]
    /\ known' = [known EXCEPT ![r] = 0]
    /\ looked' = [looked EXCEPT ![r] = None]
    /\ UNCHANGED <<llmAvailable, flights, edits, clock, lastEdit, selected>>

-----------------------------------------------------------------------------
(* The mappings API and the picker: cache.Set or cache.Delete, then Save.  *)

Forcing(k) == \E r \in Requests : /\ pc[r] \notin {"new", "resolved", "done"}
                                  /\ req[r].key = k
                                  /\ req[r].force

Edit(a, k, mapping) ==
    /\ a \in idle
    /\ idle' = idle \ {a}
    /\ cache' = [cache EXCEPT ![k] = mapping]
    /\ clock' = clock + 1
    /\ lastEdit' = [lastEdit EXCEPT ![k] = clock + 1]
    /\ edit' = [edit EXCEPT ![a] = [key |-> k, at |-> clock + 1]]
    /\ selected' = selected \ {k}
    /\ UNCHANGED <<llmAvailable, flight, pc, req, found, known, looked>>

PutMapping(a, k)    == Edit(a, k, [by |-> "manual", at |-> clock + 1])
DeleteMapping(a, k) == Edit(a, k, None)

\* The picker's form is only accepted for a hostname.
PickerSelect(a, k) == k \in Hosts /\ PutMapping(a, k)

\* Save returns nil and the client is told so.
EditSaved(a) ==
    /\ edit[a] # None
    /\ edit' = [edit EXCEPT ![a] = None]
    /\ LET k == edit[a].key IN
         selected' = IF /\ cache[k] = [by |-> "manual", at |-> edit[a].at]
                        /\ ~Forcing(k)
                       THEN selected \cup {k} ELSE selected
    /\ UNCHANGED <<llmAvailable, flights, pc, req, found, idle, clock, lastEdit,
                   known, looked>>

\* Save fails: the client gets a 500, the map in memory stays as changed.
EditNotSaved(a) ==
    /\ edit[a] # None
    /\ edit' = [edit EXCEPT ![a] = None]
    /\ UNCHANGED <<llmAvailable, flights, pc, req, found, idle, history>>

-----------------------------------------------------------------------------
Serve(r) ==
    \/ Do(r) \/ DoubleCheck(r) \/ Heuristic(r)
    \/ Answered(r) \/ NotAnswered(r)
    \/ Store(r) \/ Finish(r) \/ Respond(r)

\* With ?force a ?prompt changes what the LLM reads, and nothing else.
Client(r) ==
    \E k \in Keys, force, prompt \in BOOLEAN :
        ~(force /\ prompt) /\ Arrive(r, k, force, prompt)

Administer(a) ==
    \/ \E k \in Keys : PutMapping(a, k) \/ DeleteMapping(a, k) \/ PickerSelect(a, k)
    \/ EditSaved(a) \/ EditNotSaved(a)

Next ==
    \/ \E r \in Requests : Serve(r) \/ Client(r)
    \/ \E a \in Admins : Administer(a)

Spec == Init /\ [][Next]_vars

\* Handler goroutines run, and the LLM call ends within its HTTP timeout.
Fairness == \A r \in Requests : WF_vars(Serve(r))

FairSpec == Spec /\ Fairness

-----------------------------------------------------------------------------
(* Properties.                                                             *)

\* At most one request at a time resolves a key, however many asked for it:
\* one discovery and one LLM call ("deduplicate concurrent requests").
OneResolutionPerKey ==
    \A r, s \in Requests :
        /\ pc[r] \in InFlight /\ pc[s] \in InFlight
        /\ req[r].key = req[s].key
        => r = s

\* A request that waits has a leader still at work on its key, so its answer
\* will come.
WaitersHaveALeader ==
    \A r \in Requests : pc[r] = "waiting" =>
        \E s \in Requests : /\ flight[req[r].key] = s
                            /\ pc[s] \in InFlight
                            /\ req[s].key = req[r].key

\* A resolution nobody forced replaces no mapping that was there when its
\* leader looked again: only one written while it ran.
OverwritesOnlyOverlapping ==
    [][\A r \in Requests : pc[r] = "storing" /\ pc'[r] = "finishing" =>
         LET old == cache[req[r].key] IN
           req[r].force \/ old = None \/ old.at > looked[r]]_vars

\* A forced request that leads its own call is answered with a mapping
\* resolved after it asked, and a hostname's by the LLM (resolveTargetChain:
\* the heuristic "would just reproduce the mapping they're trying to replace").
ForcedLeaderResolves ==
    \A r \in Requests :
        /\ pc[r] = "resolved" /\ req[r].force /\ looked[r] # None
        /\ found[r] # Failed
        => /\ found[r].at > looked[r]
           /\ req[r].key \in Hosts => found[r].by = "llm"

\* A request that arrived while no call for its key was running is answered
\* with nothing older than the last PUT, DELETE, selection or resolution that
\* preceded it.
NoStaleAnswer ==
    \A r \in Requests :
        pc[r] = "resolved" /\ found[r] # Failed => found[r].at >= known[r]

\* The cache and the answers of one call agree: what the leader stored, or
\* found stored, is what its followers get, unless the key was edited since.
LeaderStoresItsAnswer ==
    \A r \in Requests :
        /\ pc[r] = "finishing" /\ found[r] # Failed
        /\ lastEdit[req[r].key] <= found[r].at
        => cache[req[r].key] = found[r]

\* Every request that arrives is answered, leader or follower, whether or not
\* clients leave and whatever the LLM does.
EveryRequestAnswered ==
    \A r \in Requests : (pc[r] # "new") ~> (pc[r] = "done")

\* "The mapping is saved and used for all future requests": a manual mapping
\* stays until somebody edits or forces its key.
SelectionStands ==
    \A k \in selected : cache[k] # None /\ cache[k].by = "manual"
=============================================================================
