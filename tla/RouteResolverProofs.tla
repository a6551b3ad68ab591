------------------------- MODULE RouteResolverProofs ------------------------
(***************************************************************************)
(* Proofs about RouteResolver, for any sets of keys, requests and clients. *)
(***************************************************************************)
EXTENDS RouteResolver, TLAPS

\* A key has a call in flight exactly when one request leads it.
LeadersOwnFlights ==
    \A r \in Requests : pc[r] \in InFlight => flight[req[r].key] = r

FlightsHaveLeaders ==
    \A k \in Keys : flight[k] # None =>
        pc[flight[k]] \in InFlight /\ req[flight[k]].key = k

\* Nobody waits for a call that has left the group.
WaitersHaveFlights ==
    \A r \in Requests : pc[r] = "waiting" => flight[req[r].key] # None

\* What a leader stores is a mapping.
StoresAMapping == \A r \in Requests : pc[r] = "storing" => found[r] \in Mapping

IInv == /\ TypeOK
        /\ LeadersOwnFlights
        /\ FlightsHaveLeaders
        /\ WaitersHaveFlights
        /\ StoresAMapping

-----------------------------------------------------------------------------

LEMMA InitIInv == Init => IInv
<1> SUFFICES ASSUME Init PROVE IInv  OBVIOUS
<1>0. NoRequest \in [key : Keys, force : BOOLEAN, prompt : BOOLEAN]
  BY KeysAssumption DEF NoRequest
<1>1. TypeOK  BY <1>0 DEF Init, TypeOK, PCs
<1>2. /\ \A r \in Requests : pc[r] = "new"
      /\ \A k \in Keys : flight[k] = None
  BY DEF Init
<1> QED
  BY <1>1, <1>2 DEF IInv, LeadersOwnFlights, FlightsHaveLeaders,
     WaitersHaveFlights, StoresAMapping, InFlight

LEMMA ClientType ==
  ASSUME IInv, NEW r \in Requests, Client(r)
  PROVE  TypeOK'
<1> USE DEF IInv, TypeOK, Goto, PCs, history, flights, edits
<1>1. PICK k \in Keys, force \in BOOLEAN, prompt \in BOOLEAN :
        Arrive(r, k, force, prompt)
  BY DEF Client
<1>2. req' \in [Requests -> [key : Keys, force : BOOLEAN, prompt : BOOLEAN]]
  BY <1>1 DEF Arrive
<1>3. found' \in [Requests -> Mapping \cup {Failed, None}]  BY <1>1 DEF Arrive
<1>4. pc' \in [Requests -> PCs]
  <2>1. pc' = [pc EXCEPT ![r] = "resolved"] \/ pc' = [pc EXCEPT ![r] = "missed"]
    BY <1>1 DEF Arrive
  <2>2. pc \in [Requests -> PCs]  OBVIOUS
  <2> QED  BY <2>1, <2>2
<1>5. known' \in [Requests -> Nat]  BY <1>1 DEF Arrive
<1>6. selected' \in SUBSET Keys  BY <1>1 DEF Arrive
<1> QED  BY <1>1, <1>2, <1>3, <1>4, <1>5, <1>6 DEF Arrive

LEMMA ServeType ==
  ASSUME IInv, NEW r \in Requests, Serve(r)
  PROVE  TypeOK'
<1> USE DEF IInv, TypeOK, Goto, PCs, history, flights, edits
<1>0. req[r].key \in Keys  OBVIOUS
<1>1. CASE Do(r)  BY <1>0, <1>1 DEF Do
<1>2. CASE DoubleCheck(r)  BY <1>0, <1>2 DEF DoubleCheck
<1>3. CASE Heuristic(r)
  <2>1. Resolved("heuristic") \in Mapping  BY DEF Resolved, Mapping, Makers
  <2>2. found' \in [Requests -> Mapping \cup {Failed, None}]
    BY <1>3, <2>1 DEF Heuristic
  <2>3. pc' \in [Requests -> PCs]  BY <1>3 DEF Heuristic
  <2> QED  BY <1>3, <2>2, <2>3 DEF Heuristic
<1>4. CASE Answered(r)  BY <1>4 DEF Answered, Resolved, Mapping, Makers
<1>5. CASE NotAnswered(r)  BY <1>5 DEF NotAnswered
<1>6. CASE Store(r)
  <2>1. found[r] \in Mapping  BY <1>6 DEF Store, StoresAMapping
  <2>2. [found[r] EXCEPT !.at = clock + 1] \in Mapping  BY <2>1 DEF Mapping
  <2>3. found' = [found EXCEPT ![r] = [found[r] EXCEPT !.at = clock + 1]]
    BY <1>6 DEF Store
  <2>4. found'[r] \in Mapping  BY <2>2, <2>3
  <2>5. found' \in [Requests -> Mapping \cup {Failed, None}]  BY <2>2, <2>3
  <2>6. cache' \in [Keys -> Mapping \cup {None}]  BY <1>0, <1>6, <2>4 DEF Store
  <2> QED  BY <1>6, <2>5, <2>6 DEF Store
<1>7. CASE Finish(r)
  <2>1. found' \in [Requests -> Mapping \cup {Failed, None}]  BY <1>7 DEF Finish
  <2>2. pc' \in [Requests -> PCs]  BY <1>7 DEF Finish
  <2> QED  BY <1>0, <1>7, <2>1, <2>2 DEF Finish
<1>8. CASE Respond(r)
  <2>1. req' \in [Requests -> [key : Keys, force : BOOLEAN, prompt : BOOLEAN]]
    BY <1>8, KeysAssumption DEF Respond, NoRequest
  <2> QED  BY <1>8, <2>1 DEF Respond
<1> QED  BY <1>1, <1>2, <1>3, <1>4, <1>5, <1>6, <1>7, <1>8 DEF Serve

LEMMA EditType ==
  ASSUME TypeOK, NEW a \in Admins, NEW k \in Keys,
         NEW m \in Mapping \cup {None}, Edit(a, k, m)
  PROVE  TypeOK'
BY DEF Edit, TypeOK

LEMMA AdministerType ==
  ASSUME IInv, NEW a \in Admins, Administer(a)
  PROVE  TypeOK'
<1>1. TypeOK  BY DEF IInv
<1>2. ASSUME NEW k \in Keys, PutMapping(a, k) PROVE TypeOK'
  <2>1. [by |-> "manual", at |-> clock + 1] \in Mapping
    BY <1>1 DEF TypeOK, Mapping, Makers
  <2> QED  BY <1>1, <1>2, <2>1, EditType DEF PutMapping
<1>3. ASSUME NEW k \in Keys, DeleteMapping(a, k) PROVE TypeOK'
  BY <1>1, <1>3, EditType DEF DeleteMapping
<1>4. CASE EditSaved(a)
  <2>1. selected' \in SUBSET Keys  BY <1>1, <1>4 DEF EditSaved, TypeOK
  <2> QED  BY <1>1, <1>4, <2>1 DEF EditSaved, TypeOK, flights
<1>5. CASE EditNotSaved(a)
  BY <1>1, <1>5 DEF EditNotSaved, TypeOK, flights, history
<1> QED  BY <1>2, <1>3, <1>4, <1>5 DEF Administer, PickerSelect

-----------------------------------------------------------------------------
(* The singleflight group.                                                 *)

\* An edit of the cache and a new request leave the group alone.
LEMMA GroupUntouched ==
  ASSUME IInv, TypeOK',
         UNCHANGED flight,
         \A r \in Requests : pc'[r] \in InFlight \cup {"waiting"} =>
             pc'[r] = pc[r] /\ req'[r] = req[r] /\ found'[r] = found[r],
         \A r \in Requests : pc[r] \in InFlight => pc'[r] = pc[r]
  PROVE  IInv'
<1> USE DEF IInv, TypeOK
<1>1. LeadersOwnFlights'  BY DEF LeadersOwnFlights, InFlight
<1>2. FlightsHaveLeaders'
  <2> SUFFICES ASSUME NEW k \in Keys, flight[k] # None
               PROVE  pc'[flight[k]] \in InFlight /\ req'[flight[k]].key = k
    BY DEF FlightsHaveLeaders
  <2>1. flight[k] \in Requests  OBVIOUS
  <2>2. pc[flight[k]] \in InFlight /\ req[flight[k]].key = k
    BY DEF FlightsHaveLeaders
  <2> QED  BY <2>1, <2>2
<1>3. WaitersHaveFlights'  BY DEF WaitersHaveFlights
<1>4. StoresAMapping'  BY DEF StoresAMapping, InFlight
<1> QED  BY <1>1, <1>2, <1>3, <1>4

LEMMA ClientKeepsIInv ==
  ASSUME IInv, NEW r \in Requests, Client(r)
  PROVE  IInv'
<1>1. TypeOK'  BY ClientType
<1>2. PICK k \in Keys, force \in BOOLEAN, prompt \in BOOLEAN :
        Arrive(r, k, force, prompt)
  BY DEF Client
<1>3. UNCHANGED flight  BY <1>2 DEF Arrive, flights
<1>4. pc[r] = "new" /\ pc'[r] \in {"missed", "resolved"}
  BY <1>2 DEF IInv, TypeOK, Arrive, Goto
<1>5. \A s \in Requests : s # r =>
        pc'[s] = pc[s] /\ req'[s] = req[s] /\ found'[s] = found[s]
  BY <1>2 DEF IInv, TypeOK, Arrive, Goto
<1> QED  BY <1>1, <1>3, <1>4, <1>5, GroupUntouched DEF InFlight

\* The leader moves on within its call.
LEMMA LeaderStepKeepsIInv ==
  ASSUME IInv, NEW r \in Requests,
         DoubleCheck(r) \/ Heuristic(r) \/ Answered(r) \/ NotAnswered(r) \/ Store(r)
  PROVE  IInv'
<1> USE DEF IInv, TypeOK
<1>1. TypeOK'  BY ServeType DEF Serve
<1>2. pc[r] \in InFlight /\ pc'[r] \in InFlight
  BY DEF DoubleCheck, Heuristic, Answered, NotAnswered, Store, Goto, InFlight
<1>3. \A s \in Requests : s # r => pc'[s] = pc[s] /\ found'[s] = found[s]
  BY DEF DoubleCheck, Heuristic, Answered, NotAnswered, Store, Goto
<1>4. UNCHANGED <<flight, req>>
  BY DEF DoubleCheck, Heuristic, Answered, NotAnswered, Store, flights
<1>5. LeadersOwnFlights'  BY <1>2, <1>3, <1>4 DEF LeadersOwnFlights
<1>6. FlightsHaveLeaders'  BY <1>2, <1>3, <1>4 DEF FlightsHaveLeaders
<1>7. WaitersHaveFlights'
  BY <1>2, <1>3, <1>4 DEF WaitersHaveFlights, InFlight
<1>8. pc'[r] = "storing" => found'[r] \in Mapping
  BY DEF DoubleCheck, Heuristic, Answered, NotAnswered, Store, Goto, Resolved,
         Mapping, Makers
<1>9. StoresAMapping'  BY <1>3, <1>8 DEF StoresAMapping
<1> QED  BY <1>1, <1>5, <1>6, <1>7, <1>9

LEMMA DoKeepsIInv ==
  ASSUME IInv, NEW r \in Requests, Do(r)
  PROVE  IInv'
<1> USE DEF IInv, TypeOK
<1>1. TypeOK'  BY ServeType DEF Serve
<1>2. UNCHANGED <<req, found>> /\ pc[r] = "missed" /\ req[r].key \in Keys
  BY DEF Do
<1>3. \A s \in Requests : s # r => pc'[s] = pc[s]  BY DEF Do, Goto
<1>4. CASE flight[req[r].key] = None
  <2>1. flight' = [flight EXCEPT ![req[r].key] = r] /\ pc'[r] = "leading"
    BY <1>4 DEF Do, Goto
  <2>2. LeadersOwnFlights'
    BY <1>2, <1>3, <1>4, <2>1, NoneAssumption DEF LeadersOwnFlights
  <2>3. FlightsHaveLeaders'
    BY <1>2, <1>3, <2>1 DEF FlightsHaveLeaders, InFlight
  <2>4. WaitersHaveFlights'
    BY <1>2, <1>3, <2>1, NoneAssumption DEF WaitersHaveFlights
  <2>5. StoresAMapping'  BY <1>2, <1>3, <2>1 DEF StoresAMapping
  <2> QED  BY <1>1, <2>2, <2>3, <2>4, <2>5
<1>5. CASE flight[req[r].key] # None
  <2>1. UNCHANGED flight /\ pc'[r] = "waiting"  BY <1>5 DEF Do, Goto
  <2>2. LeadersOwnFlights'
    BY <1>2, <1>3, <2>1 DEF LeadersOwnFlights, InFlight
  <2>3. FlightsHaveLeaders'
    BY <1>2, <1>3, <2>1 DEF FlightsHaveLeaders, InFlight
  <2>4. WaitersHaveFlights'
    BY <1>2, <1>3, <1>5, <2>1 DEF WaitersHaveFlights
  <2>5. StoresAMapping'  BY <1>2, <1>3, <2>1 DEF StoresAMapping
  <2> QED  BY <1>1, <2>2, <2>3, <2>4, <2>5
<1> QED  BY <1>4, <1>5

\* When a call ends its waiters leave with it.
LEMMA FinishKeepsIInv ==
  ASSUME IInv, NEW r \in Requests, Finish(r)
  PROVE  IInv'
<1> USE DEF IInv, TypeOK
<1> DEFINE k == req[r].key
           shared == {s \in Requests : pc[s] = "waiting" /\ req[s].key = k}
<1>1. TypeOK'  BY ServeType DEF Serve
<1>2. /\ pc[r] = "finishing" /\ req' = req /\ k \in Keys
      /\ flight' = [flight EXCEPT ![k] = None]
  BY DEF Finish
<1>3. \A s \in Requests : IF s \in shared \cup {r}
                            THEN pc'[s] = "resolved"
                            ELSE pc'[s] = pc[s] /\ found'[s] = found[s]
  BY DEF Finish
<1>4. flight[k] = r  BY <1>2 DEF LeadersOwnFlights, InFlight
<1>5. LeadersOwnFlights'
  <2> SUFFICES ASSUME NEW s \in Requests, pc'[s] \in InFlight
               PROVE  flight'[req[s].key] = s
    BY <1>2 DEF LeadersOwnFlights
  <2>1. s # r /\ pc[s] \in InFlight  BY <1>3 DEF InFlight
  <2>2. flight[req[s].key] = s /\ req[s].key # k
    BY <1>4, <2>1 DEF LeadersOwnFlights
  <2> QED  BY <1>2, <2>2
<1>6. FlightsHaveLeaders'
  <2> SUFFICES ASSUME NEW j \in Keys, flight'[j] # None
               PROVE  pc'[flight'[j]] \in InFlight /\ req[flight'[j]].key = j
    BY <1>2 DEF FlightsHaveLeaders
  <2>1. j # k /\ flight'[j] = flight[j]  BY <1>2
  <2>2. pc[flight[j]] \in InFlight /\ req[flight[j]].key = j
    BY <2>1 DEF FlightsHaveLeaders
  <2>3. flight[j] \in Requests \ (shared \cup {r})
    BY <2>1, <2>2 DEF InFlight
  <2> QED  BY <1>3, <2>1, <2>2, <2>3
<1>7. WaitersHaveFlights'
  <2> SUFFICES ASSUME NEW s \in Requests, pc'[s] = "waiting"
               PROVE  flight'[req[s].key] # None
    BY <1>2 DEF WaitersHaveFlights
  <2>1. s \notin shared \cup {r} /\ pc[s] = "waiting"  BY <1>3
  <2>2. req[s].key # k  BY <2>1
  <2> QED  BY <1>2, <2>1, <2>2 DEF WaitersHaveFlights
<1>8. StoresAMapping'  BY <1>3 DEF StoresAMapping
<1> QED  BY <1>1, <1>5, <1>6, <1>7, <1>8

LEMMA RespondKeepsIInv ==
  ASSUME IInv, NEW r \in Requests, Respond(r)
  PROVE  IInv'
<1>1. TypeOK'  BY ServeType DEF Serve
<1>2. UNCHANGED flight /\ pc[r] = "resolved" /\ pc'[r] = "done"
  BY DEF IInv, TypeOK, Respond, Goto, flights
<1>3. \A s \in Requests : s # r =>
        pc'[s] = pc[s] /\ req'[s] = req[s] /\ found'[s] = found[s]
  BY DEF IInv, TypeOK, Respond, Goto
<1> QED  BY <1>1, <1>2, <1>3, GroupUntouched DEF InFlight

LEMMA AdministerKeepsIInv ==
  ASSUME IInv, NEW a \in Admins, Administer(a)
  PROVE  IInv'
<1>1. TypeOK'  BY AdministerType
<1>2. UNCHANGED <<flight, pc, req, found>>
  BY DEF Administer, PutMapping, DeleteMapping, PickerSelect, Edit, EditSaved,
         EditNotSaved, flights
<1> QED  BY <1>1, <1>2, GroupUntouched

LEMMA IInvInductive == ASSUME IInv, [Next]_vars PROVE IInv'
<1>1. CASE \E r \in Requests : Serve(r)
  BY <1>1, DoKeepsIInv, LeaderStepKeepsIInv, FinishKeepsIInv, RespondKeepsIInv
     DEF Serve
<1>2. CASE \E r \in Requests : Client(r)  BY <1>2, ClientKeepsIInv
<1>3. CASE \E a \in Admins : Administer(a)  BY <1>3, AdministerKeepsIInv
<1>4. CASE UNCHANGED vars
  BY <1>4 DEF IInv, TypeOK, LeadersOwnFlights, FlightsHaveLeaders,
     WaitersHaveFlights, StoresAMapping, vars, history, edits
<1> QED  BY <1>1, <1>2, <1>3, <1>4 DEF Next

-----------------------------------------------------------------------------

\* The invariant of the group, which the two theorems below follow from.
THEOREM GroupInvariant == Spec => []IInv
BY InitIInv, IInvInductive, PTL DEF Spec

\* Concurrent requests for one key cause one resolution.
THEOREM ResolvedOnce == Spec => []OneResolutionPerKey
<1>1. IInv => OneResolutionPerKey
  BY DEF IInv, LeadersOwnFlights, OneResolutionPerKey
<1> QED  BY <1>1, GroupInvariant, PTL

\* No follower is left waiting for a leader that has gone.
THEOREM WaitersAreLed == Spec => []WaitersHaveALeader
<1>1. IInv => WaitersHaveALeader
  BY DEF IInv, TypeOK, WaitersHaveFlights, FlightsHaveLeaders, WaitersHaveALeader
<1> QED  BY <1>1, GroupInvariant, PTL
-----------------------------------------------------------------------------
(* How old an answer may be.                                               *)

\* A mapping in the cache carries the stamp of the last write of its key, and a
\* request knows of no later one.
StampsInOrder ==
    /\ \A k \in Keys : /\ lastEdit[k] <= clock
                       /\ cache[k] # None => cache[k].at = lastEdit[k]
    /\ \A r \in Requests : known[r] <= lastEdit[req[r].key]

\* A leader that looked again found nothing, unless it was forced: what is in the
\* cache came later.
LeadersLooked ==
    \A r \in Requests :
        /\ looked[r] # None =>
             /\ looked[r] <= clock
             /\ pc[r] \in {"resolving", "asking", "storing", "finishing", "resolved"}
        /\ pc[r] \in {"resolving", "asking", "storing"} =>
             /\ looked[r] \in Nat /\ looked[r] <= clock
             /\ ~req[r].force /\ cache[req[r].key] # None
                  => cache[req[r].key].at > looked[r]
        /\ pc[r] = "storing" /\ req[r].force /\ req[r].key \in Hosts
             => found[r].by = "llm"

\* An answer is no older than what its request knows, nor, if it was forced, than
\* its own look.
AnswersKnow ==
    \A r \in Requests :
        pc[r] \in {"finishing", "resolved"} /\ found[r] # Failed =>
            /\ found[r] \in Mapping
            /\ known[r] <= found[r].at /\ found[r].at <= clock
            /\ req[r].force /\ looked[r] # None =>
                 /\ found[r].at > looked[r]
                 /\ req[r].key \in Hosts => found[r].by = "llm"

\* Nor than what the requests know that share it, or may come to.
FollowersKnow ==
    \A r, s \in Requests :
        /\ pc[s] = "finishing" /\ found[s] # Failed
        /\ pc[r] \in {"missed", "waiting"} /\ req[r].key = req[s].key
        => known[r] <= found[s].at

AInv == /\ IInv
        /\ StampsInOrder
        /\ LeadersLooked
        /\ AnswersKnow
        /\ FollowersKnow
        /\ LeaderStoresItsAnswer
-----------------------------------------------------------------------------

LEMMA InitAInv == Init => AInv
<1> SUFFICES ASSUME Init PROVE AInv  OBVIOUS
<1>1. IInv  BY InitIInv
<1>2. /\ \A r \in Requests : pc[r] = "new" /\ looked[r] = None /\ known[r] = 0
      /\ \A k \in Keys : cache[k] = None /\ lastEdit[k] = 0
      /\ clock = 0
  BY DEF Init
<1>3. StampsInOrder  BY <1>1, <1>2 DEF StampsInOrder, IInv, TypeOK
<1>4. LeadersLooked  BY <1>2 DEF LeadersLooked
<1> QED
  BY <1>1, <1>2, <1>3, <1>4 DEF AInv, AnswersKnow, FollowersKnow,
     LeaderStoresItsAnswer

\* A request's first look at the cache.
LEMMA ArriveKeepsAInv ==
  ASSUME AInv, IInv', NEW r \in Requests, NEW k \in Keys, NEW force \in BOOLEAN,
         NEW prompt \in BOOLEAN, Arrive(r, k, force, prompt)
  PROVE  AInv'
<1> USE DEF AInv, IInv, TypeOK
<1>1. /\ pc[r] = "new" /\ pc'[r] \in {"missed", "resolved"}
      /\ req'[r] = [key |-> k, force |-> force, prompt |-> prompt]
      /\ known'[r] = IF flight[k] = None THEN lastEdit[k] ELSE 0
      /\ pc'[r] = "resolved" => cache[k] # None /\ found'[r] = cache[k]
  BY DEF Arrive, Goto
<1>2. \A s \in Requests : s # r =>
        /\ pc'[s] = pc[s] /\ req'[s] = req[s]
        /\ known'[s] = known[s] /\ found'[s] = found[s]
  BY DEF Arrive, Goto
<1>3. UNCHANGED <<cache, flight, clock, lastEdit, looked>>
  BY DEF Arrive, flights
<1>4. looked[r] = None  BY <1>1 DEF LeadersLooked
<1>5. StampsInOrder'  BY <1>1, <1>2, <1>3 DEF StampsInOrder
<1>6. LeadersLooked'  BY <1>1, <1>2, <1>3, <1>4 DEF LeadersLooked
<1>7. AnswersKnow'
  <2> SUFFICES ASSUME NEW s \in Requests, pc'[s] \in {"finishing", "resolved"},
                      found'[s] # Failed
               PROVE  /\ found'[s] \in Mapping
                      /\ known'[s] <= found'[s].at /\ found'[s].at <= clock
                      /\ req'[s].force /\ looked[s] # None =>
                           /\ found'[s].at > looked[s]
                           /\ req'[s].key \in Hosts => found'[s].by = "llm"
    BY <1>3 DEF AnswersKnow
  <2>1. CASE s # r  BY <2>1, <1>2 DEF AnswersKnow
  <2>2. CASE s = r
    <3>1. found'[r] = cache[k] /\ cache[k] # None  BY <1>1, <2>2
    <3>2. cache[k].at = lastEdit[k] /\ lastEdit[k] <= clock
      BY <3>1 DEF StampsInOrder
    <3> QED  BY <1>1, <1>4, <2>2, <3>1, <3>2
  <2> QED  BY <2>1, <2>2
<1>8. FollowersKnow'
  <2> SUFFICES ASSUME NEW q \in Requests, NEW s \in Requests,
                      pc'[s] = "finishing", found'[s] # Failed,
                      pc'[q] \in {"missed", "waiting"}, req'[q].key = req'[s].key
               PROVE  known'[q] <= found'[s].at
    BY DEF FollowersKnow
  <2>1. s # r  BY <1>1
  <2>2. /\ pc[s] = "finishing" /\ found[s] # Failed /\ found'[s] = found[s]
        /\ req'[s] = req[s]
    BY <1>2, <2>1
  <2>3. CASE q # r  BY <1>2, <2>2, <2>3 DEF FollowersKnow
  <2>4. CASE q = r
    <3>1. flight[k] = s
      BY <1>1, <2>2, <2>4 DEF LeadersOwnFlights, InFlight
    <3>2. known'[r] = 0  BY <1>1, <3>1, NoneAssumption
    <3>3. known[s] <= found[s].at /\ found[s] \in Mapping
      BY <2>2 DEF AnswersKnow
    <3> QED  BY <2>2, <2>4, <3>2, <3>3 DEF Mapping
  <2> QED  BY <2>3, <2>4
<1>9. LeaderStoresItsAnswer'
  BY <1>1, <1>2, <1>3 DEF LeaderStoresItsAnswer
<1> QED  BY <1>5, <1>6, <1>7, <1>8, <1>9

\* Entering the group, and the answer that leaves it.
LEMMA DoKeepsAInv ==
  ASSUME AInv, IInv', NEW r \in Requests, Do(r)
  PROVE  AInv'
<1> USE DEF AInv, IInv, TypeOK
<1>1. /\ pc[r] = "missed" /\ pc'[r] \in {"leading", "waiting"}
      /\ \A s \in Requests : s # r => pc'[s] = pc[s]
  BY DEF Do, Goto
<1>2. UNCHANGED <<cache, req, found, clock, lastEdit, known, looked>>
  BY DEF Do, history
<1>3. looked[r] = None  BY <1>1 DEF LeadersLooked
<1>4. StampsInOrder'  BY <1>2 DEF StampsInOrder
<1>5. LeadersLooked'  BY <1>1, <1>2, <1>3 DEF LeadersLooked
<1>6. AnswersKnow'  BY <1>1, <1>2 DEF AnswersKnow
<1>7. FollowersKnow'  BY <1>1, <1>2 DEF FollowersKnow
<1>8. LeaderStoresItsAnswer'  BY <1>1, <1>2 DEF LeaderStoresItsAnswer
<1> QED  BY <1>4, <1>5, <1>6, <1>7, <1>8

LEMMA FinishKeepsAInv ==
  ASSUME AInv, IInv', NEW r \in Requests, Finish(r)
  PROVE  AInv'
<1> USE DEF AInv, IInv, TypeOK
<1> DEFINE shared == {s \in Requests : pc[s] = "waiting" /\ req[s].key = req[r].key}
<1>1. pc[r] = "finishing"  BY DEF Finish
<1>2. UNCHANGED <<cache, req, clock, lastEdit, known, looked>>
  BY DEF Finish, history
<1>3. \A s \in Requests :
        /\ pc'[s] = IF s \in shared \cup {r} THEN "resolved" ELSE pc[s]
        /\ found'[s] = IF s \in shared THEN found[r] ELSE found[s]
  BY DEF Finish
<1>4. \A s \in shared : looked[s] = None /\ pc[s] = "waiting"
  BY DEF LeadersLooked
<1>5. StampsInOrder'  BY <1>2 DEF StampsInOrder
<1>6. LeadersLooked'  BY <1>1, <1>2, <1>3, <1>4 DEF LeadersLooked
<1>7. AnswersKnow'
  <2> SUFFICES ASSUME NEW s \in Requests, pc'[s] \in {"finishing", "resolved"},
                      found'[s] # Failed
               PROVE  /\ found'[s] \in Mapping
                      /\ known[s] <= found'[s].at /\ found'[s].at <= clock
                      /\ req[s].force /\ looked[s] # None =>
                           /\ found'[s].at > looked[s]
                           /\ req[s].key \in Hosts => found'[s].by = "llm"
    BY <1>2 DEF AnswersKnow
  <2>1. CASE s \notin shared  BY <1>1, <1>3, <2>1 DEF AnswersKnow
  <2>2. CASE s \in shared
    <3>1. found'[s] = found[r] /\ found[r] # Failed  BY <1>3, <2>2
    <3>2. found[r] \in Mapping /\ found[r].at <= clock
      BY <1>1, <3>1 DEF AnswersKnow
    <3>3. known[s] <= found[r].at  BY <1>1, <2>2, <3>1 DEF FollowersKnow
    <3> QED  BY <1>4, <2>2, <3>1, <3>2, <3>3
  <2> QED  BY <2>1, <2>2
<1>8. FollowersKnow'  BY <1>1, <1>2, <1>3 DEF FollowersKnow
<1>9. LeaderStoresItsAnswer'  BY <1>1, <1>2, <1>3 DEF LeaderStoresItsAnswer
<1> QED  BY <1>5, <1>6, <1>7, <1>8, <1>9

\* The leader's second look.
LEMMA DoubleCheckKeepsAInv ==
  ASSUME AInv, IInv', NEW r \in Requests, DoubleCheck(r)
  PROVE  AInv'
<1> USE DEF AInv, IInv, TypeOK
<1> DEFINE k == req[r].key
<1>1. /\ pc[r] = "leading" /\ pc'[r] \in {"finishing", "resolving"}
      /\ looked'[r] = clock
      /\ pc'[r] = "finishing" => /\ cache[k] # None /\ ~req[r].force
                                 /\ found'[r] = cache[k]
      /\ pc'[r] = "resolving" => cache[k] = None \/ req[r].force
  BY DEF DoubleCheck, Goto
<1>2. \A s \in Requests : s # r =>
        pc'[s] = pc[s] /\ found'[s] = found[s] /\ looked'[s] = looked[s]
  BY DEF DoubleCheck, Goto
<1>3. UNCHANGED <<cache, flight, req, clock, lastEdit, known>>
  BY DEF DoubleCheck, flights
<1>4. cache[k] # None => cache[k] \in Mapping /\ cache[k].at = lastEdit[k]
  BY DEF StampsInOrder
<1>5. lastEdit[k] <= clock /\ \A s \in Requests : req[s].key = k => known[s] <= lastEdit[k]
  BY DEF StampsInOrder
<1>6. StampsInOrder'  BY <1>3 DEF StampsInOrder
<1>7. LeadersLooked'  BY SMTT(20), <1>1, <1>2, <1>3 DEF LeadersLooked
<1>8. AnswersKnow'  BY <1>1, <1>2, <1>3, <1>4, <1>5 DEF AnswersKnow
<1>9. FollowersKnow'  BY <1>1, <1>2, <1>3, <1>4, <1>5 DEF FollowersKnow
<1>10. LeaderStoresItsAnswer'  BY SMTT(20), <1>1, <1>2, <1>3 DEF LeaderStoresItsAnswer
<1> QED  BY <1>6, <1>7, <1>8, <1>9, <1>10

\* The chain: a mapping to store, or a failure.
LEMMA ChainKeepsAInv ==
  ASSUME AInv, IInv', NEW r \in Requests,
         Heuristic(r) \/ Answered(r) \/ NotAnswered(r)
  PROVE  AInv'
<1> USE DEF AInv, IInv, TypeOK
<1>1. /\ pc[r] \in {"resolving", "asking"}
      /\ pc'[r] \in {"asking", "storing", "finishing"}
      /\ pc'[r] = "finishing" => found'[r] = Failed
  BY DEF Heuristic, Answered, NotAnswered, Goto
<1>2. pc'[r] = "storing" /\ req[r].force /\ req[r].key \in Hosts
        => found'[r].by = "llm"
  BY KeysAssumption
     DEF Heuristic, Answered, NotAnswered, Goto, SkipHeuristic, Resolved
<1>3. \A s \in Requests : s # r => pc'[s] = pc[s] /\ found'[s] = found[s]
  BY DEF Heuristic, Answered, NotAnswered, Goto
<1>4. UNCHANGED <<cache, flight, req, clock, lastEdit, known, looked>>
  BY DEF Heuristic, Answered, NotAnswered, flights, history
<1>5. StampsInOrder'  BY <1>4 DEF StampsInOrder
<1>6. LeadersLooked'  BY <1>1, <1>2, <1>3, <1>4 DEF LeadersLooked
<1>7. AnswersKnow'  BY <1>1, <1>3, <1>4 DEF AnswersKnow
<1>8. FollowersKnow'  BY <1>1, <1>3, <1>4 DEF FollowersKnow
<1>9. LeaderStoresItsAnswer'
  BY <1>1, <1>3, <1>4 DEF LeaderStoresItsAnswer
<1> QED  BY <1>5, <1>6, <1>7, <1>8, <1>9

\* A write of k gets a stamp later than all the requests saw.
LEMMA WriteKeepsOrder ==
  ASSUME AInv, NEW k \in Keys,
         clock' = clock + 1,
         lastEdit' = [lastEdit EXCEPT ![k] = clock + 1],
         \A j \in Keys : j # k => cache'[j] = cache[j],
         cache'[k] # None => cache'[k].at = clock + 1,
         UNCHANGED <<req, known>>
  PROVE  StampsInOrder'
BY DEF AInv, IInv, TypeOK, StampsInOrder

LEMMA EditKeepsAInv ==
  ASSUME AInv, IInv', NEW a \in Admins, NEW k \in Keys, NEW m,
         m # None => m.at = clock + 1, Edit(a, k, m)
  PROVE  AInv'
<1> USE DEF AInv, IInv, TypeOK
<1>1. /\ clock' = clock + 1 /\ lastEdit' = [lastEdit EXCEPT ![k] = clock + 1]
      /\ \A j \in Keys : j # k => cache'[j] = cache[j]
      /\ cache'[k] # None => cache'[k].at = clock + 1
      /\ UNCHANGED <<req, known, looked, pc, found>>
  BY DEF Edit
<1>2. StampsInOrder'  BY <1>1, WriteKeepsOrder
<1>3. LeadersLooked'  BY <1>1 DEF LeadersLooked
<1>4. AnswersKnow'  BY <1>1 DEF AnswersKnow, Mapping
<1>5. FollowersKnow'  BY <1>1 DEF FollowersKnow
<1>6. LeaderStoresItsAnswer'
  <2> SUFFICES ASSUME NEW s \in Requests, pc[s] = "finishing", found[s] # Failed,
                      lastEdit'[req[s].key] <= found[s].at
               PROVE  cache'[req[s].key] = found[s]
    BY <1>1 DEF LeaderStoresItsAnswer
  <2>1. found[s] \in Mapping /\ found[s].at <= clock  BY DEF AnswersKnow
  <2>2. req[s].key # k  BY <1>1, <2>1 DEF Mapping
  <2> QED  BY <1>1, <2>2 DEF LeaderStoresItsAnswer
<1> QED  BY <1>2, <1>3, <1>4, <1>5, <1>6

LEMMA StoreKeepsAInv ==
  ASSUME AInv, IInv', NEW r \in Requests, Store(r)
  PROVE  AInv'
<1> USE DEF AInv, IInv, TypeOK
<1> DEFINE k == req[r].key
<1>1. /\ pc[r] = "storing" /\ pc'[r] = "finishing"
      /\ \A s \in Requests : s # r => pc'[s] = pc[s] /\ found'[s] = found[s]
      /\ clock' = clock + 1 /\ lastEdit' = [lastEdit EXCEPT ![k] = clock + 1]
      /\ cache' = [cache EXCEPT ![k] = found'[r]]
      /\ UNCHANGED <<flight, req, known, looked>>
  BY DEF Store, Goto
<1>2. found[r] \in Mapping  BY <1>1 DEF StoresAMapping
<1>3. found'[r] = [found[r] EXCEPT !.at = clock + 1]  BY DEF Store
<1>4. /\ found'[r] \in Mapping
      /\ found'[r].at = clock + 1 /\ found'[r].by = found[r].by
  BY SMTT(20), <1>2, <1>3 DEF Mapping
<1>5. cache'[k] = found'[r]  BY <1>1
<1>6. StampsInOrder'  BY <1>1, <1>4, <1>5, WriteKeepsOrder
<1>7. \A s \in Requests : s # r /\ pc[s] \in InFlight => req[s].key # k
  BY <1>1 DEF LeadersOwnFlights, InFlight
<1>8. LeadersLooked'
  BY <1>1, <1>4, <1>7 DEF LeadersLooked, InFlight
<1>9. AnswersKnow'
  <2>1. known[r] <= clock  BY DEF StampsInOrder
  <2>2. looked[r] <= clock /\ looked[r] \in Nat  BY <1>1 DEF LeadersLooked
  <2>3. req[r].force /\ req[r].key \in Hosts => found[r].by = "llm"
    BY <1>1 DEF LeadersLooked
  <2> QED  BY <1>1, <1>4, <2>1, <2>2, <2>3 DEF AnswersKnow, Mapping
<1>10. FollowersKnow'
  <2>1. \A s \in Requests : known[s] <= clock  BY DEF StampsInOrder
  <2> QED  BY <1>1, <1>4, <2>1 DEF FollowersKnow
<1>11. LeaderStoresItsAnswer'
  BY <1>1, <1>5, <1>7 DEF LeaderStoresItsAnswer, InFlight
<1> QED  BY <1>6, <1>8, <1>9, <1>10, <1>11

\* Steps that end a request or an edit.
LEMMA EndKeepsAInv ==
  ASSUME AInv, IInv',
         UNCHANGED <<cache, clock, lastEdit>>,
         \A s \in Requests :
            \/ /\ pc'[s] = pc[s] /\ req'[s] = req[s] /\ found'[s] = found[s]
               /\ known'[s] = known[s] /\ looked'[s] = looked[s]
            \/ pc'[s] = "done" /\ known'[s] = 0 /\ looked'[s] = None
  PROVE  AInv'
<1> USE DEF AInv, IInv, TypeOK
<1>1. StampsInOrder'  BY DEF StampsInOrder
<1>2. LeadersLooked'  BY SMTT(20) DEF LeadersLooked
<1>3. AnswersKnow'  BY DEF AnswersKnow
<1>4. FollowersKnow'  BY DEF FollowersKnow
<1>5. LeaderStoresItsAnswer'  BY DEF LeaderStoresItsAnswer
<1> QED  BY <1>1, <1>2, <1>3, <1>4, <1>5

LEMMA AInvInductive == ASSUME AInv, [Next]_vars PROVE AInv'
<1>1. IInv'  BY IInvInductive DEF AInv
<1>2. ASSUME NEW r \in Requests, Serve(r) PROVE AInv'
  <2>1. CASE Respond(r)
    BY <1>1, <2>1, EndKeepsAInv DEF Respond, Goto, AInv, IInv, TypeOK, flights
  <2> QED
    BY <1>1, <1>2, <2>1, DoKeepsAInv, DoubleCheckKeepsAInv, ChainKeepsAInv,
       StoreKeepsAInv, FinishKeepsAInv DEF Serve
<1>3. ASSUME NEW r \in Requests, Client(r) PROVE AInv'
  BY <1>1, <1>3, ArriveKeepsAInv DEF Client
<1>4. ASSUME NEW a \in Admins, Administer(a) PROVE AInv'
  <2>1. ASSUME NEW k \in Keys, PutMapping(a, k) PROVE AInv'
    BY <1>1, <2>1, EditKeepsAInv DEF PutMapping
  <2>2. ASSUME NEW k \in Keys, DeleteMapping(a, k) PROVE AInv'
    BY <1>1, <2>2, EditKeepsAInv DEF DeleteMapping
  <2>3. CASE EditSaved(a) \/ EditNotSaved(a)
    BY <1>1, <2>3, EndKeepsAInv DEF EditSaved, EditNotSaved, flights, history
  <2> QED  BY <1>4, <2>1, <2>2, <2>3 DEF Administer, PickerSelect
<1>5. CASE UNCHANGED vars
  BY <1>1, <1>5, EndKeepsAInv DEF vars, flights, history
<1> QED  BY <1>2, <1>3, <1>4, <1>5 DEF Next

-----------------------------------------------------------------------------

\* Answers are as recent as their requests may expect.
THEOREM AnswersInvariant == Spec => []AInv
BY InitAInv, AInvInductive, PTL DEF Spec

\* Nobody is answered with what was edited away before it came, unless a call for
\* its key was running then.
THEOREM NobodyIsStale == Spec => []NoStaleAnswer
<1>1. AInv => NoStaleAnswer  BY DEF AInv, AnswersKnow, NoStaleAnswer
<1> QED  BY <1>1, AnswersInvariant, PTL

\* ?force makes its leader resolve anew.
THEOREM ForceResolves == Spec => []ForcedLeaderResolves
<1>1. AInv => ForcedLeaderResolves
  BY DEF AInv, AnswersKnow, ForcedLeaderResolves
<1> QED  BY <1>1, AnswersInvariant, PTL

\* What a call answers is what it stored.
THEOREM AnswersAreStored == Spec => []LeaderStoresItsAnswer
<1>1. AInv => LeaderStoresItsAnswer  BY DEF AInv
<1> QED  BY <1>1, AnswersInvariant, PTL

\* A resolution overwrites only what was written while it ran.
THEOREM OverwritesAreRaces == Spec => OverwritesOnlyOverlapping
<1> DEFINE A == \A r \in Requests : pc[r] = "storing" /\ pc'[r] = "finishing" =>
                  LET old == cache[req[r].key] IN
                    req[r].force \/ old = None \/ old.at > looked[r]
<1>1. AInv => A  BY DEF AInv, LeadersLooked
<1>2. OverwritesOnlyOverlapping <=> [][A]_vars  BY DEF OverwritesOnlyOverlapping
<1> QED  BY <1>1, <1>2, AnswersInvariant, PTL
=============================================================================
