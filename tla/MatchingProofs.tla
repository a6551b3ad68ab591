---------------------------- MODULE MatchingProofs ---------------------------
(***************************************************************************)
(* Proofs about ServiceMatching and Discovery, for any finite set of       *)
(* sockets and of containers, any hostnames, services and patterns, and    *)
(* every order in which the tools may list what there is.                  *)
(***************************************************************************)
EXTENDS Discovery, FunctionTheorems, FoldLemmas

\* An order has every element of its set, at one place.
LEMMA OrdersCover ==
  ASSUME NEW S, IsFiniteSet(S), NEW seq \in Orders(S)
  PROVE  /\ seq \in Seq(S) /\ Range(seq) = S /\ Len(seq) = Cardinality(S)
         /\ \A i, j \in DOMAIN seq : seq[i] = seq[j] => i = j
<1> DEFINE n == Cardinality(S)
<1>1. n \in Nat
  BY FS_CardinalityType
<1>2. seq \in [1..n -> S] /\ \A i, j \in 1..n : seq[i] = seq[j] => i = j
  BY DEF Orders, SetToSeqs
<1>3. seq \in Injection(1..n, S)
  BY <1>2, Fun_IsInj
<1>4. IsFiniteSet(1..n) /\ Cardinality(1..n) = n
  BY <1>1, FS_Interval
<1>5. seq \in Surjection(1..n, S)
  BY <1>3, <1>4, FS_Injection
<1>6. \A x \in S : \E i \in 1..n : seq[i] = x
  BY <1>5 DEF Surjection
<1>7. Range(seq) = S
  BY <1>2, <1>6 DEF Range
<1>8. seq \in Seq(S) /\ Len(seq) = n
  BY <1>1, <1>2
<1> QED
  BY <1>2, <1>7, <1>8

\* Every finite set can be put into an order.
LEMMA OrdersExist ==
  ASSUME NEW S, IsFiniteSet(S)
  PROVE  Orders(S) # {}
<1> DEFINE n == Cardinality(S)
<1>1. PICK f : f \in Bijection(1..n, S)
  BY FS_CardinalityType DEF ExistsBijection
<1>2. f \in [1..n -> S] /\ \A i, j \in 1..n : f[i] = f[j] => i = j
  BY <1>1, Fun_BijectionProperties
<1>3. f \in Orders(S)
  BY <1>2 DEF Orders, SetToSeqs
<1> QED
  BY <1>3

\* The roots of a list, as a set.
RootsOf(S) == {l \in S : Kept(l) /\ \A k \in S : Kept(k) => k.pid # l.ppid}

\* The two filters leave the roots.
LEMMA RootsAre ==
  ASSUME NEW B, NEW seq \in Seq(B)
  PROVE  Roots(seq) \in Seq(B) /\ Range(Roots(seq)) = RootsOf(Range(seq))
<1> DEFINE kept == Select(seq, Kept)
           wanted == {l \in B : Kept(l)}
           pids == {kept[i].pid : i \in DOMAIN kept}
           roots == {l \in B : l.ppid \notin pids}
<1>1. Range(seq) \subseteq B
  BY DEF Range
<1>2. kept \in Seq(B) /\ Range(kept) = Range(seq) \cap wanted
  <2> DEFINE I == {i \in DOMAIN seq : Kept(seq[i])}
  <2>1. I = {i \in DOMAIN seq : seq[i] \in wanted}
    OBVIOUS
  <2>2. At(seq, I) \in Seq(B) /\ Range(At(seq, I)) = Range(seq) \cap wanted
    <3> HIDE DEF I, wanted
    <3> QED
      BY <2>1, SelectRange
  <2> QED
    BY <2>2 DEF Select
<1> HIDE DEF kept
<1>3. pids = {k.pid : k \in Range(kept)}
  BY DEF Range
<1>4. Roots(seq) = At(kept, {i \in DOMAIN kept : kept[i].ppid \notin pids})
  BY DEF Roots, Select, kept
<1>5. Roots(seq) \in Seq(B) /\ Range(Roots(seq)) = Range(kept) \cap roots
  <2> DEFINE I == {i \in DOMAIN kept : kept[i].ppid \notin pids}
  <2>1. I = {i \in DOMAIN kept : kept[i] \in roots}
    BY <1>2
  <2>2. At(kept, I) \in Seq(B) /\ Range(At(kept, I)) = Range(kept) \cap roots
    <3>1. kept \in Seq(B)
      BY <1>2
    <3> HIDE DEF I, roots
    <3> QED
      BY <2>1, <3>1, SelectRange
  <2> QED
    BY <2>2, <1>4
<1>6. Range(kept) \cap roots = RootsOf(Range(seq))
  BY <1>1, <1>2, <1>3 DEF RootsOf
<1> QED
  BY <1>5, <1>6

\* The process that is left of a list of roots is the best of its pid.
BestOf(S, pid, d) ==
  d \in S /\ d.pid = pid /\ \A l \in S : l.pid = pid => ~Replaces(l, d)

\* The loop over the processes of a pid ends with the best of them.
LEMMA DeduplicatedIs ==
  ASSUME NEW roots \in Seq(LocalProcess), NEW pid, \E l \in Range(roots) : l.pid = pid
  PROVE  BestOf(Range(roots), pid, Deduplicated(roots, pid))
<1> DEFINE I == {i \in DOMAIN roots : roots[i].pid = pid}
           ofPid == At(roots, I)
           P == {l \in LocalProcess : l.pid = pid}
           better == {p \in Range(ofPid) \X Range(ofPid) : Replaces(p[1], p[2])}
<1>1. Deduplicated(roots, pid) = BestIn(ofPid, better, None)
  BY DEF Deduplicated, Select, Best
<1>2. ofPid \in Seq(LocalProcess) /\ Range(ofPid) = Range(roots) \cap P
  <2>1. I = {i \in DOMAIN roots : roots[i] \in P}
    OBVIOUS
  <2> HIDE DEF I, P
  <2> QED
    BY <2>1, SelectRange
<1> HIDE DEF ofPid
<1>3. StrictlyOrders(better, Range(ofPid))
  <2>1. \A l \in Range(ofPid) : l.port \in Nat /\ l.public \in BOOLEAN
    BY <1>2 DEF LocalProcess
  <2>2. ASSUME NEW x \in Range(ofPid)
        PROVE  <<x, x>> \notin better
    BY <2>1 DEF Replaces
  <2>3. ASSUME NEW x \in Range(ofPid), NEW y \in Range(ofPid), NEW z \in Range(ofPid),
               <<x, y>> \in better, <<y, z>> \in better
        PROVE  <<x, z>> \in better
    BY <2>1, <2>3 DEF Replaces
  <2> HIDE DEF better
  <2> QED
    BY <2>2, <2>3 DEF StrictlyOrders
<1>4. None \notin LocalProcess
  BY NoneAssumption
<1>5. ofPid # <<>>
  <2>1. PICK l \in Range(roots) : l.pid = pid
    OBVIOUS
  <2>2. l \in LocalProcess
    BY DEF Range
  <2>3. l \in Range(ofPid)
    BY <2>1, <2>2, <1>2
  <2>4. Range(<<>>) = {}
    BY DEF Range
  <2> QED
    BY <2>3, <2>4
<1> DEFINE d == BestIn(ofPid, better, None)
<1>6. d \in Range(ofPid) /\ \A x \in Range(ofPid) : <<x, d>> \notin better
  <2> HIDE DEF better
  <2> QED
    BY <1>2, <1>3, <1>4, <1>5, BestInIsBest
<1> HIDE DEF d
<1>7. \A l \in Range(ofPid) : ~Replaces(l, d)
  BY <1>6
<1>8. Range(roots) \subseteq LocalProcess
  BY DEF Range
<1> QED
  BY <1>1, <1>2, <1>6, <1>7, <1>8 DEF BestOf, d

\* Discovery shows the best of every pid, and nothing else.
LEMMA DiscoveredAre ==
  ASSUME NEW seq \in Seq(LocalProcess)
  PROVE  LET R == RootsOf(Range(seq))
             D == DiscoverLocalProcesses(seq)
         IN  /\ \A d \in D : BestOf(R, d.pid, d)
             /\ \A l \in R : \E d \in D : BestOf(R, l.pid, d)
             /\ \A c, d \in D : c.pid = d.pid => c = d
<1> DEFINE roots == Roots(seq)
           R == RootsOf(Range(seq))
           D == DiscoverLocalProcesses(seq)
<1>1. roots \in Seq(LocalProcess) /\ Range(roots) = R
  BY RootsAre
<1>2. D = {Deduplicated(roots, roots[i].pid) : i \in DOMAIN roots}
  BY DEF DiscoverLocalProcesses
<1>3. ASSUME NEW i \in DOMAIN roots
      PROVE  BestOf(R, roots[i].pid, Deduplicated(roots, roots[i].pid))
  <2> HIDE DEF roots, R
  <2>1. roots \in Seq(LocalProcess)
    BY <1>1
  <2>2. \E l \in Range(roots) : l.pid = roots[i].pid
    BY DEF Range
  <2>3. BestOf(Range(roots), roots[i].pid, Deduplicated(roots, roots[i].pid))
    BY <2>1, <2>2, DeduplicatedIs
  <2> QED
    BY <1>1, <2>3
<1> HIDE DEF roots, R, D
<1>4. ASSUME NEW d \in D
      PROVE  \E i \in DOMAIN roots :
                d = Deduplicated(roots, roots[i].pid) /\ d.pid = roots[i].pid /\ BestOf(R, d.pid, d)
  <2>1. PICK i \in DOMAIN roots : d = Deduplicated(roots, roots[i].pid)
    BY <1>2
  <2>2. BestOf(R, roots[i].pid, d)
    BY <2>1, <1>3
  <2>3. d.pid = roots[i].pid
    BY <2>2 DEF BestOf
  <2> QED
    BY <2>1, <2>2, <2>3
<1>5. ASSUME NEW l \in R
      PROVE  \E d \in D : BestOf(R, l.pid, d)
  <2>1. PICK i \in DOMAIN roots : l = roots[i]
    BY <1>1 DEF Range
  <2> QED
    BY <2>1, <1>2, <1>3
<1>6. ASSUME NEW c \in D, NEW d \in D, c.pid = d.pid
      PROVE  c = d
  BY <1>4, <1>6
<1> QED
  BY <1>4, <1>5, <1>6 DEF R, D

\* Of two sockets of a process, one is better.
LEMMA OneIsBetter ==
  ASSUME NEW k \in Listeners, NEW l \in Listeners, k.pid = l.pid, k # l
  PROVE  Replaces(k, l) \/ Replaces(l, k)
<1>1. /\ l = [k EXCEPT !.port = l.port, !.public = l.public, !.ignored = l.ignored]
      /\ k.port = l.port => k.ignored = l.ignored
  BY ListenersAssumption
<1>2. k \in LocalProcess /\ l \in LocalProcess
  BY ListenersAssumption
<1>3. k.port = l.port /\ k.public = l.public => k = l
  <2> SUFFICES ASSUME k.port = l.port, k.public = l.public
               PROVE  k = l
    OBVIOUS
  <2>1. l = [k EXCEPT !.port = k.port, !.public = k.public, !.ignored = k.ignored]
    BY <1>1
  <2>2. k = [k EXCEPT !.port = k.port, !.public = k.public, !.ignored = k.ignored]
    BY <1>2 DEF LocalProcess
  <2> QED
    BY <2>1, <2>2
<1>4. k.port \in Nat /\ l.port \in Nat /\ k.public \in BOOLEAN /\ l.public \in BOOLEAN
  BY <1>2 DEF LocalProcess
<1>5. k.port < l.port \/ l.port < k.port \/ k.public # l.public
  BY <1>3, <1>4
<1> QED
  BY <1>4, <1>5 DEF Replaces

\* Any order of the listeners is a list of processes.
LEMMA OrdersOfListeners ==
  ASSUME NEW L \in SUBSET Listeners, NEW seq \in Orders(L)
  PROVE  seq \in Seq(LocalProcess) /\ Range(seq) = L
<1>1. IsFiniteSet(L) /\ L \subseteq LocalProcess
  BY ListenersAssumption, FS_Subset
<1>2. seq \in Seq(L) /\ Range(seq) = L
  BY <1>1, OrdersCover
<1> QED
  BY <1>1, <1>2

\* One port per process, for any set of listeners.
LEMMA OnePort ==
  ASSUME listeners \in SUBSET Listeners
  PROVE  OnePortPerProcess
<1> SUFFICES ASSUME NEW seq \in Orders(listeners)
             PROVE  DiscoverLocalProcesses(seq) =
                      {l \in Visible : \A k \in Visible :
                         k.pid = l.pid /\ k # l =>
                           IF k.public = l.public THEN l.port < k.port ELSE l.public}
  BY DEF OnePortPerProcess
<1> DEFINE D == DiscoverLocalProcesses(seq)
<1>1. seq \in Seq(LocalProcess) /\ Range(seq) = listeners
  BY OrdersOfListeners
<1>2. RootsOf(Range(seq)) = Visible
  BY <1>1 DEF RootsOf, Visible
<1>3. /\ \A d \in D : BestOf(Visible, d.pid, d)
      /\ \A l \in Visible : \E d \in D : BestOf(Visible, l.pid, d)
  BY <1>1, <1>2, DiscoveredAre
<1> HIDE DEF D
<1>4. \A k, l \in Visible : k.pid = l.pid /\ k # l => Replaces(k, l) \/ Replaces(l, k)
  BY OneIsBetter DEF Visible
<1>5. \A l \in Visible : l.port \in Nat /\ l.public \in BOOLEAN
  BY ListenersAssumption DEF Visible, LocalProcess
<1>6. ASSUME NEW d \in D, NEW k \in Visible, k.pid = d.pid, k # d
      PROVE  d \in Visible /\ IF k.public = d.public THEN d.port < k.port ELSE d.public
  <2>1. d \in Visible /\ ~Replaces(k, d)
    BY <1>3, <1>6 DEF BestOf
  <2>2. Replaces(d, k)
    BY <2>1, <1>4, <1>6
  <2> QED
    BY <2>1, <2>2, <1>5 DEF Replaces
<1>7. ASSUME NEW l \in Visible,
             \A k \in Visible : k.pid = l.pid /\ k # l =>
                IF k.public = l.public THEN l.port < k.port ELSE l.public
      PROVE  l \in D
  <2>1. PICK d \in D : BestOf(Visible, l.pid, d)
    BY <1>3
  <2>2. d \in Visible /\ d.pid = l.pid /\ ~Replaces(l, d)
    BY <2>1 DEF BestOf
  <2>3. d # l => Replaces(l, d)
    BY <2>2, <1>5, <1>7 DEF Replaces
  <2> QED
    BY <2>2, <2>3
<1>8. D \subseteq Visible
  BY <1>3 DEF BestOf
<1>9. D = {l \in Visible : \A k \in Visible :
             k.pid = l.pid /\ k # l =>
               IF k.public = l.public THEN l.port < k.port ELSE l.public}
  BY <1>6, <1>7, <1>8
<1> QED
  BY <1>9 DEF D

-----------------------------------------------------------------------------

\* What discovery shows of the listeners.
Shown ==
  {l \in Visible : \A k \in Visible :
     k.pid = l.pid /\ k # l => IF k.public = l.public THEN l.port < k.port ELSE l.public}

\* A discovery is an order of what is shown, whatever order the sockets had.
LEMMA DiscoveriesAre ==
  ASSUME listeners \in SUBSET Listeners
  PROVE  /\ Shown \in SUBSET Listeners /\ IsFiniteSet(Shown)
         /\ Discoveries = Orders(Shown) /\ Discoveries # {}
         /\ \A ps \in Discoveries : ps \in Seq(Shown) /\ Range(ps) = Shown
<1>1. IsFiniteSet(listeners)
  BY ListenersAssumption, FS_Subset
<1>2. Shown \in SUBSET Listeners
  BY DEF Shown, Visible
<1>3. IsFiniteSet(Shown)
  BY <1>2, ListenersAssumption, FS_Subset
<1>4. \A seq \in Orders(listeners) : DiscoverLocalProcesses(seq) = Shown
  BY OnePort DEF OnePortPerProcess, Shown
<1>5. Orders(listeners) # {}
  BY <1>1, OrdersExist
<1>6. Discoveries = Orders(Shown)
  BY <1>4, <1>5 DEF Discoveries
<1>7. Discoveries # {}
  BY <1>3, <1>6, OrdersExist
<1>8. \A ps \in Discoveries : ps \in Seq(Shown) /\ Range(ps) = Shown
  BY <1>3, <1>6, OrdersCover
<1> QED
  BY <1>2, <1>3, <1>6, <1>7, <1>8

\* ... so all of them list the same processes.
LEMMA ListedAre ==
  ASSUME listeners \in SUBSET Listeners
  PROVE  UNION {DiscoverLocalProcesses(seq) : seq \in Orders(listeners)} = Shown
<1>1. IsFiniteSet(listeners)
  BY ListenersAssumption, FS_Subset
<1>2. \A seq \in Orders(listeners) : DiscoverLocalProcesses(seq) = Shown
  BY OnePort DEF OnePortPerProcess, Shown
<1> QED
  BY <1>1, <1>2, OrdersExist

\* Both parts of a concatenation are in it.
LEMMA RangeConcat ==
  ASSUME NEW A, NEW s \in Seq(A), NEW t \in Seq(A)
  PROVE  Range(s \o t) = Range(s) \cup Range(t)
<1> DEFINE u == s \o t
           m == Len(s)
           n == Len(t)
<1>1. /\ m \in Nat /\ n \in Nat /\ DOMAIN s = 1..m /\ DOMAIN t = 1..n
      /\ DOMAIN u = 1..m + n
      /\ \A i \in 1..m : u[i] = s[i]
      /\ \A i \in 1..n : u[m + i] = t[i]
  OBVIOUS
<1> HIDE DEF u, m, n
<1>2. \A i \in 1..m + n : i \in 1..m \/ (i - m \in 1..n /\ m + (i - m) = i)
  BY <1>1
<1>3. \A i \in 1..m : i \in 1..m + n
  BY <1>1
<1>4. \A i \in 1..n : m + i \in 1..m + n
  BY <1>1
<1>5. Range(u) \subseteq Range(s) \cup Range(t)
  <2> SUFFICES ASSUME NEW i \in 1..m + n
               PROVE  u[i] \in Range(s) \cup Range(t)
    BY <1>1 DEF Range
  <2>1. CASE i \in 1..m
    BY <2>1, <1>1 DEF Range
  <2>2. CASE i - m \in 1..n /\ m + (i - m) = i
    <3>1. u[i] = t[i - m]
      BY <2>2, <1>1
    <3> QED
      BY <2>2, <3>1, <1>1 DEF Range
  <2> QED
    BY <2>1, <2>2, <1>2
<1>6. Range(s) \cup Range(t) \subseteq Range(u)
  <2>1. \A i \in 1..m : s[i] \in Range(u)
    BY <1>1, <1>3 DEF Range
  <2>2. \A i \in 1..n : t[i] \in Range(u)
    BY <1>1, <1>4 DEF Range
  <2> QED
    BY <1>1, <2>1, <2>2 DEF Range
<1>7. Range(u) = Range(s) \cup Range(t)
  BY <1>5, <1>6
<1> QED
  BY <1>7 DEF u

\* The mappings of containers and of processes.
DockerMappings(C)  == {DockerMapping(c, ContainerPort(c)) : c \in {c \in C : HasPort(c)}}
ProcessMappings(P) == {ProcessMapping(p) : p \in P}

\* The candidates are the mappings of what was found.
LEMMA CandidatesAre ==
  ASSUME NEW P, NEW ps \in Seq(P), NEW C, NEW cs \in Seq(C)
  PROVE  LET cand == Candidates(ps, cs)
             M == DockerMappings(C) \cup ProcessMappings(P)
         IN  /\ cand \in Seq(M)
             /\ Range(cand) = DockerMappings(Range(cs)) \cup ProcessMappings(Range(ps))
<1> DEFINE M == DockerMappings(C) \cup ProcessMappings(P)
           S == {c \in C : HasPort(c)}
           I == {i \in DOMAIN cs : HasPort(cs[i])}
           routed == At(cs, I)
           dm == [i \in DOMAIN routed |-> DockerMapping(routed[i], ContainerPort(routed[i]))]
           pm == [i \in DOMAIN ps |-> ProcessMapping(ps[i])]
<1>1. Candidates(ps, cs) = dm \o pm
  BY DEF Candidates, Select
<1>2. routed \in Seq(C) /\ Range(routed) = Range(cs) \cap S
  <2>1. I = {i \in DOMAIN cs : cs[i] \in S}
    OBVIOUS
  <2> HIDE DEF I, S
  <2> QED
    BY <2>1, SelectRange
<1> HIDE DEF routed
<1>3. Range(cs) \subseteq C /\ DOMAIN routed = 1..Len(routed) /\ Len(routed) \in Nat
  BY <1>2 DEF Range
<1>4. \A i \in DOMAIN routed : routed[i] \in C /\ HasPort(routed[i])
  BY <1>2 DEF Range
<1>5. dm \in Seq(M)
  <2>1. \A i \in DOMAIN routed : dm[i] \in M
    BY <1>4 DEF DockerMappings
  <2> HIDE DEF M
  <2> QED
    BY <1>3, <2>1
<1>6. Range(dm) = DockerMappings(Range(cs))
  BY <1>2, <1>3 DEF Range, DockerMappings
<1>7. pm \in Seq(M)
  <2>1. \A i \in DOMAIN ps : pm[i] \in M
    BY DEF ProcessMappings
  <2>2. DOMAIN ps = 1..Len(ps) /\ Len(ps) \in Nat
    OBVIOUS
  <2> HIDE DEF M
  <2> QED
    BY <2>1, <2>2
<1>8. Range(pm) = ProcessMappings(Range(ps))
  BY DEF Range, ProcessMappings
<1> HIDE DEF M, dm, pm
<1>9. dm \o pm \in Seq(M) /\ Range(dm \o pm) = Range(dm) \cup Range(pm)
  BY <1>5, <1>7, RangeConcat
<1> QED
  BY <1>1, <1>6, <1>8, <1>9 DEF M

\* What is left of candidates is one mapping exactly when they all have one key,
\* and then it is the first.
LEMMA DedupedAre ==
  ASSUME NEW B, NEW seq \in Seq(B)
  PROVE  LET left == DedupeCandidates(seq)
         IN  IF seq # <<>> /\ \A i \in DOMAIN seq : Key(seq[i]) = Key(seq[1])
               THEN Len(left) = 1 /\ left[1] = seq[1]
               ELSE Len(left) # 1
<1> DEFINE n == Len(seq)
           I == {i \in DOMAIN seq : \A j \in 1..i - 1 : Key(seq[j]) # Key(seq[i])}
           F == At(seq, I)
<1>1. DedupeCandidates(seq) = F
  BY DEF DedupeCandidates, FirstOfEach
<1>2. n \in Nat /\ DOMAIN seq = 1..n
  OBVIOUS
<1>3. F \in Seq(B) /\ Range(F) = {seq[i] : i \in I \cap (1..n)} /\ Len(F) = Cardinality(I \cap (1..n))
  <2> HIDE DEF I
  <2> QED
    BY AtType, AtRange, AtLen
<1>4. I \cap (1..n) = I /\ IsFiniteSet(I)
  <2>1. IsFiniteSet(1..n)
    BY <1>2, FS_Interval
  <2>2. I \subseteq 1..n
    BY <1>2
  <2> QED
    BY <2>1, <2>2, FS_Subset
<1>5. CASE seq = <<>>
  <2>1. I = {}
    BY <1>5
  <2>2. Len(F) = 0
    BY <2>1, <1>3, <1>4, FS_EmptySet
  <2> QED
    BY <1>1, <1>5, <2>2
<1>6. CASE seq # <<>>
  <2>1. 1 \in 1..n /\ 1 \in I
    BY <1>2, <1>6
  <2>2. CASE \A i \in DOMAIN seq : Key(seq[i]) = Key(seq[1])
    <3>1. ASSUME NEW i \in I
          PROVE  i = 1
      <4>1. i \in 1..n /\ \A j \in 1..i - 1 : Key(seq[j]) # Key(seq[i])
        BY <1>2
      <4>2. i # 1 => 1 \in 1..i - 1
        BY <4>1, <1>2
      <4>3. Key(seq[i]) = Key(seq[1])
        BY <4>1, <2>2, <1>2
      <4> QED
        BY <4>1, <4>2, <4>3
    <3>2. I = {1}
      BY <2>1, <3>1
    <3> HIDE DEF F, I
    <3>3. Len(F) = 1 /\ Range(F) = {seq[1]}
      <4>1. Cardinality({1}) = 1
        BY FS_Singleton
      <4>2. I \cap (1..n) = {1}
        BY <3>2, <1>4
      <4> QED
        BY <4>1, <4>2, <1>3
    <3>4. F[1] \in Range(F)
      <4>1. F \in Seq(B)
        BY <1>3
      <4>2. 1 \in DOMAIN F
        BY <4>1, <3>3
      <4> QED
        BY <4>2 DEF Range
    <3>5. F[1] = seq[1]
      BY <3>3, <3>4
    <3> QED
      BY <1>1, <1>6, <2>2, <3>3, <3>5
  <2>3. CASE \E i \in DOMAIN seq : Key(seq[i]) # Key(seq[1])
    <3> DEFINE S == {i \in 1..n : Key(seq[i]) # Key(seq[1])}
    <3>1. S \in SUBSET Nat /\ S # {}
      BY <2>3, <1>2
    <3>2. PICK m \in S : \A i \in S : m <= i
      <4> HIDE DEF S
      <4> QED
        BY <3>1, LeastNumber
    <3>3. m \in 1..n /\ Key(seq[m]) # Key(seq[1]) /\ m # 1
      BY <3>2
    <3>4. \A j \in 1..m - 1 : Key(seq[j]) = Key(seq[1])
      <4> TAKE j \in 1..m - 1
      <4>1. j \in 1..n /\ ~(m <= j)
        BY <3>3, <1>2
      <4> QED
        BY <4>1, <3>2
    <3>5. m \in I
      BY <3>3, <3>4, <1>2
    <3>6. Cardinality({1, m}) = 2
      <4>1. Cardinality({m}) = 1 /\ IsFiniteSet({m})
        BY FS_Singleton
      <4>2. Cardinality({m} \cup {1}) = Cardinality({m}) + 1
        BY <4>1, <3>3, FS_AddElement
      <4>3. {m} \cup {1} = {1, m}
        OBVIOUS
      <4> QED
        BY <4>1, <4>2, <4>3
    <3>7. Cardinality({1, m}) <= Cardinality(I)
      <4>1. {1, m} \in SUBSET I
        BY <2>1, <3>5
      <4> HIDE DEF I
      <4> QED
        BY <4>1, <1>4, FS_Subset
    <3>8. Len(F) # 1
      <4> HIDE DEF F, I
      <4>1. Len(F) = Cardinality(I)
        BY <1>3, <1>4
      <4>2. 2 <= Cardinality(I)
        BY <3>6, <3>7
      <4>3. Cardinality(I) \in Nat
        BY <1>4, FS_CardinalityType
      <4> QED
        BY <4>1, <4>2, <4>3
    <3> HIDE DEF F
    <3> QED
      BY <1>1, <2>3, <3>8
  <2> QED
    BY <2>2, <2>3
<1> QED
  BY <1>5, <1>6

\* ... so the order of candidates that have different keys does not matter.
LEMMA OnlyOfAgree ==
  ASSUME NEW B, NEW s \in Seq(B), NEW t \in Seq(B), Range(s) = Range(t),
         \A x, y \in Range(s) : Key(x) = Key(y) => x = y
  PROVE  OnlyOf(DedupeCandidates(s)) = OnlyOf(DedupeCandidates(t))
<1>1. /\ DOMAIN s = 1..Len(s) /\ Len(s) \in Nat /\ DOMAIN t = 1..Len(t) /\ Len(t) \in Nat
      /\ s # <<>> => 1 \in DOMAIN s
      /\ t # <<>> => 1 \in DOMAIN t
  OBVIOUS
<1>2. (\A i \in DOMAIN s : s[i] \in Range(s)) /\ (\A i \in DOMAIN t : t[i] \in Range(s))
  BY DEF Range
<1>3. (s = <<>> <=> Range(s) = {}) /\ (t = <<>> <=> Range(s) = {})
  <2>1. Range(<<>>) = {}
    BY DEF Range
  <2> QED
    BY <2>1, <1>1, <1>2
<1>4. CASE Range(s) = {}
  BY <1>3, <1>4, DedupedAre DEF OnlyOf
<1>5. CASE \E x \in Range(s) : Range(s) = {x}
  <2>1. PICK x : Range(s) = {x}
    BY <1>5
  <2>2. s[1] = x /\ t[1] = x /\ s # <<>> /\ t # <<>>
    BY <2>1, <1>1, <1>2, <1>3
  <2>3. \A i \in DOMAIN s : s[i] = x
    BY <2>1, <1>2
  <2>4. \A i \in DOMAIN t : t[i] = x
    BY <2>1, <1>2
  <2>5. OnlyOf(DedupeCandidates(s)) = x
    BY <2>2, <2>3, DedupedAre DEF OnlyOf
  <2>6. OnlyOf(DedupeCandidates(t)) = x
    BY <2>2, <2>4, DedupedAre DEF OnlyOf
  <2> QED
    BY <2>5, <2>6
<1>6. CASE \E x, y \in Range(s) : x # y
  <2>1. PICK x \in Range(s), y \in Range(s) : x # y
    BY <1>6
  <2>2. Key(x) # Key(y)
    BY <2>1
  <2>3. PICK i \in DOMAIN s, j \in DOMAIN s : x = s[i] /\ y = s[j]
    BY <2>1 DEF Range
  <2>4. PICK k \in DOMAIN t, l \in DOMAIN t : x = t[k] /\ y = t[l]
    <3>1. x \in Range(t) /\ y \in Range(t)
      BY <2>1
    <3>2. (\E k \in DOMAIN t : x = t[k]) /\ \E l \in DOMAIN t : y = t[l]
      BY <3>1 DEF Range
    <3> QED
      BY <3>2
  <2>5. ~ \A m \in DOMAIN s : Key(s[m]) = Key(s[1])
    BY <2>2, <2>3
  <2>6. ~ \A m \in DOMAIN t : Key(t[m]) = Key(t[1])
    BY <2>2, <2>4
  <2> QED
    BY <2>5, <2>6, DedupedAre DEF OnlyOf
<1> QED
  BY <1>4, <1>5, <1>6

\* Whatever the keys are, orders of the same candidates leave the same target.
LEMMA OnlyOfSameTarget ==
  ASSUME NEW B, None \notin B, NEW s \in Seq(B), NEW t \in Seq(B), Range(s) = Range(t)
  PROVE  SameTarget(OnlyOf(DedupeCandidates(s)), OnlyOf(DedupeCandidates(t)))
<1>1. /\ DOMAIN s = 1..Len(s) /\ Len(s) \in Nat /\ DOMAIN t = 1..Len(t) /\ Len(t) \in Nat
      /\ s # <<>> => 1 \in DOMAIN s
      /\ t # <<>> => 1 \in DOMAIN t
  OBVIOUS
<1>2. /\ \A i \in DOMAIN s : s[i] \in B /\ \E j \in DOMAIN t : s[i] = t[j]
      /\ \A i \in DOMAIN t : t[i] \in B /\ \E j \in DOMAIN s : t[i] = s[j]
  <2>1. \A i \in DOMAIN s : s[i] \in Range(t)
    BY DEF Range
  <2>2. \A i \in DOMAIN t : t[i] \in Range(s)
    BY DEF Range
  <2> QED
    BY <2>1, <2>2 DEF Range
<1>3. CASE s # <<>> /\ \A i \in DOMAIN s : Key(s[i]) = Key(s[1])
  <2>1. t # <<>> /\ \A i \in DOMAIN t : Key(t[i]) = Key(t[1])
    BY <1>1, <1>2, <1>3
  <2>2. OnlyOf(DedupeCandidates(s)) = s[1]
    BY <1>3, DedupedAre DEF OnlyOf
  <2>3. OnlyOf(DedupeCandidates(t)) = t[1]
    BY <2>1, DedupedAre DEF OnlyOf
  <2>4. s[1] # None /\ t[1] # None /\ \E j \in DOMAIN s : t[1] = s[j]
    BY <1>1, <1>2, <1>3, <2>1
  <2>5. Key(s[1]) = Key(t[1])
    BY <1>3, <2>4
  <2> QED
    BY <2>2, <2>3, <2>4, <2>5 DEF SameTarget
<1>4. CASE ~(s # <<>> /\ \A i \in DOMAIN s : Key(s[i]) = Key(s[1]))
  <2>1. ~(t # <<>> /\ \A i \in DOMAIN t : Key(t[i]) = Key(t[1]))
    <3> SUFFICES ASSUME t # <<>>, \A i \in DOMAIN t : Key(t[i]) = Key(t[1])
                 PROVE  FALSE
      OBVIOUS
    <3>1. s # <<>>
      BY <1>1, <1>2
    <3>2. \A i \in DOMAIN s : Key(s[i]) = Key(t[1])
      BY <1>2
    <3>3. Key(s[1]) = Key(t[1])
      BY <1>1, <3>1, <3>2
    <3> QED
      BY <1>4, <3>1, <3>2, <3>3
  <2>2. OnlyOf(DedupeCandidates(s)) = None
    BY <1>4, DedupedAre DEF OnlyOf
  <2>3. OnlyOf(DedupeCandidates(t)) = None
    BY <2>1, DedupedAre DEF OnlyOf
  <2> QED
    BY <2>2, <2>3 DEF SameTarget
<1> QED
  BY <1>3, <1>4

\* A filter leaves what passes it, in whatever order.
LEMMA FilterIs ==
  ASSUME NEW B, NEW seq \in Seq(B), NEW T, NEW I,
         I = {i \in DOMAIN seq : seq[i] \in T}, T \in SUBSET Range(seq)
  PROVE  At(seq, I) \in Seq(T) /\ Range(At(seq, I)) = T
<1>1. At(seq, I) \in Seq(B) /\ Range(At(seq, I)) = Range(seq) \cap T
  BY SelectRange
<1>2. Range(At(seq, I)) = T
  BY <1>1
<1> DEFINE F == At(seq, I)
<1> HIDE DEF F
<1>3. F \in Seq(B) /\ Range(F) = T
  BY <1>1, <1>2 DEF F
<1>4. F \in Seq(T)
  <2>1. \A i \in DOMAIN F : F[i] \in T
    BY <1>3 DEF Range
  <2> QED
    BY <1>3, <2>1
<1> QED
  BY <1>3, <1>4 DEF F

\* Mappings of sockets with different ports, and of containers, have different keys.
LEMMA KeysDiffer ==
  ASSUME DistinctPorts, NEW P \in SUBSET listeners, NEW C,
         NEW m \in DockerMappings(C) \cup ProcessMappings(P),
         NEW n \in DockerMappings(C) \cup ProcessMappings(P), Key(m) = Key(n)
  PROVE  m = n
<1>1. m.type = n.type /\ m.target = n.target /\ m.port = n.port
  BY DEF Key
<1>2. CASE m \in DockerMappings(C) /\ n \in DockerMappings(C)
  BY <1>1, <1>2 DEF DockerMappings, DockerMapping
<1>3. CASE m \in ProcessMappings(P) /\ n \in ProcessMappings(P)
  <2>1. PICK p \in P, q \in P : m = ProcessMapping(p) /\ n = ProcessMapping(q)
    BY <1>3 DEF ProcessMappings
  <2>2. p.port = q.port
    BY <2>1, <1>1 DEF ProcessMapping
  <2>3. p = q
    BY <2>2 DEF DistinctPorts
  <2> QED
    BY <2>1, <2>3
<1>4. ASSUME NEW x \in DockerMappings(C), NEW y \in ProcessMappings(P)
      PROVE  x.type # y.type
  BY DEF DockerMappings, DockerMapping, ProcessMappings, ProcessMapping
<1> QED
  BY <1>1, <1>2, <1>3, <1>4

\* The target and port of the heuristic's answer do not depend on the orders, nor
\* does the rest of it if no port number is used twice.
LEMMA OneAnswer ==
  ASSUME listeners \in SUBSET Listeners, containers \in SUBSET Containers,
         NEW h, NEW ps \in Discoveries, NEW qs \in Discoveries,
         NEW cs \in Orders(containers), NEW ds \in Orders(containers)
  PROVE  /\ SameTarget(ResolveHeuristically(h, ps, cs), ResolveHeuristically(h, qs, ds))
         /\ DistinctPorts =>
              ResolveHeuristically(h, ps, cs) = ResolveHeuristically(h, qs, ds)
<1> DEFINE P == {p \in Shown : ProcessMatches(p, h)}
           C == {c \in containers : ContainerMatches(c, h)}
           M == DockerMappings(C) \cup ProcessMappings(P)
           Found(ps_, cs_) ==
             Candidates(At(ps_, {i \in DOMAIN ps_ : ProcessMatches(ps_[i], h)}),
                        At(cs_, {i \in DOMAIN cs_ : ContainerMatches(cs_[i], h)}))
<1>1. ASSUME NEW ps_ \in Discoveries, NEW cs_ \in Orders(containers)
      PROVE  /\ ResolveHeuristically(h, ps_, cs_) = OnlyOf(DedupeCandidates(Found(ps_, cs_)))
             /\ Found(ps_, cs_) \in Seq(M) /\ Range(Found(ps_, cs_)) = M
  <2> DEFINE I == {i \in DOMAIN ps_ : ProcessMatches(ps_[i], h)}
             J == {i \in DOMAIN cs_ : ContainerMatches(cs_[i], h)}
  <2>1. ps_ \in Seq(Shown) /\ Range(ps_) = Shown
    BY DiscoveriesAre
  <2>2. cs_ \in Seq(containers) /\ Range(cs_) = containers
    BY ContainersAssumption, FS_Subset, OrdersCover
  <2>3. At(ps_, I) \in Seq(P) /\ Range(At(ps_, I)) = P
    <3>1. I = {i \in DOMAIN ps_ : ps_[i] \in P} /\ P \in SUBSET Range(ps_)
      BY <2>1
    <3> HIDE DEF I, P
    <3> QED
      BY <2>1, <3>1, FilterIs
  <2>4. At(cs_, J) \in Seq(C) /\ Range(At(cs_, J)) = C
    <3>1. J = {i \in DOMAIN cs_ : cs_[i] \in C} /\ C \in SUBSET Range(cs_)
      BY <2>2
    <3> HIDE DEF J, C
    <3> QED
      BY <2>2, <3>1, FilterIs
  <2>5. ResolveHeuristically(h, ps_, cs_) =
          OnlyOf(DedupeCandidates(Candidates(At(ps_, I), At(cs_, J))))
    BY DEF ResolveHeuristically, Select
  <2> HIDE DEF I, J, P, C
  <2>6. LET cand == Candidates(At(ps_, I), At(cs_, J))
        IN  cand \in Seq(M) /\ Range(cand) = M
    BY <2>3, <2>4, CandidatesAre
  <2> QED
    BY <2>5, <2>6 DEF I, J
<1>2. DistinctPorts => \A x, y \in M : Key(x) = Key(y) => x = y
  <2>1. P \in SUBSET listeners
    BY DEF Shown, Visible
  <2> HIDE DEF P, C
  <2> QED
    BY <2>1, KeysDiffer
<1>3. None \notin M
  <2>1. \A p \in P : None # ProcessMapping(p)
    BY MappingAssumption DEF Shown, Visible
  <2>2. ASSUME NEW c \in C, HasPort(c) PROVE None # DockerMapping(c, ContainerPort(c))
    <3>1. ContainerPorts(c) # {}
      BY <2>2, FS_EmptySet DEF HasPort
    <3>2. ContainerPort(c) \in ContainerPorts(c)
      BY <3>1 DEF ContainerPort
    <3> QED
      BY <3>2, MappingAssumption
  <2> HIDE DEF P, C
  <2> QED
    BY <2>1, <2>2 DEF DockerMappings, ProcessMappings
<1> HIDE DEF M, Found
<1>4. SameTarget(OnlyOf(DedupeCandidates(Found(ps, cs))),
                 OnlyOf(DedupeCandidates(Found(qs, ds))))
  BY <1>1, <1>3, OnlyOfSameTarget
<1>5. DistinctPorts => OnlyOf(DedupeCandidates(Found(ps, cs))) =
                         OnlyOf(DedupeCandidates(Found(qs, ds)))
  BY <1>1, <1>2, OnlyOfAgree
<1> QED
  BY <1>1, <1>4, <1>5

\* No order decides, for any listeners and containers.
LEMMA NoOrderDecides ==
  ASSUME listeners \in SUBSET Listeners, containers \in SUBSET Containers
  PROVE  OrderNeverDecides
<1> SUFFICES ASSUME NEW h \in Hostnames
             PROVE  LET results == {ResolveHeuristically(h, ps, cs) :
                                      ps \in Discoveries, cs \in Orders(containers)}
                    IN  /\ \A a, b \in results : SameTarget(a, b)
                        /\ DistinctPorts => Cardinality(results) = 1
  BY DEF OrderNeverDecides
<1> DEFINE A == {ResolveHeuristically(h, ps, cs) :
                   ps \in Discoveries, cs \in Orders(containers)}
<1>1. \A a, b \in A : SameTarget(a, b)
  BY OneAnswer
<1>2. ASSUME DistinctPorts PROVE Cardinality(A) = 1
  <2>1. PICK ps \in Discoveries : TRUE
    BY DiscoveriesAre
  <2>2. PICK cs \in Orders(containers) : TRUE
    <3>1. IsFiniteSet(containers)
      BY ContainersAssumption, FS_Subset
    <3> QED
      BY <3>1, OrdersExist
  <2> DEFINE x == ResolveHeuristically(h, ps, cs)
  <2>3. A = {x}
    BY <1>2, OneAnswer
  <2>4. Cardinality({x}) = 1
    BY FS_Singleton
  <2> HIDE DEF x, A
  <2> QED
    BY <2>3, <2>4
<1> QED
  BY <1>1, <1>2

-----------------------------------------------------------------------------

\* What /_proxy/ answers when one process of the project has the service's name.
LEMMA OwnIsChosen ==
  ASSUME listeners \in SUBSET Listeners, containers \in SUBSET Containers,
         mapping.dir # <<>>, NEW s, NEW own, NEW p,
         own = {q \in Shown : InProject(q, mapping.dir) /\ Base(q.dir) = s}, own = {p},
         {c \in containers : c.service = s \/ c.name = <<s>>} = {},
         NEW ps \in Discoveries, NEW cs \in Orders(containers)
  PROVE  ResolveRelatedHeuristically(mapping, s, ps, cs) = ProcessMapping(p)
<1> DEFINE M(q)   == q.dir # <<>> /\ Base(q.dir) = s
           MC(c)  == c.service = s \/ c.name = <<s>>
           I == {i \in DOMAIN ps : M(ps[i]) /\ SameProjectDir(mapping.dir, ps[i].dir)}
           J == {i \in DOMAIN cs : MC(cs[i]) /\ SameProjectDir(mapping.dir, cs[i].dir)}
           cand == Candidates(At(ps, I), At(cs, J))
           same == DedupeCandidates(cand)
           answer == ResolveRelatedHeuristically(mapping, s, ps, cs)
<1>1. OriginDir(mapping, cs) = mapping.dir
  BY DEF OriginDir
<1>2. Len(same) = 1 => answer = same[1]
  BY <1>1 DEF ResolveRelatedHeuristically, Select
<1>3. ps \in Seq(Shown) /\ Range(ps) = Shown
  BY DiscoveriesAre
<1>4. cs \in Seq(containers) /\ Range(cs) = containers
  BY ContainersAssumption, FS_Subset, OrdersCover
<1>5. At(ps, I) \in Seq(own) /\ Range(At(ps, I)) = own
  <2>1. I = {i \in DOMAIN ps : ps[i] \in own}
    <3>1. \A i \in DOMAIN ps : ps[i] \in Shown
      BY <1>3 DEF Range
    <3>2. \A q \in Shown : M(q) /\ SameProjectDir(mapping.dir, q.dir) <=> q \in own
      BY DEF InProject, SameProjectDir
    <3> HIDE DEF M
    <3> QED
      BY <3>1, <3>2
  <2>2. own \in SUBSET Range(ps)
    BY <1>3
  <2> HIDE DEF I
  <2> QED
    BY <1>3, <2>1, <2>2, FilterIs
<1>6. At(cs, J) \in Seq({}) /\ Range(At(cs, J)) = {}
  <2>1. \A i \in DOMAIN cs : ~MC(cs[i])
    BY <1>4 DEF Range
  <2>2. J = {i \in DOMAIN cs : cs[i] \in {}}
    BY <2>1
  <2> HIDE DEF J
  <2> QED
    BY <1>4, <2>2, FilterIs
<1> HIDE DEF I, J, cand, same, answer
<1>7. /\ cand \in Seq(DockerMappings({}) \cup ProcessMappings(own))
      /\ Range(cand) = DockerMappings(Range(At(cs, J))) \cup ProcessMappings(Range(At(ps, I)))
  <2> DEFINE mine == At(ps, I)
             none == At(cs, J)
  <2>1. mine \in Seq(own) /\ none \in Seq({})
    BY <1>5, <1>6
  <2> HIDE DEF mine, none
  <2>2. LET c == Candidates(mine, none)
            N == DockerMappings({}) \cup ProcessMappings(own)
        IN  /\ c \in Seq(N)
            /\ Range(c) = DockerMappings(Range(none)) \cup ProcessMappings(Range(mine))
    BY <2>1, CandidatesAre, Zenon
  <2> USE DEF mine, none
  <2> QED
    BY <2>2 DEF cand
<1>8. Range(cand) = {ProcessMapping(p)}
  <2>1. Range(cand) = DockerMappings({}) \cup ProcessMappings(own)
    BY <1>5, <1>6, <1>7
  <2> QED
    BY <2>1 DEF DockerMappings, ProcessMappings
<1>9. \A i \in DOMAIN cand : cand[i] = ProcessMapping(p)
  BY <1>8 DEF Range
<1>10. cand # <<>> /\ 1 \in DOMAIN cand
  <2>1. Range(<<>>) = {}
    BY DEF Range
  <2>2. cand # <<>>
    BY <1>8, <2>1
  <2> QED
    BY <1>7, <2>2
<1>11. Len(same) = 1 /\ same[1] = cand[1]
  BY <1>7, <1>9, <1>10, DedupedAre DEF same
<1> QED
  BY <1>2, <1>9, <1>10, <1>11 DEF answer

-----------------------------------------------------------------------------

\* A match is a rank and a distance, and NoMatch is no rank.
LEMMA MatchType ==
  ASSUME NEW dir \in Seq(STRING), NEW target \in Seq(STRING)
  PROVE  LET m == MatchWorkdir(dir, target)
         IN  /\ m \in [rank : Int, distance : Int]
             /\ m # NoMatch => target # <<>> /\ m.rank >= 0
             /\ m # NoMatch /\ m.rank <= 0 => dir = target
             /\ dir = target /\ target # <<>> => m # NoMatch /\ m.rank = 0
  BY DEF MatchWorkdir, NoMatch, rankExact, rankUnderTarget, rankAboveTarget

\* Two sequences that begin with each other are the same.
LEMMA PrefixOfEachOther ==
  ASSUME NEW A, NEW s \in Seq(A), NEW t \in Seq(A), IsPrefix(s, t), IsPrefix(t, s)
  PROVE  s = t
<1>1. Len(s) = Len(t) /\ SubSeq(s, 1, Len(s)) = SubSeq(t, 1, Len(s))
  BY DEF IsPrefix
<1>2. SubSeq(s, 1, Len(s)) = s /\ SubSeq(t, 1, Len(t)) = t
  OBVIOUS
<1> QED
  BY <1>1, <1>2

\* The shown processes that a mapping's directory and pattern let through.
Passing(target, pattern) ==
  {p \in Shown : /\ MatchWorkdir(p.dir, target) # NoMatch
                 /\ pattern = None \/ MatchesCommand(p, pattern)}

\* The port is that of one that passes, and none that passes is better.
LEMMA PortIsBest ==
  ASSUME listeners \in SUBSET Listeners, NEW target \in Seq(STRING), NEW pattern,
         NEW ps \in Discoveries, ResolveProcessPort(target, pattern, ps) # None
  PROVE  \E p \in Passing(target, pattern) :
            /\ ResolveProcessPort(target, pattern, ps) = p.port
            /\ \A q \in Passing(target, pattern) :
                 ~BetterMatch(MatchWorkdir(q.dir, target), q.port,
                              MatchWorkdir(p.dir, target), p.port)
<1> DEFINE Better(p, q) == BetterMatch(MatchWorkdir(p.dir, target), p.port,
                                       MatchWorkdir(q.dir, target), q.port)
           P == Passing(target, pattern)
           I == {i \in DOMAIN ps : /\ MatchWorkdir(ps[i].dir, target) # NoMatch
                                   /\ pattern = None \/ MatchesCommand(ps[i], pattern)}
           passed == At(ps, I)
           better == {x \in Range(passed) \X Range(passed) : Better(x[1], x[2])}
           best == BestIn(passed, better, None)
<1>1. ResolveProcessPort(target, pattern, ps) = IF best = None THEN None ELSE best.port
  BY DEF ResolveProcessPort, Select, Best
<1>2. ps \in Seq(Shown) /\ Range(ps) = Shown
  BY DiscoveriesAre
<1>3. passed \in Seq(P) /\ Range(passed) = P
  <2>1. I = {i \in DOMAIN ps : ps[i] \in P}
    <3>1. \A i \in DOMAIN ps : ps[i] \in Shown
      BY <1>2 DEF Range
    <3> QED
      BY <3>1 DEF Passing
  <2>2. P \in SUBSET Range(ps)
    BY <1>2 DEF Passing
  <2> HIDE DEF I, P
  <2> QED
    BY <1>2, <2>1, <2>2, FilterIs
<1>4. \A p \in P : /\ p.port \in Nat
                    /\ MatchWorkdir(p.dir, target) \in [rank : Int, distance : Int]
  <2> TAKE p \in P
  <2>1. p \in LocalProcess
    BY ListenersAssumption DEF Passing, Shown, Visible
  <2>2. p.port \in Nat /\ p.dir \in Seq(STRING)
    BY <2>1 DEF LocalProcess
  <2> QED
    BY <2>2, MatchType
<1>5. None \notin P
  BY NoneAssumption, ListenersAssumption DEF Passing, Shown, Visible
<1> HIDE DEF P, passed
<1>6. StrictlyOrders(better, P)
  <2> DEFINE m == [p \in P |-> MatchWorkdir(p.dir, target)]
  <2>1. \A p \in P : m[p].rank \in Int /\ m[p].distance \in Int /\ p.port \in Int
    BY <1>4
  <2>2. \A p, q \in P : <<p, q>> \in better <=>
           IF m[p].rank # m[q].rank THEN m[p].rank < m[q].rank
           ELSE IF m[p].distance # m[q].distance THEN m[p].distance < m[q].distance
           ELSE p.port < q.port
    BY <1>3 DEF BetterMatch
  <2> HIDE DEF better, m
  <2>3. ASSUME NEW x \in P
        PROVE  <<x, x>> \notin better
    BY <2>1, <2>2
  <2>4. ASSUME NEW x \in P, NEW y \in P, NEW z \in P,
               <<x, y>> \in better, <<y, z>> \in better
        PROVE  <<x, z>> \in better
    <3>1. /\ m[x].rank \in Int /\ m[x].distance \in Int /\ x.port \in Int
          /\ m[y].rank \in Int /\ m[y].distance \in Int /\ y.port \in Int
          /\ m[z].rank \in Int /\ m[z].distance \in Int /\ z.port \in Int
      BY <2>1
    <3>2. IF m[x].rank # m[y].rank THEN m[x].rank < m[y].rank
          ELSE IF m[x].distance # m[y].distance THEN m[x].distance < m[y].distance
          ELSE x.port < y.port
      BY <2>2, <2>4
    <3>3. IF m[y].rank # m[z].rank THEN m[y].rank < m[z].rank
          ELSE IF m[y].distance # m[z].distance THEN m[y].distance < m[z].distance
          ELSE y.port < z.port
      BY <2>2, <2>4
    <3>4. IF m[x].rank # m[z].rank THEN m[x].rank < m[z].rank
          ELSE IF m[x].distance # m[z].distance THEN m[x].distance < m[z].distance
          ELSE x.port < z.port
      BY <3>1, <3>2, <3>3
    <3> QED
      BY <2>2, <3>4
  <2> QED
    BY <2>3, <2>4 DEF StrictlyOrders
<1>7. \A p, q \in P : <<p, q>> \in better <=> Better(p, q)
  BY <1>3
<1> HIDE DEF better
<1>8. IF passed = <<>> THEN best = None
      ELSE best \in P /\ \A q \in P : <<q, best>> \notin better
  BY <1>3, <1>5, <1>6, BestInIsBest
<1> HIDE DEF best
<1>9. best # None
  BY <1>1
<1>10. best \in P /\ \A q \in P : ~Better(q, best)
  BY <1>7, <1>8, <1>9
<1>11. ResolveProcessPort(target, pattern, ps) = best.port
  BY <1>1, <1>9
<1> QED
  BY <1>10, <1>11 DEF P

\* The heuristic answers with a mapping of something that was found, or with none.
LEMMA AnswerType ==
  ASSUME NEW h, NEW P, NEW ps \in Seq(P), NEW C, NEW cs \in Seq(C),
         ResolveHeuristically(h, ps, cs) # None
  PROVE  ResolveHeuristically(h, ps, cs) \in
           DockerMappings(C) \cup ProcessMappings({p \in P : ProcessMatches(p, h)})
<1> DEFINE Q == {p \in P : ProcessMatches(p, h)}
           I == {i \in DOMAIN ps : ProcessMatches(ps[i], h)}
           J == {i \in DOMAIN cs : ContainerMatches(cs[i], h)}
           M == DockerMappings(C) \cup ProcessMappings(Q)
           cand == Candidates(At(ps, I), At(cs, J))
<1>1. ResolveHeuristically(h, ps, cs) = OnlyOf(DedupeCandidates(cand))
  BY DEF ResolveHeuristically, Select
<1>2. At(ps, I) \in Seq(Q)
  <2>1. I = {i \in DOMAIN ps : ps[i] \in Q}
    OBVIOUS
  <2> HIDE DEF I
  <2>2. At(ps, I) \in Seq(P) /\ Range(At(ps, I)) = Range(ps) \cap Q
    BY <2>1, SelectRange
  <2> DEFINE F == At(ps, I)
  <2> HIDE DEF F, Q
  <2>3. F \in Seq(P) /\ Range(F) \subseteq Q
    BY <2>2 DEF F
  <2>4. \A i \in DOMAIN F : F[i] \in Q
    BY <2>3 DEF Range
  <2>5. F \in Seq(Q)
    BY <2>3, <2>4
  <2> QED
    BY <2>5 DEF F
<1>3. At(cs, J) \in Seq(C)
  BY AtType
<1> HIDE DEF I, J, Q
<1>4. cand \in Seq(M)
  <2>1. LET c == Candidates(At(ps, I), At(cs, J))
            N == DockerMappings(C) \cup ProcessMappings(Q)
        IN  c \in Seq(N)
    BY <1>2, <1>3, CandidatesAre, Zenon
  <2> QED
    BY <2>1
<1> HIDE DEF M, cand
<1>5. cand # <<>> /\ OnlyOf(DedupeCandidates(cand)) = cand[1]
  BY <1>1, <1>4, DedupedAre DEF OnlyOf
<1>6. cand[1] \in M
  BY <1>4, <1>5
<1> QED
  BY <1>1, <1>5, <1>6 DEF M, Q

\* What every reachable state has: sockets and containers that may be there, and
\* answers that a discovery of these gave.
MatchingInv ==
  /\ listeners \in SUBSET Listeners
  /\ containers \in SUBSET Containers
  /\ mapping # None => mapping.dir \in Seq(STRING)
  /\ mapping = None => service = None /\ port = None
  /\ service # None =>
       \E ps \in Discoveries, cs \in Orders(containers) :
          related = ResolveRelatedHeuristically(mapping, service, ps, cs)
  /\ port # None =>
       \E ps \in Discoveries : port = ResolveProcessPort(mapping.dir, mapping.pattern, ps)

\* Nothing has been answered at first.
LEMMA MatchingInvInit == Init => MatchingInv
  BY DEF Init, MatchingInv

\* An answer is of the listeners there are: those given before are forgotten when
\* these change.
LEMMA MatchingInvStep == MatchingInv /\ [Next]_vars => MatchingInv'
<1> SUFFICES ASSUME MatchingInv, [Next]_vars
             PROVE  MatchingInv'
  OBVIOUS
<1> USE DEF MatchingInv
<1>1. CASE \E h \in Hostnames : ResolveTarget(h)
  <2>1. PICK h \in Hostnames : ResolveTarget(h)
    BY <1>1
  <2>2. UNCHANGED <<listeners, containers, service, related, port>> /\ mapping = None
    BY <2>1 DEF ResolveTarget
  <2>3. PICK ps \in Discoveries, cs \in Orders(containers) :
           mapping' = ResolveHeuristically(h, ps, cs)
    BY <2>1 DEF ResolveTarget
  <2>4. mapping' # None => mapping' \in DockerMappings(containers) \cup ProcessMappings(Shown)
    <3>1. ps \in Seq(Shown) /\ cs \in Seq(containers)
      BY DiscoveriesAre, ContainersAssumption, FS_Subset, OrdersCover
    <3> QED
      BY <2>3, <3>1, AnswerType DEF ProcessMappings
  <2>5. \A p \in Shown : p.dir \in Seq(STRING)
    BY ListenersAssumption DEF Shown, Visible, LocalProcess
  <2>6. mapping' # None => mapping'.dir \in Seq(STRING)
    <3>1. ASSUME NEW m \in DockerMappings(containers)
          PROVE  m.dir \in Seq(STRING)
      <4>1. m.dir = <<>>
        BY DEF DockerMappings, DockerMapping
      <4> QED
        BY <4>1
    <3>2. ASSUME NEW m \in ProcessMappings(Shown)
          PROVE  m.dir \in Seq(STRING)
      <4>1. PICK p \in Shown : m = ProcessMapping(p)
        BY DEF ProcessMappings
      <4>2. m.dir = p.dir
        BY <4>1 DEF ProcessMapping
      <4> QED
        BY <4>2, <2>5
    <3> QED
      BY <2>4, <3>1, <3>2
  <2> QED
    BY <2>2, <2>6
<1>2. CASE \E p \in Listeners : NameProcess(p)
  <2>1. PICK p \in Listeners : NameProcess(p)
    BY <1>2
  <2>2. UNCHANGED <<listeners, containers, service, related, port>> /\ mapping = None
    BY <2>1 DEF NameProcess
  <2>3. mapping'.dir = p.dir
    BY <2>1 DEF NameProcess, ProcessMapping
  <2>4. p.dir \in Seq(STRING)
    BY ListenersAssumption DEF LocalProcess
  <2> QED
    BY <2>2, <2>3, <2>4
<1>3. CASE \E s \in Services : ResolveRelated(s)
  <2>1. PICK s \in Services : ResolveRelated(s)
    BY <1>3
  <2>2. /\ UNCHANGED <<listeners, containers, mapping, port>> /\ mapping # None
        /\ service' = s
    BY <2>1 DEF ResolveRelated
  <2>3. \E ps \in Discoveries, cs \in Orders(containers) :
           related' = ResolveRelatedHeuristically(mapping, s, ps, cs)
    BY <2>1 DEF ResolveRelated
  <2>4. Discoveries' = Discoveries
    BY <2>2 DEF Discoveries
  <2> QED
    BY <2>2, <2>3, <2>4
<1>4. CASE ResolvePort
  <2>1. UNCHANGED <<listeners, containers, mapping, service, related>> /\ mapping # None
    BY <1>4 DEF ResolvePort
  <2>2. \E ps \in Discoveries : port' = ResolveProcessPort(mapping.dir, mapping.pattern, ps)
    BY <1>4 DEF ResolvePort
  <2>3. Discoveries' = Discoveries
    BY <2>1 DEF Discoveries
  <2> QED
    BY <2>1, <2>2, <2>3
<1>5. CASE ListenersChange
  <2>1. /\ UNCHANGED <<containers, mapping>>
        /\ port' = None /\ service' = None /\ related' = None
        /\ listeners' \in SUBSET Listeners
    BY <1>5 DEF ListenersChange
  <2> QED
    BY <2>1
<1>6. CASE UNCHANGED vars
  <2>1. Discoveries' = Discoveries
    BY <1>6 DEF vars, Discoveries
  <2> QED
    BY <1>6, <2>1 DEF vars
<1> QED
  BY <1>1, <1>2, <1>3, <1>4, <1>5, <1>6 DEF Next

\* What every state has: the answers that are remembered are those of a discovery of
\* the listeners and containers there are.
THEOREM AnswersAreDiscovered == Spec => []MatchingInv
  BY MatchingInvInit, MatchingInvStep, PTL DEF Spec

\* Whatever order the sockets are listed in, DiscoverLocalProcesses shows every
\* wanted process that no wanted one started, once, on its best port.
THEOREM EveryProcessOnce == Spec => []OnePortPerProcess
<1>1. MatchingInv => OnePortPerProcess
  BY OnePort DEF MatchingInv
<1> QED
  BY <1>1, AnswersAreDiscovered, PTL

\* ResolveHeuristically gives one target and port whatever order processes and
\* containers are discovered in, and so never takes the first of several; and one
\* answer, the directory included, unless two sockets have one port number.
THEOREM NeverTheFirst == Spec => []OrderNeverDecides
<1>1. MatchingInv => OrderNeverDecides
  BY NoOrderDecides DEF MatchingInv
<1> QED
  BY <1>1, AnswersAreDiscovered, PTL

\* ResolveRelatedHeuristically goes to the one process of the origin's project that
\* has the service's name, whatever other projects run.
THEOREM OwnProjectWins == Spec => []RelatedStaysInProject
<1>1. ASSUME MatchingInv
      PROVE  RelatedStaysInProject
  <2> SUFFICES ASSUME mapping # None, mapping.dir # <<>>, service # None
               PROVE  LET own == {p \in UNION {DiscoverLocalProcesses(q) : q \in Orders(listeners)} :
                                    InProject(p, mapping.dir) /\ Base(p.dir) = service}
                          others == {c \in containers : c.service = service \/ c.name = <<service>>}
                      IN  Cardinality(own) = 1 /\ others = {}
                            => \E p \in own : related = ProcessMapping(p)
    BY DEF RelatedStaysInProject
  <2> DEFINE own == {p \in Shown : InProject(p, mapping.dir) /\ Base(p.dir) = service}
  <2>1. listeners \in SUBSET Listeners /\ containers \in SUBSET Containers
    BY <1>1 DEF MatchingInv
  <2>2. UNION {DiscoverLocalProcesses(q) : q \in Orders(listeners)} = Shown
    BY <2>1, ListedAre
  <2>3. ASSUME Cardinality(own) = 1,
               {c \in containers : c.service = service \/ c.name = <<service>>} = {}
        PROVE  \E p \in own : related = ProcessMapping(p)
    <3>1. IsFiniteSet(own)
      BY <2>1, DiscoveriesAre, FS_Subset
    <3>2. PICK p : own = {p}
      BY <3>1, <2>3, FS_Singleton
    <3>3. PICK ps \in Discoveries, cs \in Orders(containers) :
             related = ResolveRelatedHeuristically(mapping, service, ps, cs)
      BY <1>1 DEF MatchingInv
    <3>4. related = ProcessMapping(p)
      BY <2>1, <2>3, <3>2, <3>3, OwnIsChosen
    <3> QED
      BY <3>2, <3>4
  <2> QED
    BY <2>2, <2>3
<1> QED
  BY <1>1, AnswersAreDiscovered, PTL

\* The process that a mapping's traffic goes to.
LEMMA PortIsAListeners ==
  ASSUME MatchingInv, port # None
  PROVE  /\ mapping.dir \in Seq(STRING)
         /\ \E p \in Passing(mapping.dir, mapping.pattern) :
              /\ port = p.port
              /\ \A q \in Passing(mapping.dir, mapping.pattern) :
                   ~BetterMatch(MatchWorkdir(q.dir, mapping.dir), q.port,
                                MatchWorkdir(p.dir, mapping.dir), p.port)
<1>1. mapping.dir \in Seq(STRING) /\ listeners \in SUBSET Listeners
  BY DEF MatchingInv
<1>2. PICK ps \in Discoveries : port = ResolveProcessPort(mapping.dir, mapping.pattern, ps)
  BY DEF MatchingInv
<1> QED
  BY <1>1, <1>2, PortIsBest

\* ResolveProcessPort never answers with the port of a process in a user's home, or
\* more than two levels above the mapped directory (matchWorkdir).
THEOREM HomesAreSafe == Spec => []HomeNeverClaims
<1>1. ASSUME MatchingInv
      PROVE  HomeNeverClaims
  <2> SUFFICES ASSUME port # None, DistinctPorts, NEW l \in listeners,
                      NEW user \in Range(mapping.dir), l.port = port, l.dir # mapping.dir,
                      IsPrefix(l.dir, mapping.dir)
               PROVE  /\ l.dir \notin {<<"root">>, <<"home", user>>, <<"Users", user>>}
                      /\ Len(mapping.dir) - Len(l.dir) <= 2
    BY DEF HomeNeverClaims
  <2>1. mapping.dir \in Seq(STRING)
    BY <1>1, PortIsAListeners
  <2>2. PICK p \in Passing(mapping.dir, mapping.pattern) : port = p.port
    BY <1>1, PortIsAListeners
  <2>3. p = l
    BY <2>2 DEF DistinctPorts, Passing, Shown, Visible
  <2>4. l.dir \in Seq(STRING)
    BY <1>1, ListenersAssumption DEF MatchingInv, LocalProcess
  <2>5. MatchWorkdir(l.dir, mapping.dir) # NoMatch
    BY <2>2, <2>3 DEF Passing
  <2>6. ~IsPrefix(mapping.dir, l.dir)
    BY <2>1, <2>4, PrefixOfEachOther
  <2>7. Len(mapping.dir) - Len(l.dir) <= 2 /\ ~IsUserHome(l.dir)
    BY <2>5, <2>6 DEF MatchWorkdir, MaxParentDistance
  <2> QED
    BY <2>7 DEF IsUserHome
<1> QED
  BY <1>1, AnswersAreDiscovered, PTL

\* ResolveProcessPort answers with the port of a process in the mapped directory
\* itself, with the mapping's command, as long as one is listed (betterMatch).
THEOREM InPlaceWins == Spec => []ExactDirectoryWins
<1>1. ASSUME MatchingInv
      PROVE  ExactDirectoryWins
  <2> DEFINE named == {p \in Shown : mapping.pattern \in {None} \cup p.words}
             inPlace == {p \in named : p.dir = mapping.dir}
  <2> SUFFICES ASSUME port # None
               PROVE  \E p \in IF inPlace = {} THEN named ELSE inPlace : p.port = port
    BY <1>1, ListedAre DEF ExactDirectoryWins, MatchingInv
  <2> DEFINE P == Passing(mapping.dir, mapping.pattern)
             Match(p) == MatchWorkdir(p.dir, mapping.dir)
  <2>1. mapping.dir \in Seq(STRING)
    BY <1>1, PortIsAListeners
  <2>2. PICK p \in P : /\ port = p.port
                       /\ \A q \in P : ~BetterMatch(Match(q), q.port, Match(p), p.port)
    BY <1>1, PortIsAListeners
  <2>3. \A q \in Shown : q.dir \in Seq(STRING)
    BY <1>1, ListenersAssumption DEF MatchingInv, Shown, Visible, LocalProcess
  <2>4. p \in named /\ p \in Shown /\ Match(p) # NoMatch
    BY DEF Passing, MatchesCommand
  <2>5. mapping.dir # <<>> /\ Match(p).rank \in Int /\ Match(p).rank >= 0
    BY <2>1, <2>3, <2>4, MatchType
  <2>6. ASSUME NEW q \in inPlace
        PROVE  p \in inPlace
    <3>1. q \in Shown /\ q.dir = mapping.dir
      OBVIOUS
    <3>2. Match(q) # NoMatch /\ Match(q).rank = 0
      BY <2>1, <2>5, <3>1, MatchType
    <3>3. q \in P
      BY <3>2 DEF Passing, MatchesCommand
    <3>4. ~(Match(q).rank < Match(p).rank)
      BY <2>2, <3>2, <3>3, <2>5 DEF BetterMatch
    <3>5. Match(p).rank <= 0
      BY <3>2, <3>4, <2>5
    <3>6. p.dir = mapping.dir
      BY <2>1, <2>3, <2>4, <3>5, MatchType
    <3> QED
      BY <2>4, <3>6
  <2> QED
    BY <2>2, <2>4, <2>6
<1> QED
  BY <1>1, AnswersAreDiscovered, PTL

-----------------------------------------------------------------------------
(* Discovery.                                                              *)

\* What is true of the process a record is about, whichever of its sockets is taken.
LEMMA TruthIs ==
  ASSUME NEW f, NEW l \in Listeners, f.pid = l.pid, f.port = l.port
  PROVE  /\ Truth(f) \in Listeners /\ Truth(f).pid = l.pid /\ Truth(f).port = l.port
         /\ Truth(f).ppid = l.ppid /\ Truth(f).dir = l.dir
         /\ Truth(f).words = l.words /\ Truth(f).ignored = l.ignored
<1> DEFINE t == Truth(f)
<1>1. t \in Listeners /\ t.pid = f.pid /\ t.port = f.port
  BY DEF Truth
<1> HIDE DEF t
<1>a. t \in Listeners /\ t.pid = l.pid /\ t.port = l.port
  BY <1>1
<1>2. /\ l = [t EXCEPT !.port = l.port, !.public = l.public, !.ignored = l.ignored]
      /\ t.ignored = l.ignored
  BY <1>a, ListenersAssumption
<1>3. t \in LocalProcess
  BY <1>1, ListenersAssumption
<1>4. t.ppid = l.ppid /\ t.dir = l.dir /\ t.words = l.words
  BY <1>2, <1>3 DEF LocalProcess
<1> QED
  BY <1>1, <1>2, <1>4 DEF t

\* A record is about a socket that was open at some time.
Known(f) == \E l \in was : l.pid = f.pid /\ l.port = f.port

\* The calls after the processes' arguments and directories were read.
Later == {"parents", "ps", "inspect", "resolve", "done"}

\* Whether the arguments, the directory, the parent of the candidate at i were
\* asked for.
ArgsAsked(i) ==
  \/ at \in Later
  \/ at = "read" /\ system = "darwin" /\ part = 2
  \/ at = "read" /\ system = "linux" /\ (i < turn \/ (i = turn /\ part = 2))

\* ... the directory ...
DirAsked(i) == at \in Later \/ (at = "read" /\ system = "linux" /\ i < turn)

\* ... the parent.
ParentAsked(i) ==
  IF system = "darwin" THEN ArgsAsked(i)
  ELSE at \in Later \ {"parents"} \/ (at = "parents" /\ i < turn)

\* What is known of a candidate then: nothing that is not true of its process, and
\* everything that was asked for while it ran.
Entry(f, args, dir, parent) ==
  /\ Known(f)
  /\ f.dir \in {<<>>, Truth(f).dir} /\ (~dir => f.dir = <<>>)
  /\ args /\ ~blind /\ (f.dir # <<>> \/ Lives(f)) =>
       /\ f.ignored = Truth(f).ignored
       /\ (system = "darwin" => f.ppid = Truth(f).ppid \/ Truth(f).ppid \in ended)
  /\ dir /\ ~less /\ Lives(f) => f.dir = Truth(f).dir
  /\ f.ppid \in {0, Truth(f).ppid} /\ (~parent => f.ppid = 0)
  /\ parent /\ system = "linux" =>
       f.ppid = Truth(f).ppid \/ Truth(f).ppid \in ended \/ f.pid \in ended

\* A parent that is known was running when its child was asked about, so what
\* decides whether it is listed is known of it too.
Pair(f, k) ==
  k.pid = f.ppid =>
    /\ k.ignored = Truth(k).ignored
    /\ system = "linux" /\ ~less => k.dir = Truth(k).dir

\* A listener that was there all the time, alone on its port.
Steady(l) == l \in stays /\ l.port >= 1024 /\ \A k \in was : k.port = l.port => k = l

\* What there is and was, and the types.
DTypes ==
  /\ listeners \in SUBSET Listeners /\ was \in SUBSET Listeners
  /\ listeners \subseteq was /\ stays \subseteq listeners
  /\ containers \in SUBSET Containers /\ runs \subseteq containers
  /\ ids \subseteq Containers /\ described \subseteq Containers
  /\ \A l \in listeners : l.pid \notin ended
  /\ found \in Seq(LocalProcess)

\* Which system makes which call.
DControl ==
  /\ system \in {"darwin", "linux"}
  /\ at \in {"list", "fallback", "tables", "read"} \cup Later
  /\ at \in {"list", "fallback", "tables"} => turn = 1 /\ part = 1 /\ ~blind
  /\ at \in {"list", "fallback", "tables"} => mapping = None
  /\ at \in {"tables", "parents"} => system = "linux"
  /\ at = "read" => part \in {1, 2}
  /\ turn \in Nat \ {0}
  /\ blind \in BOOLEAN /\ less \in BOOLEAN
  /\ blind => less /\ system = "darwin"

\* Every candidate is known as well as it was asked about ...
DEntries == \A i \in DOMAIN found : Entry(found[i], ArgsAsked(i), DirAsked(i), ParentAsked(i))

\* ... and its parent, if that is one.
DPairs == \A i, j \in DOMAIN found : Pair(found[i], found[j])

\* Who was there all the time is on the list.
DPresent ==
  ~less => \A l \in stays : Steady(l) =>
    /\ at = "tables" => l \in inodes
    /\ at \in {"read"} \cup Later /\ (at # "read" /\ system = "linux" => Kept(l)) =>
         \E i \in DOMAIN found : found[i].pid = l.pid /\ found[i].port = l.port

\* So is a container that ran all the time.
DDocker ==
  ~less =>
    /\ at = "inspect" => runs \subseteq ids
    /\ at \in {"resolve", "done"} => {c \in runs : c.project # OwnProject} \subseteq described

\* There is a mapping when all is known, of something that is wanted.
DMapped == (at # "done" => mapping = None) /\ MapsWhatIsWanted

\* The inductive invariant of a discovery.
DiscoveryInv ==
  /\ DTypes /\ DControl /\ DEntries /\ DPairs /\ DPresent /\ DDocker /\ DMapped

\* Lines of output are records of processes of which nothing is known.
LEMMA LinesAre ==
  ASSUME NEW L \in SUBSET Listeners, NEW seq \in Seq(L)
  PROVE  /\ Lines(seq) \in Seq(LocalProcess) /\ DOMAIN Lines(seq) = DOMAIN seq
         /\ \A i \in DOMAIN seq :
              /\ seq[i] \in L
              /\ Lines(seq)[i].pid = seq[i].pid /\ Lines(seq)[i].port = seq[i].port
              /\ Lines(seq)[i].dir = <<>> /\ Lines(seq)[i].ppid = 0
<1>1. \A i \in DOMAIN seq : seq[i] \in L /\ seq[i] \in LocalProcess
  <2>1. \A l \in L : l \in LocalProcess
    BY ListenersAssumption
  <2> QED
    BY <2>1
<1>2. DOMAIN seq = 1..Len(seq) /\ Len(seq) \in Nat
  OBVIOUS
<1>3. ASSUME NEW l \in LocalProcess
      PROVE  /\ Line(l) \in LocalProcess
             /\ Line(l).pid = l.pid /\ Line(l).port = l.port
             /\ Line(l).dir = <<>> /\ Line(l).ppid = 0
  <2>2. l.pid \in Nat \ {0} /\ l.port \in Nat /\ l.public \in BOOLEAN
    BY DEF LocalProcess
  <2>3. <<>> \in Seq(STRING) /\ {} \in SUBSET STRING
    OBVIOUS
  <2> QED
    BY <2>2, <2>3 DEF Line, LocalProcess
<1>4. Lines(seq) = [i \in 1..Len(seq) |-> Line(seq[i])]
  BY <1>2 DEF Lines
<1>5. Lines(seq) \in Seq(LocalProcess)
  <2>1. Lines(seq) \in [1..Len(seq) -> LocalProcess]
    BY <1>1, <1>2, <1>3, <1>4
  <2> QED
    BY <2>1, <1>2
<1> QED
  BY <1>1, <1>2, <1>3, <1>4, <1>5

\* The first line of each port: one of them, and that of a socket that is alone on
\* its port.
LEMMA FirstPerPortIs ==
  ASSUME NEW L, IsFiniteSet(L), NEW seq \in Orders(L)
  PROVE  /\ FirstPerPort(seq) \in Seq(L)
         /\ \A l \in L : (\A k \in L : k.port = l.port => k = l) => l \in Range(FirstPerPort(seq))
<1> DEFINE I == {i \in DOMAIN seq : \A j \in 1..i - 1 : seq[j].port # seq[i].port}
<1>1. FirstPerPort(seq) = At(seq, I)
  BY DEF FirstPerPort, FirstOfEach
<1>2. /\ seq \in Seq(L) /\ Range(seq) = L
      /\ \A i, j \in DOMAIN seq : seq[i] = seq[j] => i = j
  BY OrdersCover
<1>3. At(seq, I) \in Seq(L) /\ Range(At(seq, I)) = {seq[i] : i \in I \cap (1..Len(seq))}
  <2> HIDE DEF I
  <2> QED
    BY <1>2, AtType, AtRange
<1>4. ASSUME NEW l \in L, \A k \in L : k.port = l.port => k = l
      PROVE  l \in {seq[i] : i \in I \cap (1..Len(seq))}
  <2>1. DOMAIN seq = 1..Len(seq) /\ Len(seq) \in Nat /\ \A i \in 1..Len(seq) : seq[i] \in L
    BY <1>2
  <2>2. PICK i \in 1..Len(seq) : seq[i] = l
    BY <1>2, <2>1 DEF Range
  <2>3. ASSUME NEW j \in 1..i - 1, seq[j].port = seq[i].port
        PROVE  FALSE
    <3>1. j \in 1..Len(seq) /\ j # i
      BY <2>1
    <3>2. seq[j] = seq[i]
      BY <3>1, <2>1, <2>2, <2>3, <1>4
    <3> QED
      BY <3>1, <3>2, <2>1, <1>2
  <2>4. i \in I
    BY <2>1, <2>3
  <2> QED
    BY <2>2, <2>4
<1> QED
  BY <1>1, <1>3, <1>4

\* Of a new list nothing has been asked.
LEMMA FreshLines ==
  ASSUME DiscoveryInv, at \in {"list", "fallback", "tables"}, at' \in {"fallback", "read"},
         UNCHANGED <<system, turn, part, blind, world, answers>>,
         NEW L \in SUBSET listeners, NEW seq \in Seq(L), found' = Lines(seq)
  PROVE  found' \in Seq(LocalProcess) /\ DEntries' /\ DPairs'
<1>1. L \in SUBSET Listeners /\ L \subseteq was
  BY DEF DiscoveryInv, DTypes
<1>2. /\ found' \in Seq(LocalProcess) /\ DOMAIN found' = DOMAIN seq
      /\ \A i \in DOMAIN seq :
           /\ seq[i] \in L
           /\ found'[i].pid = seq[i].pid /\ found'[i].port = seq[i].port
           /\ found'[i].dir = <<>> /\ found'[i].ppid = 0
  BY <1>1, LinesAre
<1>3. turn' = 1 /\ part' = 1 /\ was' = was
  BY DEF DiscoveryInv, DControl, world
<1>4. \A i \in DOMAIN seq : i \in Nat \ {0}
  OBVIOUS
<1>5. \A i \in DOMAIN seq : ~ArgsAsked(i)' /\ ~DirAsked(i)' /\ ~ParentAsked(i)'
  BY <1>3, <1>4 DEF ArgsAsked, DirAsked, ParentAsked, Later
<1>6. DEntries'
  <2> SUFFICES ASSUME NEW i \in DOMAIN seq
               PROVE  Entry(found[i], ArgsAsked(i), DirAsked(i), ParentAsked(i))'
    BY <1>2 DEF DEntries
  <2>1. Known(found[i])'
    BY <1>1, <1>2, <1>3 DEF Known
  <2> QED
    BY <2>1, <1>2, <1>5 DEF Entry
<1>7. DPairs'
  <2> SUFFICES ASSUME NEW i \in DOMAIN seq, NEW j \in DOMAIN seq
               PROVE  Pair(found[i], found[j])'
    BY <1>2 DEF DPairs
  <2>1. found'[j] \in LocalProcess
    BY <1>2
  <2>2. found'[j].pid # 0
    BY <2>1 DEF LocalProcess
  <2> QED
    BY <2>2, <1>2 DEF Pair
<1> QED
  BY <1>2, <1>6, <1>7

\* Nothing is known at first.
LEMMA DiscoveryInvInit == DInit => DiscoveryInv
<1> SUFFICES ASSUME DInit
             PROVE  DiscoveryInv
  OBVIOUS
<1>1. DTypes
  BY DEF DInit, Init, DTypes
<1>2. DControl
  <2>1. /\ system \in {"darwin", "linux"} /\ at = "list" /\ mapping = None
        /\ turn = 1 /\ part = 1
    BY DEF DInit, Init
  <2>2. blind = FALSE /\ less = FALSE
    BY DEF DInit
  <2>3. ~blind /\ blind \in BOOLEAN /\ less \in BOOLEAN
    BY <2>2
  <2>4. turn \in Nat \ {0}
    BY <2>1
  <2> QED
    BY <2>1, <2>3, <2>4 DEF DControl
<1>3. DEntries /\ DPairs
  BY DEF DInit, DEntries, DPairs
<1>4. DPresent /\ DDocker /\ DMapped
  BY DEF DInit, Init, DPresent, DDocker, DMapped, MapsWhatIsWanted, Later
<1> QED
  BY <1>1, <1>2, <1>3, <1>4 DEF DiscoveryInv

\* The records of the list.
LEMMA RecordsAre ==
  ASSUME DiscoveryInv
  PROVE  /\ DOMAIN found = 1..Len(found) /\ Len(found) \in Nat
         /\ \A i \in DOMAIN found :
              /\ found[i] \in LocalProcess /\ found[i].pid # 0 /\ Known(found[i])
              /\ \E l \in Listeners : l.pid = found[i].pid /\ l.port = found[i].port
<1>1. found \in Seq(LocalProcess) /\ was \in SUBSET Listeners
  BY DEF DiscoveryInv, DTypes
<1>2. DOMAIN found = 1..Len(found) /\ Len(found) \in Nat /\ \A i \in DOMAIN found : found[i] \in LocalProcess
  BY <1>1
<1>3. \A f \in LocalProcess : f.pid # 0
  BY DEF LocalProcess
<1>4. \A i \in DOMAIN found : Known(found[i])
  BY DEF DiscoveryInv, DEntries, Entry
<1> QED
  BY <1>1, <1>2, <1>3, <1>4 DEF Known

\* Listing the sockets changes nothing but the list.
LEMMA ListingStep ==
  ASSUME DiscoveryInv, at \in {"list", "fallback", "tables"},
         at' \in {"fallback", "tables", "read"}, at' = "tables" => system = "linux",
         UNCHANGED <<system, turn, part, ids, described, blind, world, answers>>,
         less' \in BOOLEAN, found' \in Seq(LocalProcess), DEntries', DPairs', DPresent'
  PROVE  DiscoveryInv'
<1> USE DEF DiscoveryInv, world, answers
<1>1. DTypes'
  BY DEF DTypes
<1>2. DControl'
  BY DEF DControl
<1>3. DDocker'
  BY DEF DDocker
<1>4. DMapped'
  BY DEF DMapped, DControl, MapsWhatIsWanted
<1> QED
  BY <1>1, <1>2, <1>3, <1>4

\* The sockets that are looked for, any part of which a call may show.
LEMMA PortsAre ==
  ASSUME DiscoveryInv
  PROVE  /\ Ports \in SUBSET listeners /\ IsFiniteSet(Ports)
         /\ \A S \in SUBSET Ports : S \in SUBSET listeners /\ IsFiniteSet(S)
         /\ \A l \in stays : Steady(l) =>
              l \in Ports /\ \A k \in Ports : k.port = l.port => k = l
<1>1. IsFiniteSet(listeners) /\ Ports \in SUBSET listeners
  BY ListenersAssumption, FS_Subset DEF DiscoveryInv, DTypes, Ports
<1>2. \A S \in SUBSET Ports : S \in SUBSET listeners /\ IsFiniteSet(S)
  BY <1>1, FS_Subset
<1>3. \A l \in stays : Steady(l) =>
         l \in Ports /\ \A k \in Ports : k.port = l.port => k = l
  BY DEF DiscoveryInv, DTypes, Ports, Steady
<1> QED
  BY <1>1, <1>2, <1>3

\* The record of a socket that is on the list.
LEMMA LineOf ==
  ASSUME DiscoveryInv, NEW L \in SUBSET listeners, NEW seq \in Seq(L), found' = Lines(seq),
         NEW l \in Range(seq)
  PROVE  \E i \in DOMAIN found' : found'[i].pid = l.pid /\ found'[i].port = l.port
<1>1. L \in SUBSET Listeners
  BY DEF DiscoveryInv, DTypes
<1>2. PICK i \in DOMAIN seq : seq[i] = l
  BY DEF Range
<1>3. i \in DOMAIN found' /\ found'[i].pid = l.pid /\ found'[i].port = l.port
  BY <1>1, <1>2, LinesAre
<1> QED
  BY <1>3

\* lsof lists the first line of each port of those it shows.
LEMMA LsofStep == DiscoveryInv /\ Lsof => DiscoveryInv'
<1> SUFFICES ASSUME DiscoveryInv, Lsof
             PROVE  DiscoveryInv'
  OBVIOUS
<1>1. PICK shown \in SUBSET Ports : \E seq \in Orders(shown) :
          /\ found' = Lines(FirstPerPort(seq))
          /\ less' = (shown # Ports)
          /\ at' = IF shown = {} THEN "fallback" ELSE "read"
  BY DEF Lsof
<1>2. PICK seq \in Orders(shown) : found' = Lines(FirstPerPort(seq))
  BY <1>1
<1>3. /\ at = "list"
      /\ UNCHANGED <<system, inodes, turn, part, ids, described, blind, world, answers>>
  BY DEF Lsof
<1>4. shown \in SUBSET listeners /\ IsFiniteSet(shown)
  BY PortsAre
<1> DEFINE first == FirstPerPort(seq)
<1>5. /\ first \in Seq(shown)
      /\ \A l \in shown : (\A k \in shown : k.port = l.port => k = l) => l \in Range(first)
  BY <1>4, FirstPerPortIs
<1> HIDE DEF first
<1>6. found' = Lines(first)
  BY <1>2 DEF first
<1>7. found' \in Seq(LocalProcess) /\ DEntries' /\ DPairs'
  BY <1>1, <1>3, <1>4, <1>5, <1>6, FreshLines
<1>8. DPresent'
  <2> SUFFICES ASSUME ~less', NEW l \in stays', Steady(l)'
               PROVE  \E i \in DOMAIN found' : found'[i].pid = l.pid /\ found'[i].port = l.port
    BY <1>1, <1>3 DEF DPresent
  <2>1. shown = Ports
    BY <1>1
  <2>2. l \in stays /\ Steady(l)
    BY <1>3 DEF world, Steady
  <2>3. l \in Range(first)
    BY <2>1, <2>2, <1>5, PortsAre
  <2> QED
    BY <2>3, <1>4, <1>5, <1>6, LineOf
<1>9. at' \in {"fallback", "read"} /\ less' \in BOOLEAN
  BY <1>1
<1> QED
  BY <1>3, <1>7, <1>8, <1>9, ListingStep

\* netstat lists the first lines that have a process.
LEMMA NetstatStep == DiscoveryInv /\ Netstat => DiscoveryInv'
<1> SUFFICES ASSUME DiscoveryInv, Netstat
             PROVE  DiscoveryInv'
  OBVIOUS
<1>1. PICK owned \in SUBSET Ports, seq \in Orders(Ports) :
          /\ found' = Lines(At(FirstPerPort(seq),
                               {i \in DOMAIN FirstPerPort(seq) : FirstPerPort(seq)[i] \in owned}))
          /\ less' = (owned # Ports)
  BY DEF Netstat, Select
<1>2. /\ at = "fallback" /\ at' = "read"
      /\ UNCHANGED <<system, inodes, turn, part, ids, described, blind, world, answers>>
  BY DEF Netstat
<1>3. Ports \in SUBSET listeners /\ IsFiniteSet(Ports)
  BY PortsAre
<1> DEFINE first == FirstPerPort(seq)
           some == At(first, {i \in DOMAIN first : first[i] \in owned})
<1>4. /\ first \in Seq(Ports)
      /\ \A l \in Ports : (\A k \in Ports : k.port = l.port => k = l) => l \in Range(first)
  BY <1>3, FirstPerPortIs
<1>5. found' = Lines(some)
  BY <1>1
<1>6. some \in Seq(Ports) /\ Range(some) = Range(first) \cap owned
  <2>1. first \in Seq(Ports)
    BY <1>4
  <2> DEFINE I == {i \in DOMAIN first : first[i] \in owned}
  <2>2. I = {i \in DOMAIN first : first[i] \in owned}
    OBVIOUS
  <2> HIDE DEF first, I
  <2>3. At(first, I) \in Seq(Ports) /\ Range(At(first, I)) = Range(first) \cap owned
    BY <2>1, <2>2, SelectRange
  <2> QED
    BY <2>3 DEF I
<1> HIDE DEF first, some
<1>7. found' \in Seq(LocalProcess) /\ DEntries' /\ DPairs'
  BY <1>2, <1>3, <1>5, <1>6, FreshLines
<1>8. DPresent'
  <2> SUFFICES ASSUME ~less', NEW l \in stays', Steady(l)'
               PROVE  \E i \in DOMAIN found' : found'[i].pid = l.pid /\ found'[i].port = l.port
    BY <1>2 DEF DPresent
  <2>1. owned = Ports
    BY <1>1
  <2>2. l \in stays /\ Steady(l)
    BY <1>2 DEF world, Steady
  <2>3. l \in Range(some)
    BY <2>1, <2>2, <1>4, <1>6, PortsAre
  <2> QED
    BY <2>3, <1>3, <1>5, <1>6, LineOf
<1>9. less' \in BOOLEAN
  BY <1>1
<1> QED
  BY <1>2, <1>7, <1>8, <1>9, ListingStep

\* ss lists all it shows.
LEMMA SsStep == DiscoveryInv /\ Ss => DiscoveryInv'
<1> SUFFICES ASSUME DiscoveryInv, Ss
             PROVE  DiscoveryInv'
  OBVIOUS
<1>1. PICK owned \in SUBSET Ports : \E seq \in Orders(owned) :
          /\ found' = Lines(seq)
          /\ less' = (owned # Ports)
          /\ at' = IF owned = {} THEN "fallback" ELSE "read"
  BY DEF Ss
<1>2. PICK seq \in Orders(owned) : found' = Lines(seq)
  BY <1>1
<1>3. /\ at = "list"
      /\ UNCHANGED <<system, inodes, turn, part, ids, described, blind, world, answers>>
  BY DEF Ss
<1>4. owned \in SUBSET listeners /\ IsFiniteSet(owned)
  BY PortsAre
<1>5. seq \in Seq(owned) /\ Range(seq) = owned
  BY <1>4, OrdersCover
<1>6. at' \in {"fallback", "read"} /\ less' \in BOOLEAN
  BY <1>1
<1>7. found' \in Seq(LocalProcess) /\ DEntries' /\ DPairs'
  BY <1>2, <1>3, <1>4, <1>5, <1>6, FreshLines
<1>8. DPresent'
  <2> SUFFICES ASSUME ~less', NEW l \in stays', Steady(l)'
               PROVE  \E i \in DOMAIN found' : found'[i].pid = l.pid /\ found'[i].port = l.port
    BY <1>3, <1>6 DEF DPresent
  <2>1. owned = Ports
    BY <1>1
  <2>2. l \in stays /\ Steady(l)
    BY <1>3 DEF world, Steady
  <2>3. l \in Range(seq)
    BY <2>1, <2>2, <1>5, PortsAre
  <2> QED
    BY <2>3, <1>2, <1>4, <1>5, LineOf
<1> QED
  BY <1>3, <1>6, <1>7, <1>8, ListingStep

\* The owners in /proc are of sockets that are open.
LEMMA InodePidMapStep == DiscoveryInv /\ InodePidMap => DiscoveryInv'
<1> SUFFICES ASSUME DiscoveryInv, InodePidMap
             PROVE  DiscoveryInv'
  OBVIOUS
<1>1. PICK owned \in SUBSET Ports : inodes' = owned /\ less' = (owned # Ports)
  BY DEF InodePidMap
<1>2. /\ at = "fallback" /\ at' = "tables" /\ system = "linux"
      /\ UNCHANGED <<system, found, turn, part, ids, described, blind, world, answers>>
  BY DEF InodePidMap
<1>3. turn = 1 /\ part = 1 /\ found \in Seq(LocalProcess)
  BY <1>2 DEF DiscoveryInv, DControl, DTypes
<1>4. \A i \in DOMAIN found : found[i].pid # 0
  BY RecordsAre
<1>5. \A i \in DOMAIN found :
         /\ ~ArgsAsked(i) /\ ~DirAsked(i) /\ ~ParentAsked(i)
         /\ ~ArgsAsked(i)' /\ ~DirAsked(i)' /\ ~ParentAsked(i)'
  BY <1>2 DEF ArgsAsked, DirAsked, ParentAsked, Later
<1>6. \A i \in DOMAIN found : Known(found[i]) /\ found[i].dir = <<>> /\ found[i].ppid = 0
  BY <1>5 DEF DiscoveryInv, DEntries, Entry
<1>7. DEntries'
  <2> SUFFICES ASSUME NEW i \in DOMAIN found
               PROVE  Entry(found[i], ArgsAsked(i), DirAsked(i), ParentAsked(i))'
    BY <1>2 DEF DEntries
  <2>1. Known(found[i])'
    BY <1>2, <1>6 DEF Known, world
  <2> QED
    BY <2>1, <1>2, <1>5, <1>6 DEF Entry
<1>8. DPairs'
  BY <1>2, <1>4, <1>6 DEF DPairs, Pair
<1>9. DPresent'
  <2> SUFFICES ASSUME ~less', NEW l \in stays', Steady(l)'
               PROVE  l \in inodes'
    BY <1>2 DEF DPresent, Later
  <2>1. l \in stays /\ Steady(l)
    BY <1>2 DEF world, Steady
  <2> QED
    BY <2>1, <1>1, PortsAre
<1>10. less' \in BOOLEAN
  BY <1>1
<1> QED
  BY <1>2, <1>3, <1>7, <1>8, <1>9, <1>10, ListingStep

\* /proc/net/tcp lists the first lines whose owner was seen.
LEMMA TcpFileStep == DiscoveryInv /\ TcpFile => DiscoveryInv'
<1> SUFFICES ASSUME DiscoveryInv, TcpFile
             PROVE  DiscoveryInv'
  OBVIOUS
<1>1. PICK seq \in Orders(Ports) :
          found' = Lines(At(FirstPerPort(seq),
                            {i \in DOMAIN FirstPerPort(seq) : FirstPerPort(seq)[i] \in inodes}))
  BY DEF TcpFile, Select
<1>2. /\ at = "tables" /\ at' = "read"
      /\ UNCHANGED <<system, turn, part, ids, described, less, blind, world, answers>>
  BY DEF TcpFile
<1>3. Ports \in SUBSET listeners /\ IsFiniteSet(Ports)
  BY PortsAre
<1> DEFINE first == FirstPerPort(seq)
           some == At(first, {i \in DOMAIN first : first[i] \in inodes})
<1>4. /\ first \in Seq(Ports)
      /\ \A l \in Ports : (\A k \in Ports : k.port = l.port => k = l) => l \in Range(first)
  BY <1>3, FirstPerPortIs
<1>5. found' = Lines(some)
  BY <1>1
<1>6. some \in Seq(Ports) /\ Range(some) = Range(first) \cap inodes
  <2>1. first \in Seq(Ports)
    BY <1>4
  <2> DEFINE I == {i \in DOMAIN first : first[i] \in inodes}
  <2>2. I = {i \in DOMAIN first : first[i] \in inodes}
    OBVIOUS
  <2> HIDE DEF first, I
  <2>3. At(first, I) \in Seq(Ports) /\ Range(At(first, I)) = Range(first) \cap inodes
    BY <2>1, <2>2, SelectRange
  <2> QED
    BY <2>3 DEF I
<1> HIDE DEF first, some
<1>7. found' \in Seq(LocalProcess) /\ DEntries' /\ DPairs'
  BY <1>2, <1>3, <1>5, <1>6, FreshLines
<1>8. DPresent'
  <2> SUFFICES ASSUME ~less', NEW l \in stays', Steady(l)'
               PROVE  \E i \in DOMAIN found' : found'[i].pid = l.pid /\ found'[i].port = l.port
    BY <1>2 DEF DPresent
  <2>1. l \in stays /\ Steady(l) /\ ~less
    BY <1>2 DEF world, Steady
  <2>2. l \in inodes
    BY <1>2, <2>1 DEF DiscoveryInv, DPresent
  <2>3. l \in Range(some)
    BY <2>1, <2>2, <1>4, <1>6, PortsAre
  <2> QED
    BY <2>3, <1>3, <1>5, <1>6, LineOf
<1>9. less' \in BOOLEAN
  BY <1>2 DEF DiscoveryInv, DControl
<1> QED
  BY <1>2, <1>7, <1>8, <1>9, ListingStep

\* What a call tells of a process.
LEMMA ToldIs ==
  ASSUME NEW f \in LocalProcess, NEW l \in Listeners, l.pid = f.pid, l.port = f.port,
         NEW what \in {"args", "dir"}
  PROVE  LET g == Told(f, what)
         IN  /\ g \in LocalProcess /\ g.pid = f.pid /\ g.port = f.port
             /\ ~Lives(f) => g = f
             /\ Lives(f) /\ what = "dir" =>
                  g.dir = Truth(f).dir /\ g.ignored = f.ignored /\ g.ppid = f.ppid
             /\ Lives(f) /\ what = "args" =>
                  /\ g.dir = f.dir /\ g.ignored = Truth(f).ignored
                  /\ g.ppid = IF system = "darwin" THEN ParentOf(f) ELSE 0
<1> DEFINE t == Truth(f)
           q == IF system = "darwin" THEN ParentOf(f) ELSE 0
           a == [f EXCEPT !.words = t.words, !.ignored = t.ignored, !.ppid = q]
           d == [f EXCEPT !.dir = t.dir]
<1>1. t \in Listeners
  BY TruthIs
<1>2. t \in LocalProcess
  BY <1>1, ListenersAssumption
<1>3. q \in Nat
  BY <1>2 DEF ParentOf, LocalProcess
<1>4. Told(f, what) = IF ~Lives(f) THEN f ELSE IF what = "dir" THEN d ELSE a
  BY DEF Told
<1> HIDE DEF t, q
<1>5. d \in LocalProcess /\ d.pid = f.pid /\ d.port = f.port /\ d.dir = t.dir
      /\ d.ignored = f.ignored /\ d.ppid = f.ppid
  BY <1>2 DEF LocalProcess
<1>6. a \in LocalProcess /\ a.pid = f.pid /\ a.port = f.port /\ a.dir = f.dir
      /\ a.ignored = t.ignored /\ a.ppid = q
  BY <1>2, <1>3 DEF LocalProcess
<1> HIDE DEF a, d
<1> QED
  BY <1>4, <1>5, <1>6 DEF t, q

\* Asking about the processes on the list changes nothing but what is known of
\* them.
LEMMA AskingStep ==
  ASSUME DiscoveryInv, at \in {"read", "parents"},
         at' \in {"read", "parents", "ps"}, at' = "read" => part' \in {1, 2},
         at = "parents" => at' # "read", at' = "parents" => system = "linux",
         at' # "read" /\ system = "linux" => at = "parents",
         turn' \in Nat \ {0}, UNCHANGED <<system, ids, described, world, answers>>,
         less' \in BOOLEAN, blind' \in BOOLEAN, less => less',
         blind' => less' /\ system = "darwin",
         found' \in Seq(LocalProcess), DOMAIN found' = DOMAIN found,
         \A i \in DOMAIN found : found'[i].pid = found[i].pid /\ found'[i].port = found[i].port,
         DEntries', DPairs'
  PROVE  DiscoveryInv'
<1> USE DEF DiscoveryInv, world, answers
<1>1. DTypes'
  BY DEF DTypes
<1>2. DControl'
  BY DEF DControl, Later
<1>3. DPresent'
  <2> SUFFICES ASSUME ~less', NEW l \in stays', Steady(l)', at' # "read" /\ system = "linux" => Kept(l)
               PROVE  \E i \in DOMAIN found' : found'[i].pid = l.pid /\ found'[i].port = l.port
    BY DEF DPresent, Later
  <2>1. l \in stays /\ Steady(l)
    BY DEF Steady
  <2>2. \E i \in DOMAIN found : found[i].pid = l.pid /\ found[i].port = l.port
    BY <2>1 DEF DPresent, Later
  <2> QED
    BY <2>2
<1>4. DDocker'
  BY DEF DDocker
<1>5. DMapped'
  BY DEF DMapped, MapsWhatIsWanted, DControl
<1> QED
  BY <1>1, <1>2, <1>3, <1>4, <1>5

\* ps tells arguments and parents of who runs, lsof then directories: a parent that
\* ps names was asked about by the same ps.
LEMMA ReadBatchStep == DiscoveryInv /\ ReadBatch => DiscoveryInv'
<1> SUFFICES ASSUME DiscoveryInv, ReadBatch
             PROVE  DiscoveryInv'
  OBVIOUS
<1>1. /\ system = "darwin" /\ at = "read" /\ part' = part + 1
      /\ at' = IF part = Len(Reads) THEN "ps" ELSE "read"
      /\ UNCHANGED <<system, turn, inodes, ids, described, world, answers>>
  BY DEF ReadBatch
<1>2. Len(Reads) = 2 /\ Reads[1] = "args" /\ Reads[2] = "dir"
  BY DEF Reads
<1>3. part \in {1, 2} /\ turn \in Nat \ {0} /\ less \in BOOLEAN /\ blind \in BOOLEAN
  BY <1>1 DEF DiscoveryInv, DControl
<1> DEFINE what == Reads[part]
<1>4. what \in {"args", "dir"} /\ (what = "args" <=> part = 1)
  BY <1>2, <1>3
<1>5. \/ found' = [i \in DOMAIN found |-> Told(found[i], what)] /\ UNCHANGED <<less, blind>>
      \/ found' = found /\ less' = TRUE /\ blind' = (blind \/ what = "args")
  BY DEF ReadBatch, Batch, AllTold
<1> HIDE DEF what
<1>6. ASSUME NEW i \in DOMAIN found
      PROVE  /\ found[i] \in LocalProcess /\ Told(found[i], what) \in LocalProcess
             /\ Told(found[i], what).pid = found[i].pid /\ Told(found[i], what).port = found[i].port
             /\ ~Lives(found[i]) => Told(found[i], what) = found[i]
             /\ Lives(found[i]) /\ what = "dir" =>
                  /\ Told(found[i], what).dir = Truth(found[i]).dir
                  /\ Told(found[i], what).ignored = found[i].ignored
                  /\ Told(found[i], what).ppid = found[i].ppid
             /\ Lives(found[i]) /\ what = "args" =>
                  /\ Told(found[i], what).dir = found[i].dir
                  /\ Told(found[i], what).ignored = Truth(found[i]).ignored
                  /\ Told(found[i], what).ppid = ParentOf(found[i])
  <2>1. found[i] \in LocalProcess
    BY RecordsAre
  <2>2. PICK l \in Listeners : l.pid = found[i].pid /\ l.port = found[i].port
    BY RecordsAre
  <2> QED
    BY <1>1, <1>4, <2>1, <2>2, ToldIs
<1>7. found' \in Seq(LocalProcess) /\ DOMAIN found' = DOMAIN found
  <2>1. \A i \in 1..Len(found) : Told(found[i], what) \in LocalProcess /\ found[i] \in LocalProcess
    BY <1>6, RecordsAre
  <2>2. DOMAIN found = 1..Len(found) /\ Len(found) \in Nat
    BY RecordsAre
  <2>3. CASE found' = found
    BY <2>3 DEF DiscoveryInv, DTypes
  <2>4. CASE found' = [i \in DOMAIN found |-> Told(found[i], what)]
    BY <2>1, <2>2, <2>4
  <2> QED
    BY <2>3, <2>4, <1>5
<1>8. \A i \in DOMAIN found : found'[i].pid = found[i].pid /\ found'[i].port = found[i].port
  BY <1>5, <1>6
<1>9. ASSUME NEW i \in DOMAIN found
      PROVE  /\ Truth(found'[i]) = Truth(found[i])
             /\ (found'[i].pid \in ended') <=> (found[i].pid \in ended)
             /\ \E l \in was' : l.pid = found'[i].pid /\ l.port = found'[i].port
  <2>1. Truth(found'[i]) = Truth(found[i])
    BY <1>8 DEF Truth
  <2>2. \E l \in was : l.pid = found[i].pid /\ l.port = found[i].port
    BY RecordsAre DEF Known
  <2> QED
    BY <1>1, <1>8, <2>1, <2>2 DEF world
<1>10. \A i \in DOMAIN found :
          /\ ArgsAsked(i) <=> part = 2
          /\ ~DirAsked(i)
          /\ ParentAsked(i) <=> part = 2
          /\ ArgsAsked(i)' /\ ParentAsked(i)'
          /\ DirAsked(i)' <=> part = 2
  BY <1>1, <1>2, <1>3 DEF ArgsAsked, DirAsked, ParentAsked, Later
<1>11. ASSUME NEW i \in DOMAIN found
       PROVE  Entry(found[i], ArgsAsked(i), DirAsked(i), ParentAsked(i))'
  <2> DEFINE f == found[i]
             t == Truth(found[i])
  <2>1. Entry(f, ArgsAsked(i), DirAsked(i), ParentAsked(i))
    BY DEF DiscoveryInv, DEntries
  <2>2. /\ f.dir = <<>> /\ f.ppid \in {0, t.ppid} /\ (part = 1 => f.ppid = 0)
        /\ part = 2 /\ ~blind /\ Lives(f) =>
             f.ignored = t.ignored /\ (f.ppid = t.ppid \/ t.ppid \in ended)
    BY <2>1, <1>1, <1>3, <1>10 DEF Entry
  <2>3. ParentOf(f) = IF t.ppid \in ended THEN 0 ELSE t.ppid
    BY DEF ParentOf
  <2>4. /\ Truth(found'[i]) = t /\ (found'[i].pid \in ended' <=> ~Lives(f))
        /\ \E l \in was' : l.pid = found'[i].pid /\ l.port = found'[i].port
    BY <1>9 DEF Lives
  <2>5. CASE found' = found /\ less' = TRUE /\ blind' = (blind \/ what = "args")
    <3>1. part = 1 => blind'
      BY <2>5, <1>4
    <3>2. ~blind' => ~blind
      BY <2>5
    <3> QED
      BY <2>2, <2>4, <2>5, <3>1, <3>2, <1>1, <1>3, <1>10 DEF Entry, world, Known, Lives
  <2>6. CASE found' = [j \in DOMAIN found |-> Told(found[j], what)] /\ UNCHANGED <<less, blind>>
    <3> DEFINE g == Told(f, what)
    <3>1. found'[i] = g
      BY <2>6
    <3>2. /\ ~Lives(f) => g = f
          /\ Lives(f) /\ part = 2 => g.dir = t.dir /\ g.ignored = f.ignored /\ g.ppid = f.ppid
          /\ Lives(f) /\ part = 1 => g.dir = f.dir /\ g.ignored = t.ignored /\ g.ppid = ParentOf(f)
      BY <1>3, <1>4, <1>6
    <3> HIDE DEF g, f, t
    <3>3. /\ g.dir \in {<<>>, t.dir} /\ (part = 1 => g.dir = <<>>)
          /\ ~blind /\ (g.dir # <<>> \/ Lives(f)) =>
               g.ignored = t.ignored /\ (g.ppid = t.ppid \/ t.ppid \in ended)
          /\ part = 2 /\ Lives(f) => g.dir = t.dir
          /\ g.ppid \in {0, t.ppid}
      BY <3>2, <2>2, <2>3, <1>3
    <3> QED
      BY <3>1, <3>3, <2>4, <2>6, <1>1, <1>3, <1>10 DEF Entry, world, Known, Lives
  <2> QED
    BY <2>5, <2>6, <1>5
<1>12. ASSUME NEW i \in DOMAIN found, NEW j \in DOMAIN found
       PROVE  Pair(found[i], found[j])'
  <2> DEFINE f == found[i]
             k == found[j]
  <2>1. Entry(f, ArgsAsked(i), DirAsked(i), ParentAsked(i)) /\ Pair(f, k)
    BY DEF DiscoveryInv, DEntries, DPairs
  <2>2. part = 1 => f.ppid = 0
    BY <2>1, <1>3, <1>10 DEF Entry
  <2>3. k.pid = f.ppid => k.ignored = Truth(k).ignored
    BY <2>1 DEF Pair
  <2>4. Truth(found'[j]) = Truth(k) /\ found'[j].pid = k.pid /\ k.pid # 0
    BY <1>8, <1>9, RecordsAre
  <2>5. CASE found' = found
    BY <2>3, <2>4, <2>5, <1>1 DEF Pair
  <2>6. CASE found' = [n \in DOMAIN found |-> Told(found[n], what)]
    <3>1. found'[i] = Told(f, what) /\ found'[j] = Told(k, what)
      BY <2>6
    <3>2. CASE part = 2
      <4>1. found'[i].ppid = f.ppid /\ found'[j].ignored = k.ignored
        BY <3>1, <3>2, <1>4, <1>6
      <4> QED
        BY <4>1, <2>3, <2>4, <1>1 DEF Pair
    <3>3. CASE part = 1
      <4> SUFFICES ASSUME k.pid = found'[i].ppid
                   PROVE  found'[j].ignored = Truth(k).ignored
        BY <2>4, <1>1 DEF Pair
      <4>1. Lives(f)
        BY <3>1, <3>3, <2>2, <2>4, <1>6
      <4>2. k.pid = ParentOf(f)
        BY <4>1, <3>1, <3>3, <1>4, <1>6
      <4>3. Lives(k)
        BY <4>2, <2>4 DEF ParentOf, Lives
      <4> QED
        BY <4>3, <3>1, <3>3, <1>4, <1>6
    <3> QED
      BY <3>2, <3>3, <1>3
  <2> QED
    BY <2>5, <2>6, <1>5
<1>13. DEntries' /\ DPairs'
  BY <1>7, <1>11, <1>12 DEF DEntries, DPairs
<1>14. less' \in BOOLEAN /\ blind' \in BOOLEAN /\ (less => less') /\ (blind' => less')
  <2>1. blind => less
    BY DEF DiscoveryInv, DControl
  <2>2. CASE UNCHANGED <<less, blind>>
    BY <1>3, <2>1, <2>2
  <2>3. CASE less' = TRUE /\ blind' = (blind \/ what = "args")
    BY <2>3
  <2> QED
    BY <1>5, <2>2, <2>3
<1>15. at' \in {"read", "ps"} /\ (at' = "read" => part' \in {1, 2})
  BY <1>1, <1>2, <1>3
<1> QED
  BY <1>1, <1>3, <1>7, <1>8, <1>13, <1>14, <1>15, AskingStep

\* /proc tells arguments, then the directory, of one candidate.
LEMMA ReadProcessStep == DiscoveryInv /\ ReadProcess => DiscoveryInv'
<1> SUFFICES ASSUME DiscoveryInv, ReadProcess
             PROVE  DiscoveryInv'
  OBVIOUS
<1>1. /\ system = "linux" /\ at = "read" /\ turn \in DOMAIN found
      /\ IF part < Len(Reads) THEN part' = part + 1 /\ turn' = turn
                              ELSE part' = 1 /\ turn' = turn + 1
      /\ UNCHANGED <<system, at, inodes, ids, described, blind, world, answers>>
  BY DEF ReadProcess
<1>2. Len(Reads) = 2 /\ Reads[1] = "args" /\ Reads[2] = "dir"
  BY DEF Reads
<1>3. part \in {1, 2} /\ turn \in Nat \ {0} /\ less \in BOOLEAN /\ blind \in BOOLEAN
  BY <1>1 DEF DiscoveryInv, DControl
<1> DEFINE what == Reads[part]
           f == found[turn]
           t == Truth(f)
           g == Told(f, what)
<1>4. what \in {"args", "dir"} /\ (what = "args" <=> part = 1)
  BY <1>2, <1>3
<1>5. \/ found' = [found EXCEPT ![turn] = g] /\ less' = less
      \/ part = 2 /\ found' = found /\ less' = TRUE
  BY <1>2, <1>3 DEF ReadProcess
<1> HIDE DEF what
<1>6. PICK l \in Listeners : l.pid = f.pid /\ l.port = f.port
  BY <1>1, RecordsAre
<1>7. f \in LocalProcess /\ f.pid # 0
  BY <1>1, RecordsAre
<1> HIDE DEF f, t
<1>8. /\ g \in LocalProcess /\ g.pid = f.pid /\ g.port = f.port
      /\ ~Lives(f) => g = f
      /\ Lives(f) /\ part = 2 => g.dir = Truth(f).dir /\ g.ignored = f.ignored /\ g.ppid = f.ppid
      /\ Lives(f) /\ part = 1 => g.dir = f.dir /\ g.ignored = Truth(f).ignored /\ g.ppid = 0
  BY <1>1, <1>3, <1>4, <1>6, <1>7, ToldIs
<1> HIDE DEF g
<1>9. /\ DOMAIN found = 1..Len(found) /\ Len(found) \in Nat
      /\ found \in Seq(LocalProcess)
      /\ \A i \in DOMAIN found : found[i].pid # 0
  BY RecordsAre DEF DiscoveryInv, DTypes
<1>10. /\ found' \in Seq(LocalProcess) /\ DOMAIN found' = DOMAIN found
       /\ \A i \in DOMAIN found : i # turn => found'[i] = found[i]
       /\ \/ found'[turn] = g /\ less' = less
          \/ part = 2 /\ found'[turn] = f /\ less' = TRUE
  BY <1>1, <1>5, <1>8, <1>9 DEF f
<1>11. \A i \in DOMAIN found : found'[i].pid = found[i].pid /\ found'[i].port = found[i].port
  BY <1>8, <1>10 DEF f
<1>12. less' \in BOOLEAN /\ (less => less')
  <2>1. CASE less' = less
    BY <1>3, <2>1
  <2>2. CASE less' = TRUE
    BY <2>2
  <2> QED
    BY <1>10, <2>1, <2>2
<1>13. \A i \in DOMAIN found :
          /\ ~ParentAsked(i) /\ ~ParentAsked(i)'
          /\ ArgsAsked(i)' <=> ArgsAsked(i) \/ i = turn
          /\ DirAsked(i)' <=> DirAsked(i) \/ (i = turn /\ part = 2)
          /\ i = turn => (ArgsAsked(i) <=> part = 2) /\ ~DirAsked(i)
  BY <1>1, <1>2, <1>3, <1>9 DEF ArgsAsked, DirAsked, ParentAsked, Later
<1>14. \A i \in DOMAIN found : found[i].ppid = 0
  BY <1>13 DEF DiscoveryInv, DEntries, Entry
<1>15. found'[turn].ppid = 0
  BY <1>1, <1>3, <1>8, <1>10, <1>14 DEF f
<1>16. ASSUME NEW i \in DOMAIN found
       PROVE  Entry(found[i], ArgsAsked(i), DirAsked(i), ParentAsked(i))'
  <2>1. Entry(found[i], ArgsAsked(i), DirAsked(i), ParentAsked(i))
    BY DEF DiscoveryInv, DEntries
  <2>2. CASE i # turn
    <3>1. found'[i] = found[i]
      BY <1>10, <2>2
    <3> QED
      BY <2>1, <2>2, <3>1, <1>1, <1>12, <1>13 DEF Entry, Known, Lives, world
  <2>3. CASE i = turn
    <3>1. /\ f.dir = <<>> /\ \E k \in was : k.pid = f.pid /\ k.port = f.port
          /\ part = 2 /\ ~blind /\ Lives(f) => f.ignored = Truth(f).ignored
      BY <2>1, <2>3, <1>3, <1>13 DEF Entry, Known, f
    <3>2. Truth(g) = Truth(f)
      BY <1>8 DEF Truth
    <3>3. CASE found'[turn] = g /\ less' = less
      <4>1. /\ g.dir \in {<<>>, Truth(f).dir} /\ (part = 1 => g.dir = <<>>)
            /\ ~blind /\ (g.dir # <<>> \/ Lives(f)) => g.ignored = Truth(f).ignored
            /\ part = 2 /\ Lives(f) => g.dir = Truth(f).dir
        BY <3>1, <1>3, <1>8
      <4> QED
        BY <4>1, <3>1, <3>2, <3>3, <2>3, <1>1, <1>3, <1>8, <1>13, <1>15
        DEF Entry, Known, Lives, world
    <3>4. CASE part = 2 /\ found'[turn] = f /\ less' = TRUE
      BY <3>1, <3>4, <2>3, <1>1, <1>3, <1>13, <1>15 DEF Entry, Known, Lives, world
    <3> QED
      BY <3>3, <3>4, <1>10
  <2> QED
    BY <2>2, <2>3
<1>17. DEntries' /\ DPairs'
  <2>1. \A i, j \in DOMAIN found : found'[i].ppid = 0 /\ found'[j].pid # 0
    BY <1>9, <1>10, <1>11, <1>14, <1>15
  <2> QED
    BY <2>1, <1>10, <1>16 DEF DEntries, DPairs, Pair
<1>18. part' \in {1, 2} /\ turn' \in Nat \ {0}
  BY <1>1, <1>2, <1>3
<1>19. ~blind' /\ blind' \in BOOLEAN
  BY <1>1 DEF DiscoveryInv, DControl
<1> QED
  BY <1>1, <1>10, <1>11, <1>12, <1>17, <1>18, <1>19, AskingStep

\* The filter leaves the candidates that are wanted, of which all is known.
LEMMA FilterStep == DiscoveryInv /\ Filter => DiscoveryInv'
<1> SUFFICES ASSUME DiscoveryInv, Filter
             PROVE  DiscoveryInv'
  OBVIOUS
<1>1. /\ system = "linux" /\ at = "read" /\ at' = "parents" /\ turn \notin DOMAIN found /\ turn' = 1
      /\ UNCHANGED <<system, inodes, part, ids, described, less, blind, world, answers>>
      /\ found' = At(found, {i \in DOMAIN found : Kept(found[i])})
  BY DEF Filter, Select
<1>2. DOMAIN found = 1..Len(found) /\ Len(found) \in Nat /\ found \in Seq(LocalProcess)
      /\ turn \in Nat \ {0} /\ less \in BOOLEAN
  BY RecordsAre DEF DiscoveryInv, DTypes, DControl
<1> DEFINE I == {i \in DOMAIN found : Kept(found[i])}
           K == {f \in LocalProcess : Kept(f)}
<1>3. found' \in Seq(LocalProcess) /\ Range(found') = {found[i] : i \in I}
  <2>1. found \in Seq(LocalProcess)
    BY <1>2
  <2>2. I \cap (1..Len(found)) = I
    BY <1>2
  <2> HIDE DEF I
  <2>3. At(found, I) \in Seq(LocalProcess) /\ Range(At(found, I)) = {found[i] : i \in I \cap (1..Len(found))}
    BY <2>1, AtType, AtRange
  <2> QED
    BY <2>2, <2>3, <1>1 DEF I
<1>4. \A i \in DOMAIN found' : \E j \in DOMAIN found : found'[i] = found[j] /\ Kept(found[j])
  <2> SUFFICES ASSUME NEW i \in DOMAIN found'
               PROVE  \E j \in DOMAIN found : found'[i] = found[j] /\ Kept(found[j])
    OBVIOUS
  <2>1. found'[i] \in Range(found')
    BY DEF Range
  <2> QED
    BY <2>1, <1>3
<1>5. \A i \in DOMAIN found : ArgsAsked(i) /\ DirAsked(i) /\ ~ParentAsked(i)
  BY <1>1, <1>2 DEF ArgsAsked, DirAsked, ParentAsked, Later
<1>6. \A i \in DOMAIN found' : i \in Nat \ {0}
  BY <1>3
<1>7. \A i \in DOMAIN found' : ArgsAsked(i)' /\ DirAsked(i)' /\ ~ParentAsked(i)'
  BY <1>1, <1>6 DEF ArgsAsked, DirAsked, ParentAsked, Later
<1>8. DEntries'
  <2> SUFFICES ASSUME NEW i \in DOMAIN found'
               PROVE  Entry(found[i], ArgsAsked(i), DirAsked(i), ParentAsked(i))'
    BY DEF DEntries
  <2>1. PICK j \in DOMAIN found : found'[i] = found[j]
    BY <1>4
  <2>2. Entry(found[j], ArgsAsked(j), DirAsked(j), ParentAsked(j))
    BY DEF DiscoveryInv, DEntries
  <2> QED
    BY <2>1, <2>2, <1>1, <1>5, <1>7 DEF Entry, Known, Lives, world
<1>9. DPairs'
  <2> SUFFICES ASSUME NEW i \in DOMAIN found', NEW n \in DOMAIN found'
               PROVE  Pair(found[i], found[n])'
    BY DEF DPairs
  <2>1. PICK j \in DOMAIN found : found'[i] = found[j]
    BY <1>4
  <2>2. PICK m \in DOMAIN found : found'[n] = found[m]
    BY <1>4
  <2>3. found[j].ppid = 0 /\ found[m].pid # 0
    BY <1>5, RecordsAre DEF DiscoveryInv, DEntries, Entry
  <2> QED
    BY <2>1, <2>2, <2>3 DEF Pair
<1>10. DPresent'
  <2> SUFFICES ASSUME ~less', NEW l \in stays', Steady(l)', Kept(l)
               PROVE  \E i \in DOMAIN found' : found'[i].pid = l.pid /\ found'[i].port = l.port
    BY <1>1 DEF DPresent, Later
  <2>1. l \in stays /\ Steady(l) /\ ~less
    BY <1>1 DEF Steady, world
  <2>2. PICK i \in DOMAIN found : found[i].pid = l.pid /\ found[i].port = l.port
    BY <2>1, <1>1 DEF DiscoveryInv, DPresent
  <2>3. Entry(found[i], ArgsAsked(i), DirAsked(i), ParentAsked(i)) /\ ~blind
    BY <1>1 DEF DiscoveryInv, DEntries, DControl
  <2>4. l \in Listeners /\ l.pid \notin ended
    BY <2>1 DEF DiscoveryInv, DTypes
  <2>5. Truth(found[i]).dir = l.dir /\ Truth(found[i]).ignored = l.ignored
    BY <2>2, <2>4, TruthIs
  <2>6. Kept(found[i])
    BY <2>1, <2>2, <2>3, <2>4, <2>5, <1>5 DEF Entry, Kept, Lives
  <2>7. found[i] \in Range(found')
    BY <2>6, <1>3
  <2> QED
    BY <2>2, <2>7 DEF Range
<1>11. DTypes'
  BY <1>1, <1>3 DEF DiscoveryInv, DTypes, world
<1>12. DControl'
  BY <1>1 DEF DiscoveryInv, DControl, Later, world, answers
<1>13. DDocker'
  BY <1>1 DEF DiscoveryInv, DDocker, world
<1>14. DMapped'
  BY <1>1 DEF DiscoveryInv, DMapped, MapsWhatIsWanted, answers
<1> QED
  BY <1>8, <1>9, <1>10, <1>11, <1>12, <1>13, <1>14 DEF DiscoveryInv

\* The parent that is read runs, and so did when it was asked about itself.
LEMMA ReadParentStep == DiscoveryInv /\ ReadParent => DiscoveryInv'
<1> SUFFICES ASSUME DiscoveryInv, ReadParent
             PROVE  DiscoveryInv'
  OBVIOUS
<1> DEFINE f == found[turn]
           q == IF Lives(f) THEN ParentOf(f) ELSE 0
           g == [f EXCEPT !.ppid = q]
<1>1. /\ at = "parents" /\ turn \in DOMAIN found /\ turn' = turn + 1
      /\ found' = [found EXCEPT ![turn] = g]
      /\ UNCHANGED <<system, at, inodes, part, ids, described, less, blind, world, answers>>
  BY DEF ReadParent
<1>2. /\ DOMAIN found = 1..Len(found) /\ Len(found) \in Nat
      /\ found \in Seq(LocalProcess)
      /\ \A i \in DOMAIN found : found[i].pid # 0
      /\ turn \in Nat \ {0} /\ less \in BOOLEAN /\ ~blind /\ system = "linux"
      /\ blind \in BOOLEAN
  BY <1>1, RecordsAre DEF DiscoveryInv, DTypes, DControl
<1>3. f \in LocalProcess
  BY <1>1, RecordsAre
<1>4. PICK l \in Listeners : l.pid = f.pid /\ l.port = f.port
  BY <1>1, RecordsAre
<1> HIDE DEF f
<1>5. Truth(f) \in LocalProcess
  <2>1. Truth(f) \in Listeners
    BY <1>4, TruthIs
  <2> QED
    BY <2>1, ListenersAssumption
<1>6. q \in Nat /\ q = IF Lives(f) /\ Truth(f).ppid \notin ended THEN Truth(f).ppid ELSE 0
  BY <1>5 DEF ParentOf, LocalProcess
<1> HIDE DEF q
<1>7. /\ g \in LocalProcess /\ g.pid = f.pid /\ g.port = f.port /\ g.dir = f.dir
      /\ g.ignored = f.ignored /\ g.ppid = q
  BY <1>3, <1>6 DEF LocalProcess
<1> HIDE DEF g
<1>8. /\ found' \in Seq(LocalProcess) /\ DOMAIN found' = DOMAIN found
      /\ \A i \in DOMAIN found : i # turn => found'[i] = found[i]
      /\ found'[turn] = g
  BY <1>1, <1>2, <1>7
<1>9. \A i \in DOMAIN found : found'[i].pid = found[i].pid /\ found'[i].port = found[i].port
                               /\ found'[i].dir = found[i].dir /\ found'[i].ignored = found[i].ignored
  BY <1>7, <1>8 DEF f
<1>10. \A i \in DOMAIN found :
          /\ ArgsAsked(i) /\ DirAsked(i) /\ ArgsAsked(i)' /\ DirAsked(i)'
          /\ ParentAsked(i)' <=> ParentAsked(i) \/ i = turn
          /\ i = turn => ~ParentAsked(i)
  BY <1>1, <1>2 DEF ArgsAsked, DirAsked, ParentAsked, Later
<1>11. ASSUME NEW i \in DOMAIN found
       PROVE  Entry(found[i], ArgsAsked(i), DirAsked(i), ParentAsked(i))'
  <2>1. Entry(found[i], ArgsAsked(i), DirAsked(i), ParentAsked(i))
    BY DEF DiscoveryInv, DEntries
  <2>2. CASE i # turn
    BY <2>1, <2>2, <1>1, <1>2, <1>8, <1>10 DEF Entry, Known, Lives, world
  <2>3. CASE i = turn
    <3>1. /\ \E k \in was : k.pid = f.pid /\ k.port = f.port
          /\ f.dir \in {<<>>, Truth(f).dir}
          /\ f.dir # <<>> \/ Lives(f) => f.ignored = Truth(f).ignored
          /\ ~less /\ Lives(f) => f.dir = Truth(f).dir
      BY <2>1, <2>3, <1>2, <1>10 DEF Entry, Known, f
    <3>2. Truth(g) = Truth(f)
      BY <1>7 DEF Truth
    <3>3. /\ g.ppid \in {0, Truth(f).ppid}
          /\ g.ppid = Truth(f).ppid \/ Truth(f).ppid \in ended \/ f.pid \in ended
      BY <1>6, <1>7 DEF Lives
    <3> QED
      BY <3>1, <3>2, <3>3, <2>3, <1>1, <1>2, <1>7, <1>8, <1>10 DEF Entry, Known, Lives, world
  <2> QED
    BY <2>2, <2>3
<1>12. ASSUME NEW i \in DOMAIN found, NEW j \in DOMAIN found
       PROVE  Pair(found[i], found[j])'
  <2> DEFINE k == found[j]
  <2>1. Truth(found'[j]) = Truth(k) /\ k.pid # 0
    BY <1>2, <1>9 DEF Truth
  <2>2. Pair(found[i], k)
    BY DEF DiscoveryInv, DPairs
  <2>3. CASE i # turn
    BY <2>1, <2>2, <2>3, <1>1, <1>8, <1>9 DEF Pair
  <2>4. CASE i = turn
    <3> SUFFICES ASSUME k.pid = g.ppid
                 PROVE  k.ignored = Truth(k).ignored /\ (~less => k.dir = Truth(k).dir)
      BY <2>1, <2>4, <1>1, <1>8, <1>9 DEF Pair
    <3>1. Lives(k)
      BY <2>1, <1>6, <1>7 DEF Lives
    <3>2. Entry(k, ArgsAsked(j), DirAsked(j), ParentAsked(j))
      BY DEF DiscoveryInv, DEntries
    <3> QED
      BY <3>1, <3>2, <1>2, <1>10 DEF Entry
  <2> QED
    BY <2>3, <2>4
<1>13. DEntries' /\ DPairs'
  BY <1>8, <1>11, <1>12 DEF DEntries, DPairs
<1>14. turn' \in Nat \ {0} /\ less' \in BOOLEAN /\ blind' \in BOOLEAN /\ ~blind' /\ (less => less')
  BY <1>1, <1>2
<1> QED
  BY <1>1, <1>2, <1>8, <1>9, <1>13, <1>14, AskingStep

\* All parents are known then.
LEMMA ParentsReadStep == DiscoveryInv /\ ParentsRead => DiscoveryInv'
<1> SUFFICES ASSUME DiscoveryInv, ParentsRead
             PROVE  DiscoveryInv'
  OBVIOUS
<1>1. /\ at = "parents" /\ at' = "ps" /\ turn \notin DOMAIN found
      /\ UNCHANGED <<system, found, inodes, turn, part, ids, described, less, blind, world, answers>>
  BY DEF ParentsRead
<1>2. /\ DOMAIN found = 1..Len(found) /\ Len(found) \in Nat
      /\ found \in Seq(LocalProcess)
      /\ turn \in Nat \ {0} /\ less \in BOOLEAN /\ ~blind /\ system = "linux"
      /\ blind \in BOOLEAN
  BY <1>1, RecordsAre DEF DiscoveryInv, DTypes, DControl
<1>3. \A i \in DOMAIN found :
          /\ ArgsAsked(i) /\ DirAsked(i) /\ ParentAsked(i)
          /\ ArgsAsked(i)' /\ DirAsked(i)' /\ ParentAsked(i)'
  BY <1>1, <1>2 DEF ArgsAsked, DirAsked, ParentAsked, Later
<1>4. DEntries'
  <2> SUFFICES ASSUME NEW i \in DOMAIN found
               PROVE  Entry(found[i], ArgsAsked(i), DirAsked(i), ParentAsked(i))'
    BY <1>1 DEF DEntries
  <2>1. Entry(found[i], ArgsAsked(i), DirAsked(i), ParentAsked(i))
    BY DEF DiscoveryInv, DEntries
  <2> QED
    BY <2>1, <1>1, <1>3 DEF Entry, Known, Lives, world
<1>5. DPairs'
  BY <1>1 DEF DiscoveryInv, DPairs, Pair
<1>6. found' \in Seq(LocalProcess) /\ DOMAIN found' = DOMAIN found
      /\ \A i \in DOMAIN found : found'[i].pid = found[i].pid /\ found'[i].port = found[i].port
  BY <1>1, <1>2
<1>7. turn' \in Nat \ {0} /\ less' \in BOOLEAN /\ blind' \in BOOLEAN /\ ~blind' /\ (less => less')
  BY <1>1, <1>2
<1> QED
  BY <1>1, <1>2, <1>4, <1>5, <1>6, <1>7, AskingStep

\* The calls for the containers leave what is known of the processes.
LEMMA AnsweredStep ==
  ASSUME DiscoveryInv, at \in {"ps", "inspect", "resolve"},
         at' \in {"inspect", "resolve", "done"},
         UNCHANGED <<system, found, turn, blind, world>>, less' \in BOOLEAN, less => less',
         ids' \in SUBSET Containers, described' \in SUBSET Containers
  PROVE  DTypes' /\ DEntries' /\ DPairs' /\ DPresent'
         /\ (at' # "done" /\ mapping' = None => DControl')
<1>1. \A i \in DOMAIN found :
          /\ ArgsAsked(i) /\ DirAsked(i) /\ ParentAsked(i)
          /\ ArgsAsked(i)' /\ DirAsked(i)' /\ ParentAsked(i)'
  BY DEF ArgsAsked, DirAsked, ParentAsked, Later, DiscoveryInv, DControl
<1>2. DEntries'
  <2> SUFFICES ASSUME NEW i \in DOMAIN found
               PROVE  Entry(found[i], ArgsAsked(i), DirAsked(i), ParentAsked(i))'
    BY DEF DEntries
  <2>1. Entry(found[i], ArgsAsked(i), DirAsked(i), ParentAsked(i))
    BY DEF DiscoveryInv, DEntries
  <2> QED
    BY <2>1, <1>1 DEF Entry, Known, Lives, world
<1>3. DPairs'
  BY DEF DiscoveryInv, DPairs, Pair
<1>4. DPresent'
  <2> SUFFICES ASSUME ~less', NEW l \in stays', Steady(l)', system = "linux" => Kept(l)
               PROVE  \E i \in DOMAIN found' : found'[i].pid = l.pid /\ found'[i].port = l.port
    BY DEF DPresent, Later
  <2>1. l \in stays /\ Steady(l)
    BY DEF Steady, world
  <2> QED
    BY <2>1 DEF DiscoveryInv, DPresent, Later
<1>5. DTypes'
  BY DEF DiscoveryInv, DTypes, world
<1>6. DControl'
  BY DEF DiscoveryInv, DControl, Later
<1> QED
  BY <1>2, <1>3, <1>4, <1>5, <1>6

\* docker ps lists all containers, or fails.
LEMMA DockerPsStep == DiscoveryInv /\ DockerPs => DiscoveryInv'
<1> SUFFICES ASSUME DiscoveryInv, DockerPs
             PROVE  DiscoveryInv'
  OBVIOUS
<1>1. /\ at = "ps" /\ at' \in {"inspect", "resolve"}
      /\ at' = "resolve" <=> ids' = {}
      /\ UNCHANGED <<system, found, inodes, turn, part, described, blind, world, answers>>
  BY DEF DockerPs
<1>2. \/ ids' = containers /\ less' = less
      \/ ids' = {} /\ less' = TRUE
  BY DEF DockerPs
<1>3. /\ containers \in SUBSET Containers /\ described \in SUBSET Containers
      /\ runs \subseteq containers /\ less \in BOOLEAN
  BY DEF DiscoveryInv, DTypes, DControl
<1>4. less' \in BOOLEAN /\ (less => less') /\ ids' \in SUBSET Containers
      /\ (~less' => ids' = containers)
  <2>1. CASE ids' = containers /\ less' = less
    BY <1>3, <2>1
  <2>2. CASE ids' = {} /\ less' = TRUE
    BY <2>2
  <2> QED
    BY <1>2, <2>1, <2>2
<1>5. mapping' = None /\ mapping = None
  BY <1>1 DEF DiscoveryInv, DMapped, answers
<1>6. DTypes' /\ DEntries' /\ DPairs' /\ DPresent' /\ DControl'
  BY <1>1, <1>3, <1>4, <1>5, AnsweredStep
<1>7. DDocker'
  BY <1>1, <1>3, <1>4 DEF DDocker, world
<1>8. DMapped'
  BY <1>5, <1>1 DEF DMapped, MapsWhatIsWanted
<1> QED
  BY <1>6, <1>7, <1>8 DEF DiscoveryInv

\* docker inspect describes those that still run, or fails.
LEMMA DockerInspectStep == DiscoveryInv /\ DockerInspect => DiscoveryInv'
<1> SUFFICES ASSUME DiscoveryInv, DockerInspect
             PROVE  DiscoveryInv'
  OBVIOUS
<1>1. /\ at = "inspect" /\ at' = "resolve" /\ ids' = {}
      /\ UNCHANGED <<system, found, inodes, turn, part, blind, world, answers>>
  BY DEF DockerInspect
<1>2. \/ described' = {c \in ids \cap containers : c.project # OwnProject} /\ less' = less
      \/ described' = described /\ less' = TRUE
  BY DEF DockerInspect
<1>3. /\ containers \in SUBSET Containers /\ described \in SUBSET Containers
      /\ runs \subseteq containers /\ less \in BOOLEAN
      /\ ~less => runs \subseteq ids
  BY <1>1 DEF DiscoveryInv, DTypes, DControl, DDocker
<1>4. less' \in BOOLEAN /\ (less => less') /\ described' \in SUBSET Containers
      /\ (~less' => ~less /\ described' = {c \in ids \cap containers : c.project # OwnProject})
  <2>1. CASE described' = {c \in ids \cap containers : c.project # OwnProject} /\ less' = less
    BY <1>3, <2>1
  <2>2. CASE described' = described /\ less' = TRUE
    BY <1>3, <2>2
  <2> QED
    BY <1>2, <2>1, <2>2
<1>5. mapping' = None /\ mapping = None
  BY <1>1 DEF DiscoveryInv, DMapped, answers
<1>6. DTypes' /\ DEntries' /\ DPairs' /\ DPresent' /\ DControl'
  BY <1>1, <1>3, <1>4, <1>5, AnsweredStep
<1>7. DDocker'
  BY <1>1, <1>3, <1>4 DEF DDocker, world
<1>8. DMapped'
  BY <1>5, <1>1 DEF DMapped, MapsWhatIsWanted
<1> QED
  BY <1>6, <1>7, <1>8 DEF DiscoveryInv

\* What discovery lists is on the list of candidates.
LEMMA ListedIs ==
  ASSUME DiscoveryInv
  PROVE  /\ IsFiniteSet(Listed) /\ Listed \subseteq LocalProcess
         /\ \A p \in Listed : p \in RootsOf(Range(found)) /\ Kept(p)
                              /\ \E i \in DOMAIN found : p = found[i]
<1>1. found \in Seq(LocalProcess) /\ DOMAIN found = 1..Len(found) /\ Len(found) \in Nat
  BY RecordsAre DEF DiscoveryInv, DTypes
<1>2. \A p \in Listed : p \in RootsOf(Range(found))
  BY <1>1, DiscoveredAre DEF Listed, BestOf
<1>3. \A p \in RootsOf(Range(found)) : Kept(p) /\ p \in Range(found)
  BY DEF RootsOf
<1>4. IsFiniteSet(Range(found))
  <2> DEFINE n == Len(found)
             T == Range(found)
  <2>1. found \in Surjection(1..n, T)
    BY <1>1 DEF Surjection, Range
  <2>2. IsFiniteSet(1..n)
    BY <1>1, FS_Interval
  <2> QED
    BY <2>1, <2>2, FS_Surjection
<1>5. Listed \subseteq Range(found) /\ Range(found) \subseteq LocalProcess
  <2>1. \A p \in Listed : p \in Range(found)
    BY <1>2, <1>3
  <2>2. \A i \in DOMAIN found : found[i] \in LocalProcess
    BY RecordsAre
  <2> QED
    BY <2>1, <2>2 DEF Range
<1>6. IsFiniteSet(Listed)
  BY <1>4, <1>5, FS_Subset
<1> QED
  BY <1>2, <1>3, <1>5, <1>6 DEF Range

\* A mapping is of a candidate that passed the filter and has a directory: so its
\* arguments are known, too.
LEMMA ResolveStep == \A h \in Hostnames : DiscoveryInv /\ Resolve(h) => DiscoveryInv'
<1> SUFFICES ASSUME NEW h \in Hostnames, DiscoveryInv, Resolve(h)
             PROVE  DiscoveryInv'
  OBVIOUS
<1>1. /\ at = "resolve" /\ at' = "done"
      /\ UNCHANGED <<system, found, inodes, turn, part, ids, described, less, blind, world>>
  BY DEF Resolve
<1>2. PICK ps \in Orders(Listed), cs \in Orders(described) :
          mapping' = ResolveHeuristically(h, ps, cs)
  BY DEF Resolve, Listed
<1>3. described \in SUBSET Containers /\ ids \in SUBSET Containers /\ less \in BOOLEAN
  BY DEF DiscoveryInv, DTypes, DControl
<1>4. DTypes' /\ DEntries' /\ DPairs' /\ DPresent'
  BY <1>1, <1>3, AnsweredStep
<1>5. DControl'
  BY <1>1 DEF DiscoveryInv, DControl, Later
<1>6. DDocker'
  BY <1>1 DEF DiscoveryInv, DDocker, world
<1>7. ps \in Seq(Listed) /\ cs \in Seq(described)
  BY <1>3, ListedIs, ContainersAssumption, FS_Subset, OrdersCover
<1>8. ASSUME mapping' # None, mapping'.type = "process", ~blind
      PROVE  \E l \in was : l.port = mapping'.port /\ l.dir = mapping'.dir /\ ~l.ignored
  <2> DEFINE P == Listed
  <2>1. mapping' \in DockerMappings(described) \cup ProcessMappings({p \in P : ProcessMatches(p, h)})
    <3> HIDE DEF P
    <3> QED
      BY <1>2, <1>7, <1>8, AnswerType DEF P
  <2>2. mapping' \in ProcessMappings({p \in P : ProcessMatches(p, h)})
    BY <2>1, <1>8 DEF DockerMappings, DockerMapping
  <2>3. PICK p \in Listed : ProcessMatches(p, h) /\ mapping' = ProcessMapping(p)
    BY <2>2 DEF ProcessMappings
  <2>4. p.dir # <<>> /\ mapping'.port = p.port /\ mapping'.dir = p.dir
    BY <2>3 DEF ProcessMatches, ProcessMapping
  <2>5. PICK i \in DOMAIN found : p = found[i]
    BY ListedIs
  <2>6. Entry(p, TRUE, DirAsked(i), ParentAsked(i))
    BY <2>5, <1>1 DEF DiscoveryInv, DEntries, ArgsAsked, Later
  <2>7. PICK l \in was : l.pid = p.pid /\ l.port = p.port
    BY <2>6 DEF Entry, Known
  <2>8. l \in Listeners
    BY DEF DiscoveryInv, DTypes
  <2>9. Truth(p).dir = l.dir /\ Truth(p).ignored = l.ignored
    BY <2>7, <2>8, TruthIs
  <2>10. ~p.ignored
    BY ListedIs DEF Kept
  <2>11. p.dir = Truth(p).dir /\ p.ignored = Truth(p).ignored
    BY <2>4, <2>6, <1>8 DEF Entry
  <2> QED
    BY <2>4, <2>7, <2>9, <2>10, <2>11
<1>9. DMapped'
  BY <1>1, <1>8 DEF DMapped, MapsWhatIsWanted, world
<1> QED
  BY <1>4, <1>5, <1>6, <1>9 DEF DiscoveryInv

\* Whatever changes around the discovery.
LEMMA ChangeStep ==
  ASSUME DiscoveryInv, Change,
         listeners' \in SUBSET Listeners, containers' \in SUBSET Containers,
         ended \subseteq ended', \A l \in listeners' : l.pid \notin ended'
  PROVE  DiscoveryInv'
<1>1. /\ was' = was \cup listeners' /\ stays' = stays \cap listeners'
      /\ runs' = runs \cap containers'
      /\ UNCHANGED <<system, at, found, inodes, turn, part, ids, described, less, blind, mapping>>
  BY DEF Change, calls, answers
<1>2. DTypes'
  BY <1>1 DEF DiscoveryInv, DTypes
<1>3. DControl'
  BY <1>1 DEF DiscoveryInv, DControl, Later
<1>4. DEntries'
  <2> SUFFICES ASSUME NEW i \in DOMAIN found
               PROVE  Entry(found[i], ArgsAsked(i), DirAsked(i), ParentAsked(i))'
    BY <1>1 DEF DEntries
  <2>1. Entry(found[i], ArgsAsked(i), DirAsked(i), ParentAsked(i))
    BY DEF DiscoveryInv, DEntries
  <2>2. /\ ArgsAsked(i)' <=> ArgsAsked(i)
        /\ DirAsked(i)' <=> DirAsked(i)
        /\ ParentAsked(i)' <=> ParentAsked(i)
    BY <1>1 DEF ArgsAsked, DirAsked, ParentAsked
  <2> QED
    BY <1>1, <2>1, <2>2 DEF Entry, Known, Lives
<1>5. DPairs'
  BY <1>1 DEF DiscoveryInv, DPairs, Pair
<1>6. \A l \in stays' : Steady(l)' => l \in stays /\ Steady(l)
  BY <1>1 DEF Steady
<1>7. DPresent'
  BY <1>1, <1>6 DEF DiscoveryInv, DPresent
<1>8. DDocker'
  BY <1>1 DEF DiscoveryInv, DDocker
<1>9. DMapped'
  BY <1>1 DEF DiscoveryInv, DMapped, MapsWhatIsWanted
<1> QED
  BY <1>2, <1>3, <1>4, <1>5, <1>7, <1>8, <1>9 DEF DiscoveryInv

\* Every call and every change of the world keeps the invariant.
LEMMA DiscoveryInvStep == DiscoveryInv /\ [DNext]_dvars => DiscoveryInv'
<1> SUFFICES ASSUME DiscoveryInv, [DNext]_dvars
             PROVE  DiscoveryInv'
  OBVIOUS
<1>t. /\ listeners \in SUBSET Listeners /\ containers \in SUBSET Containers
      /\ \A l \in listeners : l.pid \notin ended
  BY DEF DiscoveryInv, DTypes
<1>1. CASE Lsof \/ Netstat \/ Ss \/ InodePidMap \/ TcpFile
  BY <1>1, LsofStep, NetstatStep, SsStep, InodePidMapStep, TcpFileStep
<1>2. CASE ReadBatch \/ ReadProcess \/ Filter \/ ReadParent \/ ParentsRead
  BY <1>2, ReadBatchStep, ReadProcessStep, FilterStep, ReadParentStep, ParentsReadStep
<1>3. CASE DockerPs \/ DockerInspect \/ \E h \in Hostnames : Resolve(h)
  BY <1>3, DockerPsStep, DockerInspectStep, ResolveStep
<1>4. ASSUME NEW l \in Listeners, Opens(l)
      PROVE  DiscoveryInv'
  BY <1>4, <1>t, ChangeStep DEF Opens
<1>5. ASSUME NEW l \in Listeners, Closes(l)
      PROVE  DiscoveryInv'
  BY <1>5, <1>t, ChangeStep DEF Closes
<1>6. ASSUME NEW l \in Listeners, Ends(l.pid)
      PROVE  DiscoveryInv'
  BY <1>6, <1>t, ChangeStep DEF Ends
<1>7. ASSUME NEW c \in Containers, ContainerStarts(c)
      PROVE  DiscoveryInv'
  BY <1>7, <1>t, ChangeStep DEF ContainerStarts
<1>8. ASSUME NEW c \in Containers, ContainerStops(c)
      PROVE  DiscoveryInv'
  BY <1>8, <1>t, ChangeStep DEF ContainerStops
<1>9. CASE UNCHANGED dvars
  <2>1. UNCHANGED <<system, at, found, inodes, turn, part, ids, described, less, blind, mapping,
                    listeners, containers, ended, was, stays, runs>>
    BY <1>9 DEF dvars, calls, world, answers
  <2>2. DTypes' /\ DControl'
    BY <2>1 DEF DiscoveryInv, DTypes, DControl
  <2>3. DEntries'
    <3> SUFFICES ASSUME NEW i \in DOMAIN found
                 PROVE  Entry(found[i], ArgsAsked(i), DirAsked(i), ParentAsked(i))'
      BY <2>1 DEF DEntries
    <3>1. Entry(found[i], ArgsAsked(i), DirAsked(i), ParentAsked(i))
      BY DEF DiscoveryInv, DEntries
    <3> QED
      BY <2>1, <3>1 DEF Entry, Known, Lives, ArgsAsked, DirAsked, ParentAsked
  <2>4. DPairs' /\ DPresent' /\ DDocker'
    BY <2>1 DEF DiscoveryInv, DPairs, Pair, DPresent, Steady, DDocker
  <2>5. DMapped'
    BY <2>1 DEF DiscoveryInv, DMapped, MapsWhatIsWanted
  <2> QED
    BY <2>2, <2>3, <2>4, <2>5 DEF DiscoveryInv
<1> QED
  BY <1>1, <1>2, <1>3, <1>4, <1>5, <1>6, <1>7, <1>8, <1>9 DEF DNext

\* Whatever order calls and changes come in, nothing is known of a candidate that is
\* not true of its process, and what was asked while it ran is known.
THEOREM KnownIsTrue == DSpec => []DiscoveryInv
  BY DiscoveryInvInit, DiscoveryInvStep, PTL DEF DSpec

\* No hostname is mapped to a process whose arguments exclude it, or that never
\* listened on the mapped port, however processes end between the calls.
THEOREM NothingIgnoredIsMapped == DSpec => []MapsWhatIsWanted
<1>1. DiscoveryInv => MapsWhatIsWanted
  BY DEF DiscoveryInv, DMapped
<1> QED
  BY <1>1, KnownIsTrue, PTL

\* A server or container that is there from the first call to the last is found, with
\* its directory, whatever other ones come or go meanwhile.
THEOREM WhatStaysIsListed == DSpec => []StaysListed
<1>1. DiscoveryInv => StaysListed
  <2> SUFFICES ASSUME DiscoveryInv, at = "done", ~less
               PROVE  /\ \A l \in stays :
                           /\ Kept(l) /\ l.port >= 1024
                           /\ \A k \in was :
                                 /\ k.port = l.port => k = l
                                 /\ k.pid = l.ppid => IF system = "darwin" THEN k.ignored ELSE ~Kept(k)
                           => \E p \in Listed : p.pid = l.pid /\ p.dir = l.dir
                      /\ {c \in runs : c.project # OwnProject} \subseteq described
    BY DEF StaysListed
  <2>0. ~blind /\ system \in {"darwin", "linux"} /\ found \in Seq(LocalProcess)
    BY DEF DiscoveryInv, DControl, DTypes
  <2>1. \A i \in DOMAIN found : Entry(found[i], TRUE, TRUE, TRUE)
    BY <2>0 DEF DiscoveryInv, DEntries, ArgsAsked, DirAsked, ParentAsked, Later
  <2>2. ASSUME NEW l \in stays, Kept(l), l.port >= 1024,
               \A k \in was :
                 /\ k.port = l.port => k = l
                 /\ k.pid = l.ppid => IF system = "darwin" THEN k.ignored ELSE ~Kept(k)
        PROVE  \E p \in Listed : p.pid = l.pid /\ p.dir = l.dir
    <3>1. Steady(l)
      BY <2>2 DEF Steady
    <3>2. PICK i \in DOMAIN found : found[i].pid = l.pid /\ found[i].port = l.port
      BY <2>2, <3>1 DEF DiscoveryInv, DPresent, Later
    <3> DEFINE f == found[i]
               R == RootsOf(Range(found))
    <3>3. l \in Listeners /\ l \in was /\ l.pid \notin ended
      BY DEF DiscoveryInv, DTypes
    <3>4. Truth(f).dir = l.dir /\ Truth(f).ignored = l.ignored /\ Truth(f).ppid = l.ppid
      BY <3>2, <3>3, TruthIs
    <3>5. f.dir = l.dir /\ f.ignored = l.ignored /\ f.ppid \in {0, l.ppid}
      BY <3>2, <3>3, <3>4, <2>0, <2>1 DEF Entry, Lives
    <3>6. Kept(f)
      BY <3>5, <2>2 DEF Kept
    <3>7. ASSUME NEW j \in DOMAIN found, Kept(found[j]), found[j].pid = f.ppid
          PROVE  FALSE
      <4> DEFINE k == found[j]
      <4>1. k.pid # 0
        BY RecordsAre
      <4>2. k.pid = l.ppid
        BY <4>1, <3>5, <3>7
      <4>3. PICK m \in was : m.pid = k.pid /\ m.port = k.port
        BY RecordsAre DEF Known
      <4>4. m \in Listeners
        BY DEF DiscoveryInv, DTypes
      <4>5. Truth(k).dir = m.dir /\ Truth(k).ignored = m.ignored
        BY <4>3, <4>4, TruthIs
      <4>6. Pair(f, k)
        BY DEF DiscoveryInv, DPairs
      <4>7. IF system = "darwin" THEN m.ignored ELSE ~Kept(m)
        BY <4>2, <4>3, <2>2
      <4>8. k.ignored = m.ignored /\ (system = "linux" => k.dir = m.dir)
        BY <4>5, <4>6, <3>7 DEF Pair
      <4> QED
        BY <4>7, <4>8, <2>0, <3>7 DEF Kept
    <3>8. f \in R
      BY <3>6, <3>7 DEF RootsOf, Range
    <3>9. PICK d \in Listed : BestOf(R, f.pid, d)
      BY <3>8, <2>0, DiscoveredAre DEF Listed
    <3>10. d.pid = l.pid
      BY <3>2, <3>9 DEF BestOf
    <3>11. PICK n \in DOMAIN found : d = found[n]
      BY ListedIs
    <3>12. Entry(d, TRUE, TRUE, TRUE)
      BY <2>1, <3>11
    <3>13. PICK m \in was : m.pid = d.pid /\ m.port = d.port
      BY <3>12 DEF Entry, Known
    <3>14. m \in Listeners
      BY DEF DiscoveryInv, DTypes
    <3>15. m.dir = l.dir
      <4> DEFINE a == m
                 b == l
      <4>1. m = [l EXCEPT !.port = m.port, !.public = m.public, !.ignored = m.ignored]
        <5>1. a \in Listeners /\ b \in Listeners /\ b.pid = a.pid
          BY <3>3, <3>10, <3>13, <3>14
        <5> HIDE DEF a, b
        <5>2. a = [b EXCEPT !.port = a.port, !.public = a.public, !.ignored = a.ignored]
          BY <5>1, ListenersAssumption
        <5> QED
          BY <5>2 DEF a, b
      <4>2. l \in LocalProcess
        BY <3>3, ListenersAssumption
      <4> QED
        BY <4>1, <4>2 DEF LocalProcess
    <3>16. Truth(d).dir = m.dir
      BY <3>13, <3>14, TruthIs
    <3>17. d.dir = Truth(d).dir
      BY <3>3, <3>10, <3>12 DEF Entry, Lives
    <3> QED
      BY <3>10, <3>15, <3>16, <3>17
  <2>3. {c \in runs : c.project # OwnProject} \subseteq described
    BY DEF DiscoveryInv, DDocker
  <2> QED
    BY <2>2, <2>3
<1> QED
  BY <1>1, KnownIsTrue, PTL

\* No process is listed beside its parent: the filter of child processes compares
\* parents that were read of who was listed (processes.go:169).
THEOREM NoChildBesideItsParent == DSpec => []ChildrenHidden
<1>1. DiscoveryInv => ChildrenHidden
  <2> SUFFICES ASSUME DiscoveryInv, at = "done", ~blind, NEW k \in Listed, NEW l \in Listed,
                      Truth(l).ppid = k.pid, l.dir # <<>>, k.pid \notin ended,
                      ~(system = "linux" /\ l.pid \in ended)
               PROVE  FALSE
    BY DEF ChildrenHidden
  <2>1. PICK i \in DOMAIN found : l = found[i]
    BY ListedIs
  <2>2. system \in {"darwin", "linux"}
    BY DEF DiscoveryInv, DControl
  <2>3. Entry(l, TRUE, TRUE, TRUE)
    BY <2>1, <2>2 DEF DiscoveryInv, DEntries, ArgsAsked, DirAsked, ParentAsked, Later
  <2>4. l.ppid = k.pid
    BY <2>2, <2>3 DEF Entry
  <2>5. l \in RootsOf(Range(found)) /\ k \in RootsOf(Range(found)) /\ Kept(k)
    BY ListedIs
  <2> QED
    BY <2>4, <2>5 DEF RootsOf
<1> QED
  BY <1>1, KnownIsTrue, PTL
=============================================================================
