---------------------------- MODULE EngineProofs ----------------------------
(***************************************************************************)
(* Theorems about Engine, for every set of plans and sites: the processes  *)
(* use the registry as NicRegistry says it may be used, ingest leaves a    *)
(* prefix of its discovery, registers records in an order in which no      *)
(* reference dangles, and a query selects live evidence only.              *)
(***************************************************************************)
EXTENDS Engine, RegistryTableProofs, OrderLemmas

-----------------------------------------------------------------------------
(* The calls of an ingest                                                  *)

\* A call as the registry takes it.
IsCall(c) ==
    \/ c.kind = "nic" /\ c.id \in Nics \cup {None} /\ c.rec \in NicInput
    \/ c.kind = "gpu" /\ c.id \in Gpus /\ c.rec \in GpuRecord
    \/ c.kind = "topology" /\ c.generation \in TopologyGenerations
    \/ /\ c.kind = "function" /\ c.id \in Functions
       /\ \A w \in Workers, b \in Boots : c.rec \in FunctionInput(w, b)
       /\ c.rec.generation \in Generations /\ c.rec.parent_nic \in Nics
    \/ /\ c.kind = "port" /\ c.id \in Ports /\ c.rec \in PortRecord
       /\ c.rec.parent_function \in Functions
    \/ c.kind = "queue" /\ c.id \in Queues /\ c.rec \in QueueInput

\* What a call refers to is named by one of the calls of P.
Anchored(c, P) ==
    /\ c.kind \in {"function", "port", "queue"} =>
          \E p \in P : p.kind = "nic" /\ p.id = c.rec.parent_nic
    /\ c.kind \in {"port", "queue"} =>
          \E p \in P : p.kind = "function" /\ p.id = c.rec.parent_function

\* Every call of s refers to earlier calls only.
Closed(s) ==
    \A k \in DOMAIN s : Anchored(s[k], {s[j] : j \in 1 .. k - 1})

\* A sequence of calls as ingest makes them.
IsIngest(s) ==
    /\ s \in Seq(ItemsOf(s))
    /\ \A k \in DOMAIN s : IsCall(s[k])
    /\ Closed(s)

\* The NICs and the functions of a discovery are named by calls of P.
NamesNics(P, d) ==
    \A n \in Nics : n \in IdsOf(d.nics) =>
        \E p \in P : p.kind = "nic" /\ p.id = n
NamesFunctions(P, d) ==
    \A f \in Functions : f \in IdsOf(d.functions) =>
        \E p \in P : p.kind = "function" /\ p.id = f

\* A call that is anchored stays so among more calls.
LEMMA AnchoredAmongMore ==
    ASSUME NEW c, NEW P, NEW Q, P \subseteq Q, Anchored(c, P)
    PROVE  Anchored(c, Q)
BY DEF Anchored

\* Calls that refer to what s registers may follow s.
LEMMA FollowedBy ==
    ASSUME NEW s, NEW t, IsIngest(s), t \in Seq(ItemsOf(t)),
           \A k \in DOMAIN t : IsCall(t[k]) /\ Anchored(t[k], ItemsOf(s))
    PROVE  /\ IsIngest(s \o t)
           /\ ItemsOf(s) \cup ItemsOf(t) = ItemsOf(s \o t)
<1> DEFINE S == ItemsOf(s) \cup ItemsOf(t)
           u == s \o t
<1>1. /\ Len(s) \in Nat /\ Len(t) \in Nat
      /\ DOMAIN s = 1 .. Len(s) /\ DOMAIN t = 1 .. Len(t)
      /\ s \in Seq(S) /\ t \in Seq(S)
  <2>1. s \in Seq(ItemsOf(s))
    BY DEF IsIngest
  <2>2. /\ Len(s) \in Nat /\ Len(t) \in Nat
        /\ DOMAIN s = 1 .. Len(s) /\ DOMAIN t = 1 .. Len(t)
    BY <2>1, LenProperties
  <2> QED
    BY <2>1, <2>2, SeqDef
<1>2. /\ u \in Seq(S) /\ Len(u) = Len(s) + Len(t) /\ DOMAIN u = 1 .. Len(u)
      /\ \A i \in 1 .. Len(s) + Len(t) :
            u[i] = IF i <= Len(s) THEN s[i] ELSE t[i - Len(s)]
  BY <1>1, ConcatProperties, LenProperties
<1> HIDE DEF u
<1>3. ASSUME NEW k \in DOMAIN u
      PROVE  \/ k \in DOMAIN s /\ u[k] = s[k]
             \/ k - Len(s) \in DOMAIN t /\ u[k] = t[k - Len(s)] /\ k > Len(s)
  BY <1>1, <1>2
<1>4. \A k \in DOMAIN s : k \in DOMAIN u /\ u[k] = s[k]
  BY <1>1, <1>2
<1>5. \A k \in DOMAIN t : k + Len(s) \in DOMAIN u /\ u[k + Len(s)] = t[k]
  BY <1>1, <1>2
<1>6. S = ItemsOf(u)
  BY <1>3, <1>4, <1>5 DEF ItemsOf
<1>7. \A k \in DOMAIN u : IsCall(u[k])
  BY <1>3 DEF IsIngest
<1>8. ASSUME NEW k \in DOMAIN u
      PROVE  Anchored(u[k], {u[j] : j \in 1 .. k - 1})
  <2> DEFINE P == {u[j] : j \in 1 .. k - 1}
  <2>1. CASE k \in DOMAIN s /\ u[k] = s[k]
    <3>1. {s[j] : j \in 1 .. k - 1} \subseteq P
      BY <1>1, <1>4, <2>1
    <3>2. Anchored(s[k], {s[j] : j \in 1 .. k - 1})
      BY <2>1 DEF IsIngest, Closed
    <3> HIDE DEF P
    <3>3. Anchored(s[k], P)
      BY <3>1, <3>2, AnchoredAmongMore
    <3> QED
      BY <2>1, <3>3 DEF P
  <2>2. CASE k - Len(s) \in DOMAIN t /\ u[k] = t[k - Len(s)] /\ k > Len(s)
    <3>1. ItemsOf(s) \subseteq P
      BY <1>1, <1>2, <1>4, <2>2 DEF ItemsOf
    <3> HIDE DEF P
    <3>2. Anchored(u[k], P)
      BY <2>2, <3>1, AnchoredAmongMore
    <3> QED
      BY <3>2 DEF P
  <2> QED
    BY <1>3, <2>1, <2>2
<1> QED
  BY <1>2, <1>6, <1>7, <1>8 DEF IsIngest, Closed, u

\* A record per element makes a sequence of as many.
LEMMA EachIsSequence ==
    ASSUME NEW R, NEW s \in Seq(R), NEW t, DOMAIN t = DOMAIN s,
           t = [i \in DOMAIN s |-> t[i]]
    PROVE  t \in Seq(ItemsOf(t)) /\ DOMAIN t = DOMAIN s
<1>1. Len(s) \in Nat /\ DOMAIN s = 1 .. Len(s)
  BY LenProperties
<1>2. t \in [1 .. Len(s) -> ItemsOf(t)]
  BY <1>1 DEF ItemsOf
<1> QED
  BY <1>1, <1>2, SeqDef

\* The elements of a sequence.
LEMMA ElementsIn ==
    ASSUME NEW R, NEW s \in Seq(R), NEW i \in DOMAIN s
    PROVE  s[i] \in R
BY ElementOfSeq, LenProperties

\* What ingest calls for the NICs.
LEMMA NicCalls ==
    ASSUME NEW d, IsDiscovery(d),
           NEW t, t = [i \in DOMAIN d.nics |-> NicCall(d.nics[i])]
    PROVE  /\ IsIngest(t)
           /\ NamesNics(ItemsOf(t), d)
<1> DEFINE s == d.nics
<1>1. s \in Seq(NicFound)
  BY DEF IsDiscovery
<1>2. /\ DOMAIN t = DOMAIN s /\ t = [i \in DOMAIN s |-> t[i]]
      /\ \A i \in DOMAIN s : t[i] = NicCall(s[i])
  OBVIOUS
<1>3. \A i \in DOMAIN s : s[i] \in NicFound
  BY <1>1, ElementsIn
<1>4. ASSUME NEW r \in NicFound
      PROVE  /\ NicCall(r).kind = "nic" /\ IsCall(NicCall(r))
             /\ NicCall(r).id = IF r.id = 0 THEN None ELSE r.id
  <2>1. Without(r, {"id"}) \in NicInput
    BY DEF NicFound, NicInput, Without
  <2>2. r.id \in Nics \cup {0}
    BY DEF NicFound
  <2> QED
    BY <2>1, <2>2 DEF NicCall, IsCall
<1>5. t \in Seq(ItemsOf(t))
  BY <1>1, <1>2, EachIsSequence
<1>6. \A i \in DOMAIN t : IsCall(t[i]) /\ t[i].kind = "nic"
  BY <1>2, <1>3, <1>4
<1>7. Closed(t)
  BY <1>6 DEF Closed, Anchored
<1>8. ASSUME NEW n \in Nics, n \in IdsOf(s)
      PROVE  \E c \in ItemsOf(t) : c.kind = "nic" /\ c.id = n
  <2>1. PICK i \in DOMAIN s : s[i].id = n
    BY <1>8 DEF IdsOf
  <2>2. t[i].kind = "nic" /\ t[i].id = n
    BY <1>2, <1>3, <1>4, <2>1, PlansAssumption
  <2> QED
    BY <1>2, <2>2 DEF ItemsOf
<1> QED
  BY <1>5, <1>6, <1>7, <1>8 DEF IsIngest, NamesNics

\* What ingest calls for the GPUs.
LEMMA GpuCalls ==
    ASSUME NEW d, IsDiscovery(d),
           NEW t, t = [i \in DOMAIN d.gpus |-> GpuCall(d.gpus[i])]
    PROVE  /\ t \in Seq(ItemsOf(t))
           /\ \A k \in DOMAIN t :
                 /\ IsCall(t[k])
                 /\ t[k].kind = "gpu"
<1> DEFINE s == d.gpus
<1>1. s \in Seq(ItemsOf(s))
  BY DEF IsDiscovery
<1>2. /\ DOMAIN t = DOMAIN s /\ t = [i \in DOMAIN s |-> t[i]]
      /\ \A i \in DOMAIN s : t[i] = GpuCall(s[i])
  OBVIOUS
<1>3. \A i \in DOMAIN s : s[i].id \in Gpus /\ s[i].generation \in Generations
  BY DEF IsDiscovery, ItemsOf
<1>4. ASSUME NEW r, r.id \in Gpus, r.generation \in Generations
      PROVE  IsCall(GpuCall(r)) /\ GpuCall(r).kind = "gpu"
  BY <1>4 DEF GpuCall, IsCall, GpuRecord
<1>5. t \in Seq(ItemsOf(t))
  BY <1>1, <1>2, EachIsSequence
<1>6. \A i \in DOMAIN t : IsCall(t[i]) /\ t[i].kind = "gpu"
  BY <1>2, <1>3, <1>4
<1> QED
  BY <1>5, <1>6

\* What ingest calls for the topology.
LEMMA TopologyCall ==
    ASSUME NEW x
    PROVE  /\ TopologyCalls(x) \in Seq(ItemsOf(TopologyCalls(x)))
           /\ \A k \in DOMAIN TopologyCalls(x) :
                 /\ IsCall(TopologyCalls(x)[k])
                 /\ TopologyCalls(x)[k].kind = "topology"
<1> DEFINE c == [kind |-> "topology", generation |-> 1, fabric |-> x]
<1>1. CASE x = NoTopology
  <2>1. TopologyCalls(x) = << >>
    BY <1>1 DEF TopologyCalls
  <2> QED
    BY <2>1, EmptySeq
<1>2. CASE x # NoTopology
  <2>1. TopologyCalls(x) = <<c>>
    BY <1>2 DEF TopologyCalls
  <2>2. IsCall(c) /\ c.kind = "topology"
    BY PlansAssumption DEF IsCall
  <2> HIDE DEF c
  <2>3. /\ <<c>> \in Seq({c}) /\ DOMAIN <<c>> = {1} /\ <<c>>[1] = c
        /\ ItemsOf(<<c>>) = {c}
    BY DEF ItemsOf
  <2> QED
    BY <2>1, <2>2, <2>3
<1> QED
  BY <1>1, <1>2

\* What ingest calls for the functions.
LEMMA FunctionCalls ==
    ASSUME NEW d, IsDiscovery(d), NEW P,
           NamesNics(P, d),
           NEW t, t = [i \in DOMAIN d.functions |-> FunctionCall(d.functions[i])]
    PROVE  /\ t \in Seq(ItemsOf(t))
           /\ \A k \in DOMAIN t :
                 /\ IsCall(t[k])
                 /\ Anchored(t[k], P)
           /\ NamesFunctions(ItemsOf(t), d)
<1> DEFINE s == d.functions
<1>1. s \in Seq(FunctionFound)
  BY DEF IsDiscovery
<1>2. /\ DOMAIN t = DOMAIN s /\ t = [i \in DOMAIN s |-> t[i]]
      /\ \A i \in DOMAIN s : t[i] = FunctionCall(s[i])
  OBVIOUS
<1>3. \A i \in DOMAIN s : s[i] \in FunctionFound
                          /\ s[i].parent_nic \in IdsOf(d.nics)
  BY <1>1, ElementsIn DEF IsDiscovery
<1>4. ASSUME NEW r \in FunctionFound
      PROVE  /\ FunctionCall(r).kind = "function" /\ IsCall(FunctionCall(r))
             /\ FunctionCall(r).id = r.id
             /\ FunctionCall(r).rec.parent_nic = r.parent_nic
  BY DEF FunctionFound, FunctionCall, IsCall, FunctionInput, Owners
<1>5. \A i \in DOMAIN s : Anchored(t[i], P)
  BY <1>2, <1>3, <1>4 DEF Anchored, FunctionFound, NamesNics
<1>6. t \in Seq(ItemsOf(t))
  BY <1>1, <1>2, EachIsSequence
<1>7. \A f \in Functions : f \in IdsOf(s) =>
         \E c \in ItemsOf(t) : c.kind = "function" /\ c.id = f
  BY <1>2, <1>3, <1>4 DEF IdsOf, ItemsOf
<1>8. \A i \in DOMAIN t : IsCall(t[i]) /\ Anchored(t[i], P)
  BY <1>2, <1>3, <1>4, <1>5
<1> QED
  BY <1>6, <1>7, <1>8 DEF NamesFunctions

\* What ingest calls for the ports.
LEMMA PortCalls ==
    ASSUME NEW d, IsDiscovery(d), NEW P,
           NamesNics(P, d),
           NamesFunctions(P, d),
           NEW t, t = [i \in DOMAIN d.ports |-> PortCall(d.ports[i])]
    PROVE  /\ t \in Seq(ItemsOf(t))
           /\ \A k \in DOMAIN t :
                 /\ IsCall(t[k])
                 /\ Anchored(t[k], P)
<1> DEFINE s == d.ports
<1>1. s \in Seq(PortFound)
  BY DEF IsDiscovery
<1>2. /\ DOMAIN t = DOMAIN s /\ t = [i \in DOMAIN s |-> t[i]]
      /\ \A i \in DOMAIN s : t[i] = PortCall(s[i])
  OBVIOUS
<1>3. \A i \in DOMAIN s : /\ s[i] \in PortFound
                          /\ s[i].parent_nic \in IdsOf(d.nics)
                          /\ s[i].parent_function \in IdsOf(d.functions)
  BY <1>1, ElementsIn DEF IsDiscovery
<1>4. ASSUME NEW r \in PortFound
      PROVE  /\ PortCall(r).kind = "port" /\ PortCall(r).id \in Ports
             /\ PortCall(r).rec \in PortRecord
             /\ PortCall(r).rec.parent_nic = r.parent_nic
             /\ PortCall(r).rec.parent_function = r.parent_function
  BY DEF PortFound, PortCall, PortRecord, Without
<1>5. \A i \in DOMAIN s : IsCall(t[i])
  BY <1>2, <1>3, <1>4 DEF PortFound, IsCall
<1>6. ASSUME NEW i \in DOMAIN s PROVE Anchored(t[i], P)
  <2>1. PICK c : c = t[i]
    OBVIOUS
  <2>2. /\ c.kind = "port"
        /\ c.rec.parent_nic = s[i].parent_nic
        /\ c.rec.parent_function = s[i].parent_function
    BY <1>2, <1>3, <1>4, <2>1
  <2>3. s[i].parent_nic \in Nics /\ s[i].parent_function \in Functions
    BY <1>3 DEF PortFound
  <2>4. \E p \in P : p.kind = "nic" /\ p.id = c.rec.parent_nic
    BY <1>3, <2>2, <2>3 DEF NamesNics
  <2>5. \E p \in P : p.kind = "function" /\ p.id = c.rec.parent_function
    BY <1>3, <2>2, <2>3 DEF NamesFunctions
  <2> QED
    BY <2>1, <2>2, <2>4, <2>5 DEF Anchored
<1>7. t \in Seq(ItemsOf(t))
  BY <1>1, <1>2, EachIsSequence
<1> QED
  BY <1>2, <1>5, <1>6, <1>7

\* What ingest calls for the queues.
LEMMA QueueCalls ==
    ASSUME NEW d, IsDiscovery(d), NEW P,
           NamesNics(P, d),
           NamesFunctions(P, d),
           NEW t, t = [i \in DOMAIN d.queues |-> QueueCall(d.queues[i])]
    PROVE  /\ t \in Seq(ItemsOf(t))
           /\ \A k \in DOMAIN t :
                 /\ IsCall(t[k])
                 /\ Anchored(t[k], P)
<1> DEFINE s == d.queues
<1>1. s \in Seq(QueueFound)
  BY DEF IsDiscovery
<1>2. /\ DOMAIN t = DOMAIN s /\ t = [i \in DOMAIN s |-> t[i]]
      /\ \A i \in DOMAIN s : t[i] = QueueCall(s[i])
  OBVIOUS
<1>3. \A i \in DOMAIN s : /\ s[i] \in QueueFound
                          /\ s[i].parent_nic \in IdsOf(d.nics)
                          /\ s[i].parent_function \in IdsOf(d.functions)
  BY <1>1, ElementsIn DEF IsDiscovery
<1>4. ASSUME NEW r \in QueueFound
      PROVE  /\ QueueCall(r).kind = "queue" /\ QueueCall(r).id \in Queues
             /\ QueueCall(r).rec \in QueueInput
             /\ QueueCall(r).rec.parent_nic = r.parent_nic
             /\ QueueCall(r).rec.parent_function = r.parent_function
  BY DEF QueueFound, QueueCall, QueueInput, Without
<1>5. \A i \in DOMAIN s : IsCall(t[i])
  BY <1>2, <1>3, <1>4 DEF QueueFound, IsCall
<1>6. ASSUME NEW i \in DOMAIN s PROVE Anchored(t[i], P)
  <2>1. PICK c : c = t[i]
    OBVIOUS
  <2>2. /\ c.kind = "queue"
        /\ c.rec.parent_nic = s[i].parent_nic
        /\ c.rec.parent_function = s[i].parent_function
    BY <1>2, <1>3, <1>4, <2>1
  <2>3. s[i].parent_nic \in Nics /\ s[i].parent_function \in Functions
    BY <1>3 DEF QueueFound
  <2>4. \E p \in P : p.kind = "nic" /\ p.id = c.rec.parent_nic
    BY <1>3, <2>2, <2>3 DEF NamesNics
  <2>5. \E p \in P : p.kind = "function" /\ p.id = c.rec.parent_function
    BY <1>3, <2>2, <2>3 DEF NamesFunctions
  <2> QED
    BY <2>1, <2>2, <2>4, <2>5 DEF Anchored
<1>7. t \in Seq(ItemsOf(t))
  BY <1>1, <1>2, EachIsSequence
<1> QED
  BY <1>2, <1>5, <1>6, <1>7

\* ingest registers what a record refers to before the record: NICs, then
\* GPUs and the topology, then functions, then ports and queues.
LEMMA IngestIsClosed ==
    ASSUME NEW d, IsDiscovery(d)
    PROVE  IsIngest(IngestCalls(d))
<1> DEFINE n == [i \in DOMAIN d.nics |-> NicCall(d.nics[i])]
           g == [i \in DOMAIN d.gpus |-> GpuCall(d.gpus[i])]
           x == TopologyCalls(d.topology)
           f == [i \in DOMAIN d.functions |-> FunctionCall(d.functions[i])]
           p == [i \in DOMAIN d.ports |-> PortCall(d.ports[i])]
           q == [i \in DOMAIN d.queues |-> QueueCall(d.queues[i])]
<1>1. IsIngest(n) /\ NamesNics(ItemsOf(n), d)
  BY NicCalls
<1>2. g \in Seq(ItemsOf(g)) /\ \A k \in DOMAIN g : IsCall(g[k]) /\ g[k].kind = "gpu"
  BY GpuCalls
<1>3. x \in Seq(ItemsOf(x)) /\ \A k \in DOMAIN x : IsCall(x[k]) /\ x[k].kind = "topology"
  BY TopologyCall
<1>4. ASSUME NEW P, NamesNics(P, d)
      PROVE  /\ f \in Seq(ItemsOf(f)) /\ NamesFunctions(ItemsOf(f), d)
             /\ \A k \in DOMAIN f : IsCall(f[k]) /\ Anchored(f[k], P)
  BY <1>4, FunctionCalls
<1>5. ASSUME NEW P, NamesNics(P, d), NamesFunctions(P, d)
      PROVE  /\ p \in Seq(ItemsOf(p)) /\ q \in Seq(ItemsOf(q))
             /\ \A k \in DOMAIN p : IsCall(p[k]) /\ Anchored(p[k], P)
             /\ \A k \in DOMAIN q : IsCall(q[k]) /\ Anchored(q[k], P)
  BY <1>5, PortCalls, QueueCalls
<1>6. \A P, Q : /\ NamesNics(P, d) => NamesNics(P \cup Q, d)
                /\ NamesFunctions(P, d) => NamesFunctions(P \cup Q, d)
                /\ NamesFunctions(Q, d) => NamesFunctions(P \cup Q, d)
  BY DEF NamesNics, NamesFunctions
<1>7. IngestCalls(d) = (((((n \o g) \o x) \o f) \o p) \o q)
  BY DEF IngestCalls, Each
<1> HIDE DEF n, g, x, f, p, q
<1>8. IsIngest(n \o g) /\ NamesNics(ItemsOf(n \o g), d)
  <2>1. \A k \in DOMAIN g : IsCall(g[k]) /\ Anchored(g[k], ItemsOf(n))
    BY <1>2 DEF Anchored
  <2>2. IsIngest(n \o g) /\ ItemsOf(n) \cup ItemsOf(g) = ItemsOf(n \o g)
    BY <1>1, <1>2, <2>1, FollowedBy
  <2> QED
    BY <1>1, <1>6, <2>2
<1> DEFINE ng == n \o g
<1> HIDE DEF ng
<1>9. IsIngest(ng \o x) /\ NamesNics(ItemsOf(ng \o x), d)
  <2>1. \A k \in DOMAIN x : IsCall(x[k]) /\ Anchored(x[k], ItemsOf(ng))
    BY <1>3 DEF Anchored
  <2>2. IsIngest(ng) /\ NamesNics(ItemsOf(ng), d)
    BY <1>8 DEF ng
  <2>3. IsIngest(ng \o x) /\ ItemsOf(ng) \cup ItemsOf(x) = ItemsOf(ng \o x)
    BY <1>3, <2>1, <2>2, FollowedBy
  <2> QED
    BY <1>6, <2>2, <2>3
<1> DEFINE ngx == ng \o x
<1> HIDE DEF ngx
<1>10. /\ IsIngest(ngx \o f)
       /\ NamesNics(ItemsOf(ngx \o f), d) /\ NamesFunctions(ItemsOf(ngx \o f), d)
  <2>1. IsIngest(ngx) /\ NamesNics(ItemsOf(ngx), d)
    BY <1>9 DEF ngx
  <2>2. /\ f \in Seq(ItemsOf(f)) /\ NamesFunctions(ItemsOf(f), d)
        /\ \A k \in DOMAIN f : IsCall(f[k]) /\ Anchored(f[k], ItemsOf(ngx))
    BY <1>4, <2>1
  <2>3. IsIngest(ngx \o f) /\ ItemsOf(ngx) \cup ItemsOf(f) = ItemsOf(ngx \o f)
    BY <2>1, <2>2, FollowedBy
  <2> QED
    BY <1>6, <2>1, <2>2, <2>3
<1> DEFINE ngxf == ngx \o f
<1> HIDE DEF ngxf
<1>11. /\ IsIngest(ngxf \o p)
       /\ NamesNics(ItemsOf(ngxf \o p), d) /\ NamesFunctions(ItemsOf(ngxf \o p), d)
  <2>1. IsIngest(ngxf) /\ NamesNics(ItemsOf(ngxf), d) /\ NamesFunctions(ItemsOf(ngxf), d)
    BY <1>10 DEF ngxf
  <2>2. /\ p \in Seq(ItemsOf(p))
        /\ \A k \in DOMAIN p : IsCall(p[k]) /\ Anchored(p[k], ItemsOf(ngxf))
    BY <1>5, <2>1
  <2>3. IsIngest(ngxf \o p) /\ ItemsOf(ngxf) \cup ItemsOf(p) = ItemsOf(ngxf \o p)
    BY <2>1, <2>2, FollowedBy
  <2> QED
    BY <1>6, <2>1, <2>3
<1> DEFINE ngxfp == ngxf \o p
<1> HIDE DEF ngxfp
<1>12. IsIngest(ngxfp \o q)
  <2>1. /\ IsIngest(ngxfp)
        /\ NamesNics(ItemsOf(ngxfp), d) /\ NamesFunctions(ItemsOf(ngxfp), d)
    BY <1>11 DEF ngxfp
  <2>2. /\ q \in Seq(ItemsOf(q))
        /\ \A k \in DOMAIN q : IsCall(q[k]) /\ Anchored(q[k], ItemsOf(ngxfp))
    BY <1>5, <2>1
  <2> QED
    BY <2>1, <2>2, FollowedBy
<1> QED
  BY <1>7, <1>12 DEF ng, ngx, ngxf, ngxfp

\* The calls of every plan.
LEMMA PlansAreIngests ==
    /\ DOMAIN CallsOf = DOMAIN Plans
    /\ \A p \in DOMAIN Plans :
          /\ LengthOf[p] \in Nat
          /\ DOMAIN CallsOf[p] = 1 .. LengthOf[p]
          /\ \A i \in 1 .. LengthOf[p] :
                /\ IsIngest(CallsOf[p][i])
                /\ Len(CallsOf[p][i]) \in Nat
                /\ DOMAIN CallsOf[p][i] = 1 .. Len(CallsOf[p][i])
<1> SUFFICES ASSUME NEW p \in DOMAIN Plans
             PROVE  /\ LengthOf[p] \in Nat
                    /\ DOMAIN CallsOf[p] = 1 .. LengthOf[p]
                    /\ \A i \in 1 .. LengthOf[p] :
                          /\ IsIngest(CallsOf[p][i])
                          /\ Len(CallsOf[p][i]) \in Nat
                          /\ DOMAIN CallsOf[p][i] = 1 .. Len(CallsOf[p][i])
  BY DEF CallsOf
<1>1. Plans[p] \in Seq(ItemsOf(Plans[p])) /\ LengthOf[p] = Len(Plans[p])
  BY PlansAssumption DEF LengthOf
<1>2. LengthOf[p] \in Nat /\ DOMAIN Plans[p] = 1 .. LengthOf[p]
  BY <1>1, LenProperties
<1>3. DOMAIN CallsOf[p] = 1 .. LengthOf[p]
  BY <1>2 DEF CallsOf
<1>4. ASSUME NEW i \in 1 .. LengthOf[p]
      PROVE  IsIngest(CallsOf[p][i])
  <2>1. CASE Plans[p][i] = Unavailable
    <3>1. CallsOf[p][i] = << >>
      BY <1>2, <2>1 DEF CallsOf
    <3> QED
      BY <3>1, EmptySeq DEF IsIngest, Closed
  <2>2. CASE Plans[p][i] # Unavailable
    <3>1. CallsOf[p][i] = IngestCalls(Plans[p][i])
      BY <1>2, <2>2 DEF CallsOf
    <3>2. IsDiscovery(Plans[p][i])
      BY <1>2, <2>2, PlansAssumption DEF ItemsOf
    <3> QED
      BY <3>1, <3>2, IngestIsClosed
  <2> QED
    BY <2>1, <2>2
<1>5. ASSUME NEW s, IsIngest(s)
      PROVE  Len(s) \in Nat /\ DOMAIN s = 1 .. Len(s)
  BY <1>5, LenProperties DEF IsIngest
<1> QED
  BY <1>2, <1>3, <1>4, <1>5

-----------------------------------------------------------------------------
(* The processes are workers of the registry                               *)

ProcessRecord == [boot : Boots, plan : DOMAIN Plans, step : Nat \ {0},
                  next : Nat, epoch : Nat, failed : SUBSET (Nat \X Nat)]

EngineTypeOK ==
    /\ TypeOK
    /\ site \in Sites
    /\ used_boots \subseteq Boots
    /\ host \in [Workers -> ProcessRecord \cup {None}]

\* The call a process is about to make is one the registry takes.
LEMMA PendingIsCall ==
    ASSUME EngineTypeOK, NEW w \in Workers, Working(w),
           NEW c \in Pending(host[w])
    PROVE  /\ IsCall(c)
           /\ host[w].step \in 1 .. LengthOf[Here(w)]
           /\ host[w].next \in DOMAIN CallsOf[Here(w)][host[w].step]
           /\ c = CallsOf[Here(w)][host[w].step][host[w].next]
           /\ host[w].next \in Nat \ {0}
<1>1. host[w] \in ProcessRecord /\ Here(w) \in DOMAIN Plans
  BY DEF EngineTypeOK, Working, Running, Here, ProcessRecord
<1>2. host[w].step \in 1 .. LengthOf[Here(w)]
  BY <1>1, PlansAreIngests DEF Working, ProcessRecord
<1>3. /\ host[w].next \in DOMAIN CallsOf[Here(w)][host[w].step]
      /\ c = CallsOf[Here(w)][host[w].step][host[w].next]
  BY DEF Pending, Here
<1>4. IsCall(c)
  BY <1>1, <1>2, <1>3, PlansAreIngests DEF IsIngest
<1>5. /\ Len(CallsOf[Here(w)][host[w].step]) \in Nat
      /\ DOMAIN CallsOf[Here(w)][host[w].step]
            = 1 .. Len(CallsOf[Here(w)][host[w].step])
  BY <1>1, <1>2, PlansAreIngests
<1>6. host[w].next \in Nat \ {0}
  BY <1>3, <1>5
<1> QED
  BY <1>2, <1>3, <1>4, <1>6

\* What a call does to the registry is a call of a registered incarnation, or
\* nothing.
LEMMA PerformedIsCall ==
    ASSUME TypeOK, NEW c, IsCall(c), NEW e, NEW w \in Workers,
           NEW b \in Boots, Performed(c, e, w, b)
    PROVE  [Next]_vars
<1>1. CASE UNCHANGED vars
  BY <1>1
<1>2. CASE EnsureAuthority(e, w, b) /\ Register(c, e, w, b)
  <2>1. e \in Epochs
    BY <1>2 DEF EnsureAuthority, TypeOK
  <2>2. SUFFICES DiscoveryCall(e, w, b)
    BY <2>1, <2>2 DEF Next
  <2>3. CASE c.kind = "nic" /\ c.id \in Nics \cup {None} /\ c.rec \in NicInput
    BY <1>2, <2>3 DEF Register, DiscoveryCall
  <2>4. CASE c.kind = "gpu" /\ c.id \in Gpus /\ c.rec \in GpuRecord
    BY <1>2, <2>4 DEF Register, DiscoveryCall
  <2>5. CASE c.kind = "topology" /\ c.generation \in TopologyGenerations
    BY <1>2, <2>5 DEF Register, DiscoveryCall
  <2>6. CASE /\ c.kind = "function" /\ c.id \in Functions
             /\ c.rec \in FunctionInput(w, b)
    BY <1>2, <2>6 DEF Register, DiscoveryCall
  <2>7. CASE c.kind = "port" /\ c.id \in Ports /\ c.rec \in PortRecord
    BY <1>2, <2>7 DEF Register, DiscoveryCall
  <2>8. CASE c.kind = "queue" /\ c.id \in Queues /\ c.rec \in QueueInput
    BY <1>2, <2>8 DEF Register, DiscoveryCall
  <2> QED
    BY <2>3, <2>4, <2>5, <2>6, <2>7, <2>8 DEF IsCall
<1> QED
  BY <1>1, <1>2 DEF Performed, Stores

\* A boot id drawn is one of the boot ids.
LEMMA FreshBootIdIsBoot ==
    ASSUME EngineTypeOK, Boots # used_boots
    PROVE  FreshBootId \in Boots
BY DEF EngineTypeOK, FreshBootId

\* Every step of a process, of the coordinator or of a query is a step of the
\* registry or leaves the registry alone.
LEMMA EngineStep ==
    ASSUME EngineTypeOK, [EngineNext]_evars
    PROVE  [Next]_vars
<1>1. ASSUME NEW w \in Workers, NEW p, LaunchHost(w, p)
      PROVE  [Next]_vars
  BY <1>1, FreshBootIdIsBoot DEF LaunchHost, Next
<1>2. ASSUME NEW w \in Workers, Ingest(w)
      PROVE  [Next]_vars
  <2>1. /\ Working(w)
        /\ host[w].boot \in Boots
    BY <1>2 DEF Ingest, EngineTypeOK, Working, Running, ProcessRecord
  <2>2. PICK c \in Pending(host[w]) : Performed(c, host[w].epoch, w, host[w].boot)
    BY <1>2 DEF Ingest
  <2> QED
    BY <2>1, <2>2, PendingIsCall, PerformedIsCall DEF EngineTypeOK
<1>3. ASSUME NEW w \in Workers, Retire(w)
      PROVE  [Next]_vars
  <2>1. workers[w] \in Boots
    BY <1>3 DEF Retire, EngineTypeOK, TypeOK
  <2> QED
    BY <1>3, <2>1 DEF Retire, Next
<1>4. ASSUME NEW w \in Workers, NEW n \in Present(nics), Advance(w, n)
      PROVE  [Next]_vars
  <2>1. n \in Nics /\ host[w].boot \in Boots /\ epoch \in Epochs
    BY <1>4 DEF Advance, EngineTypeOK, TypeOK, Present, Running, ProcessRecord
  <2> QED
    BY <1>4, <2>1 DEF Advance, Next, DiscoveryCall
<1>5. CASE Restart
  <2>1. epoch + 1 \in Epochs
    BY <1>5, BoundsAssumption DEF Restart, EngineTypeOK, TypeOK, Epochs
  <2> QED
    BY <1>5, <2>1 DEF Restart, Next
<1>6. ASSUME NEW w \in Workers, Discover(w) \/ IngestReturns(w) \/ Die(w)
      PROVE  [Next]_vars
  BY <1>6 DEF Discover, IngestReturns, Die, vars
<1>7. CASE Query
  BY <1>7 DEF Query, vars
<1>8. CASE UNCHANGED evars
  BY <1>8 DEF evars, vars
<1> QED
  BY <1>1, <1>2, <1>3, <1>4, <1>5, <1>6, <1>7, <1>8 DEF EngineNext, Progress

\* A process record with another place is a process record.
LEMMA ProcessMoves ==
    ASSUME NEW h \in ProcessRecord
    PROVE  /\ Thrown(h) \in ProcessRecord
           /\ \A n \in Nat, e \in Nat :
                 /\ [h EXCEPT !.next = n, !.epoch = e] \in ProcessRecord
                 /\ [h EXCEPT !.next = n] \in ProcessRecord
                 /\ [h EXCEPT !.step = @ + 1, !.next = n] \in ProcessRecord
<1>1. Thrown(h) \in ProcessRecord
  <2>1. <<h.step, h.next>> \in Nat \X Nat /\ h.step + 1 \in Nat \ {0}
    BY DEF ProcessRecord
  <2> QED
    BY <2>1 DEF ProcessRecord, Thrown
<1>2. ASSUME NEW n \in Nat, NEW e \in Nat
      PROVE  /\ [h EXCEPT !.next = n, !.epoch = e] \in ProcessRecord
             /\ [h EXCEPT !.next = n] \in ProcessRecord
  BY DEF ProcessRecord
<1>3. ASSUME NEW n \in Nat
      PROVE  [h EXCEPT !.step = @ + 1, !.next = n] \in ProcessRecord
  <2>1. h.step + 1 \in Nat \ {0}
    BY DEF ProcessRecord
  <2> QED
    BY <2>1 DEF ProcessRecord
<1> QED
  BY <1>1, <1>2, <1>3

\* The types of the engine's state are preserved by every step.
LEMMA EngineTypeStep ==
    EngineTypeOK /\ [EngineNext]_evars => EngineTypeOK'
<1> SUFFICES ASSUME EngineTypeOK, [EngineNext]_evars
             PROVE  EngineTypeOK'
  OBVIOUS
<1>1. TypeOK'
  BY EngineStep, TypeStep DEF EngineTypeOK
<1>2. SUFFICES /\ site' \in Sites
               /\ used_boots' \subseteq Boots
               /\ host' \in [Workers -> ProcessRecord \cup {None}]
  BY <1>1, <1>2 DEF EngineTypeOK
<1> USE DEF EngineTypeOK
<1>3. ASSUME NEW w \in Workers, NEW p \in site.plans, LaunchHost(w, p)
      PROVE  /\ site' \in Sites /\ used_boots' \subseteq Boots
             /\ host' \in [Workers -> ProcessRecord \cup {None}]
  <2>1. FreshBootId \in Boots /\ p \in DOMAIN Plans
    BY <1>3, FreshBootIdIsBoot, PlansAssumption DEF LaunchHost
  <2>2. Process(FreshBootId, p) \in ProcessRecord
    BY <2>1 DEF Process, ProcessRecord
  <2> QED
    BY <1>3, <2>1, <2>2 DEF LaunchHost
<1>4. ASSUME NEW w \in Workers, Discover(w)
      PROVE  host' \in [Workers -> ProcessRecord \cup {None}]
  <2>1. host[w] \in ProcessRecord /\ epoch \in Nat
    BY <1>4 DEF Discover, Working, Running, TypeOK, Epochs
  <2>2. \/ host' = [host EXCEPT ![w] = Thrown(host[w])]
        \/ host' = [host EXCEPT ![w] = [host[w] EXCEPT !.next = 1, !.epoch = epoch]]
    BY <1>4 DEF Discover
  <2>3. /\ Thrown(host[w]) \in ProcessRecord
        /\ [host[w] EXCEPT !.next = 1, !.epoch = epoch] \in ProcessRecord
    BY <2>1, ProcessMoves
  <2> QED
    BY <2>2, <2>3
<1>5. ASSUME NEW w \in Workers, Ingest(w)
      PROVE  host' \in [Workers -> ProcessRecord \cup {None}]
  <2>1. host[w] \in ProcessRecord /\ host[w].next + 1 \in Nat
    BY <1>5 DEF Ingest, Working, Running, ProcessRecord
  <2>2. \/ host' = [host EXCEPT ![w] = Thrown(host[w])]
        \/ host' = [host EXCEPT ![w] =
                       [host[w] EXCEPT !.next = host[w].next + 1]]
    BY <1>5 DEF Ingest
  <2>3. /\ Thrown(host[w]) \in ProcessRecord
        /\ [host[w] EXCEPT !.next = host[w].next + 1] \in ProcessRecord
    BY <2>1, ProcessMoves
  <2> QED
    BY <2>2, <2>3
<1>6. ASSUME NEW w \in Workers, IngestReturns(w)
      PROVE  host' \in [Workers -> ProcessRecord \cup {None}]
  <2>1. host[w] \in ProcessRecord
    BY <1>6 DEF IngestReturns, Working, Running
  <2>2. host' = [host EXCEPT ![w] = [host[w] EXCEPT !.step = @ + 1, !.next = 0]]
    BY <1>6 DEF IngestReturns
  <2>3. [host[w] EXCEPT !.step = @ + 1, !.next = 0] \in ProcessRecord
    BY <2>1, ProcessMoves
  <2> QED
    BY <2>2, <2>3
<1>7. ASSUME NEW w \in Workers, Die(w)
      PROVE  host' \in [Workers -> ProcessRecord \cup {None}]
  BY <1>7 DEF Die
<1>8. ASSUME \E w \in Workers : Progress(w) \/ Die(w)
      PROVE  UNCHANGED <<site, used_boots>>
  BY <1>8 DEF Progress, Discover, Ingest, IngestReturns, Die
<1>9. ASSUME \/ \E w \in Workers : \/ Retire(w)
                                   \/ \E n \in Present(nics) : Advance(w, n)
             \/ Restart \/ Query \/ UNCHANGED evars
      PROVE  UNCHANGED <<site, used_boots, host>>
  BY <1>9 DEF Retire, Advance, Restart, Query, evars
<1> QED
  BY <1>3, <1>4, <1>5, <1>6, <1>7, <1>8, <1>9 DEF EngineNext, Progress

\* The types of the engine's state hold throughout.
LEMMA EngineTypeCorrect == EngineSpec => []EngineTypeOK
<1>1. EngineInit => EngineTypeOK
  BY BoundsAssumption DEF EngineInit, Init, EngineTypeOK, TypeOK
<1> QED
  BY <1>1, EngineTypeStep, PTL DEF EngineSpec

\* Whatever the processes discover, and whoever dies or restarts, the registry
\* sees calls that NicRegistry allows: every theorem about NicRegistry holds of
\* the registry of the engine (engine.cpp: register_host_worker, ingest).
THEOREM EngineUsesRegistry == EngineSpec => Spec
<1>1. EngineInit => Init
  BY DEF EngineInit
<1>2. EngineTypeOK /\ [EngineNext]_evars => [Next]_vars
  BY EngineStep
<1> QED
  BY <1>1, <1>2, EngineTypeCorrect, PTL DEF EngineSpec, Spec

-----------------------------------------------------------------------------
(* Queries                                                                 *)

\* The eligibilities that allow nothing.
Rejecting == {"INSUFFICIENT_EVIDENCE", "UNSUPPORTED", "POLICY_REJECTED",
              "REVALIDATION_REQUIRED", "NOT_READY", "NOT_FOUND",
              "CAPABILITY_MISMATCH", "NOT_LOCAL"}

\* hard_check allows no NIC that waits for revalidation.
LEMMA AllowedIsCurrent ==
    ASSUME NEW n, Eligibility(n) \in Policy!Allowing
    PROVE  nics[n].lifecycle # Revalidate
<1> DEFINE checks == Policy!Rejections(n, SnapshotNic(n))
           failed == {i \in DOMAIN checks : checks[i][1]}
<1>1. SUFFICES ASSUME nics[n].lifecycle = Revalidate PROVE FALSE
  OBVIOUS
<1>2. SnapshotNic(n).lifecycle = "REVALIDATION_REQUIRED"
  BY <1>1 DEF SnapshotNic, Revalidate
<1>3. DOMAIN checks = 1 .. 14
  BY DEF Policy!Rejections
<1>4. \A i \in 1 .. 14 : checks[i][2] \in Rejecting
  BY DEF Policy!Rejections, Rejecting
<1>5. checks[4][1]
  BY <1>2 DEF Policy!Rejections
<1> HIDE DEF checks
<1>6. failed # {} /\ failed \subseteq 1 .. 14 /\ failed \subseteq Nat
  BY <1>3, <1>5
<1> HIDE DEF failed
<1>7. PICK i \in failed : \A j \in failed : i <= j
  BY <1>6, LeastNatural
<1>8. Eligibility(n) = checks[CHOOSE j \in failed : \A k \in failed : j <= k][2]
  <2>1. Eligibility(n) =
          IF failed # {}
          THEN checks[CHOOSE j \in failed : \A k \in failed : j <= k][2]
          ELSE IF Policy!LocalityOf(SnapshotNic(n)).relationship
                     \in {"REMOTE_NUMA", "UNKNOWN"}
               THEN "RESIDENCY_ALLOWED_DEGRADED" ELSE "RESIDENCY_ALLOWED"
    BY DEF Eligibility, Policy!HardCheck, checks, failed
  <2> QED
    BY <1>6, <2>1
<1>9. Eligibility(n) \in Rejecting
  BY <1>4, <1>6, <1>7, <1>8
<1> QED
  BY <1>9 DEF Rejecting, Policy!Allowing

\* A query never selects a NIC on the word of an incarnation that has been
\* retired, at whatever point of whichever ingest or retirement it comes
\* (run_query; worker_retired demotes what the incarnation published).
THEOREM SelectsLiveEvidenceHolds == EngineSpec => SelectsLiveEvidence
<1>1. LiveEvidence /\ EngineTypeOK /\ [EngineNext]_evars =>
         [decision' # decision /\ decision'.selected # None =>
             LET p == publisher[decision'.selected]
             IN  p.epoch = epoch => IsLive(p)]_evars
  <2> SUFFICES ASSUME LiveEvidence, EngineTypeOK, EngineNext,
                      decision' # decision, decision'.selected # None,
                      publisher[decision'.selected].epoch = epoch
               PROVE  IsLive(publisher[decision'.selected])
    OBVIOUS
  <2>1. Query
    BY DEF EngineNext, LaunchHost, Progress, Discover, Ingest, IngestReturns,
       Die, Retire, Advance, Restart
  <2>2. PICK n \in Present(nics) : /\ Eligibility(n) \in Policy!Allowing
                                   /\ decision'.selected = n
    BY <2>1 DEF Query
  <2>3. nics[n].lifecycle # Revalidate
    BY <2>2, AllowedIsCurrent
  <2> QED
    BY <2>2, <2>3 DEF LiveEvidence
<1> QED
  BY <1>1, EngineTypeCorrect, EngineUsesRegistry, LiveEvidenceHolds, PTL
  DEF EngineSpec, SelectsLiveEvidence

-----------------------------------------------------------------------------
(* Ingest                                                                  *)

\* No generation explored is the last of the 64-bit range, after which next()
\* would take a record back to generation 0.
NoWrap == MaxGeneration + 1 < GenerationModulus

\* The registry has what the call registered.
Kept(c) ==
    /\ c.kind # "topology" => c.id \in Present(TableOf(c))
    /\ NoWrap => Held(c)

\* Where a process is: within its plan and within the calls of its discovery,
\* with at most one exception for each discovery it has left.
PlaceOK(h) ==
    /\ h.step <= LengthOf[h.plan] + 1
    /\ h.step <= LengthOf[h.plan] =>
          h.next <= Len(CallsOf[h.plan][h.step]) + 1
    /\ h.step = LengthOf[h.plan] + 1 => h.next = 0
    /\ \A f \in h.failed : /\ f[1] \in 1 .. h.step - 1
                           /\ f[2] \in 0 .. Len(CallsOf[h.plan][f[1]])
    /\ \A f, g \in h.failed : f[1] = g[1] => f[2] = g[2]

\* The k-th call of discovery i has returned.
Through(h, i, k) ==
    \/ i = h.step /\ k < h.next
    \/ i < h.step /\ \A f \in h.failed : f[1] = i => k < f[2]

PrefixOK(h) ==
    \A i \in 1 .. LengthOf[h.plan] : \A k \in DOMAIN CallsOf[h.plan][i] :
        Through(h, i, k) => Kept(CallsOf[h.plan][i][k])

\* No exception was for a reference that did not resolve.
FailuresOK(h) ==
    \A f \in h.failed :
        f[2] # 0 => Grounded(CallsOf[h.plan][f[1]][f[2]])

EngineInv ==
    /\ EngineTypeOK
    /\ \A w \in Workers : Running(w) =>
          PlaceOK(host[w]) /\ PrefixOK(host[w]) /\ FailuresOK(host[w])

\* The registry keeps what it has: a table whose records move forward still
\* holds the record, at its generation or a later one.
LEMMA KeptInTable ==
    ASSUME NEW K, NEW R, NEW m \in [K -> R \cup {None}],
           NEW m2 \in [K -> R \cup {None}], None \notin R,
           \A r \in R : r.generation \in Generations,
           KeysForward(m, m2), NEW id \in Present(m), NEW g \in Nat
    PROVE  /\ id \in Present(m2)
           /\ NoWrap /\ m[id].generation >= g => m2[id].generation >= g
<1>1. /\ id \in K /\ m[id] # None /\ m[id] \in R /\ m2[id] # None /\ m2[id] \in R
      /\ Forward(m[id], m2[id])
  BY DEF Present, KeysForward
<1>2. id \in Present(m2)
  BY <1>1 DEF Present
<1>3. /\ m[id].generation \in Nat /\ m2[id].generation \in Nat
      /\ m[id].generation <= MaxGeneration
      /\ MaxGeneration \in Nat /\ GenerationModulus \in Nat
  BY <1>1, BoundsAssumption DEF Generations
<1> QED
  BY <1>1, <1>2, <1>3 DEF Forward, NoWrap

\* What a call registered stays registered.
LEMMA KeptStep ==
    ASSUME TypeOK, TypeOK', [Next]_vars, NEW c, IsCall(c), Kept(c)
    PROVE  Kept(c)'
<1>1. /\ KeysForward(nics, nics') /\ KeysForward(functions, functions')
      /\ KeysForward(ports, ports') /\ KeysForward(queues, queues')
      /\ KeysForward(gpus, gpus')
  BY TablesForward
<1>2. /\ None \notin NicRecord /\ None \notin FunctionRecord
      /\ None \notin PortRecord /\ None \notin QueueRecord
      /\ None \notin GpuRecord
  BY NoneAssumption
<1>3. /\ \A r \in NicRecord : r.generation \in Generations
      /\ \A r \in FunctionRecord : r.generation \in Generations
      /\ \A r \in PortRecord : r.generation \in Generations
      /\ \A r \in QueueRecord : r.generation \in Generations
      /\ \A r \in GpuRecord : r.generation \in Generations
  BY DEF NicRecord, FunctionRecord, PortRecord, QueueRecord, GpuRecord
<1>4. c.kind # "topology" => c.rec.generation \in Nat
  BY DEF IsCall, NicInput, GpuRecord, PortRecord, QueueInput, Generations
<1> USE DEF Kept, Held, TableOf
<1>5. CASE c.kind = "nic"
  <2>1. /\ nics \in [Nics -> NicRecord \cup {None}]
        /\ nics' \in [Nics -> NicRecord \cup {None}]
    BY DEF TypeOK
  <2>2. c.id \in Present(nics) /\ c.rec.generation \in Nat
    BY <1>4, <1>5
  <2>3. /\ c.id \in Present(nics')
        /\ NoWrap /\ nics[c.id].generation >= c.rec.generation =>
              nics'[c.id].generation >= c.rec.generation
    BY <1>1, <1>2, <1>3, <2>1, <2>2, KeptInTable
  <2> QED
    BY <1>5, <2>3 DEF Present
<1>6. CASE c.kind = "gpu"
  <2>1. /\ gpus \in [Gpus -> GpuRecord \cup {None}]
        /\ gpus' \in [Gpus -> GpuRecord \cup {None}]
    BY DEF TypeOK
  <2>2. c.id \in Present(gpus) /\ c.rec.generation \in Nat
    BY <1>4, <1>6
  <2>3. /\ c.id \in Present(gpus')
        /\ NoWrap /\ gpus[c.id].generation >= c.rec.generation =>
              gpus'[c.id].generation >= c.rec.generation
    BY <1>1, <1>2, <1>3, <2>1, <2>2, KeptInTable
  <2> QED
    BY <1>6, <2>3 DEF Present
<1>7. CASE c.kind = "function"
  <2>1. /\ functions \in [Functions -> FunctionRecord \cup {None}]
        /\ functions' \in [Functions -> FunctionRecord \cup {None}]
    BY DEF TypeOK
  <2>2. c.id \in Present(functions) /\ c.rec.generation \in Nat
    BY <1>4, <1>7
  <2>3. /\ c.id \in Present(functions')
        /\ NoWrap /\ functions[c.id].generation >= c.rec.generation =>
              functions'[c.id].generation >= c.rec.generation
    BY <1>1, <1>2, <1>3, <2>1, <2>2, KeptInTable
  <2> QED
    BY <1>7, <2>3 DEF Present
<1>8. CASE c.kind = "port"
  <2>1. /\ ports \in [Ports -> PortRecord \cup {None}]
        /\ ports' \in [Ports -> PortRecord \cup {None}]
    BY DEF TypeOK
  <2>2. c.id \in Present(ports) /\ c.rec.generation \in Nat
    BY <1>4, <1>8
  <2>3. /\ c.id \in Present(ports')
        /\ NoWrap /\ ports[c.id].generation >= c.rec.generation =>
              ports'[c.id].generation >= c.rec.generation
    BY <1>1, <1>2, <1>3, <2>1, <2>2, KeptInTable
  <2> QED
    BY <1>8, <2>3 DEF Present
<1>9. CASE c.kind = "queue"
  <2>1. /\ queues \in [Queues -> QueueRecord \cup {None}]
        /\ queues' \in [Queues -> QueueRecord \cup {None}]
    BY DEF TypeOK
  <2>2. c.id \in Present(queues) /\ c.rec.generation \in Nat
    BY <1>4, <1>9
  <2>3. /\ c.id \in Present(queues')
        /\ NoWrap /\ queues[c.id].generation >= c.rec.generation =>
              queues'[c.id].generation >= c.rec.generation
    BY <1>1, <1>2, <1>3, <2>1, <2>2, KeptInTable
  <2> QED
    BY <1>9, <2>3 DEF Present
<1>10. CASE c.kind = "topology"
  <2>1. /\ topology # None => topology' # None /\ topology' >= topology
        /\ c.generation \in Nat
        /\ topology # None => topology \in Nat
        /\ topology' # None => topology' \in Nat
    BY <1>10, ClocksAdvance DEF IsCall, TypeOK, TopologyGenerations
  <2> QED
    BY <1>10, <2>1
<1> QED
  BY <1>5, <1>6, <1>7, <1>8, <1>9, <1>10 DEF IsCall

\* A table of calls of kind c: an entry that was just stored is there at its
\* generation.
LEMMA StoredIsKept ==
    ASSUME TypeOK, TypeOK', NEW c, IsCall(c), NEW e, NEW w \in Workers,
           NEW b \in Boots, Stores(c, e, w, b), Register(c, e, w, b)
    PROVE  Kept(c)'
<1>1. c.kind # "topology" => c.rec.generation \in Nat
  BY DEF IsCall, NicInput, GpuRecord, PortRecord, QueueInput, Generations
<1>2. CASE c.kind = "nic"
  <2>1. c.id \in Nics /\ nics' = [nics EXCEPT ![c.id] = c.rec]
    BY <1>2 DEF IsCall, Stores, TableOf, LimitOf, Register, RegisterNic, StoresNic
  <2>2. nics'[c.id] = c.rec /\ DOMAIN nics' = Nics
    BY <2>1 DEF TypeOK
  <2>3. c.rec # None
    BY <1>2, NoneAssumption, InputsAssumption DEF IsCall, NicInput, NicRecord
  <2> QED
    BY <1>1, <1>2, <2>1, <2>2, <2>3, NoneAssumption
    DEF Kept, Held, TableOf, Present
<1>3. CASE c.kind = "gpu"
  <2>1. c.id \in Gpus /\ gpus' = [gpus EXCEPT ![c.id] = c.rec]
    BY <1>3 DEF IsCall, Register, RegisterGpu
  <2>2. gpus'[c.id] = c.rec /\ DOMAIN gpus' = Gpus
    BY <2>1 DEF TypeOK
  <2>3. c.rec # None
    BY <1>3, NoneAssumption DEF IsCall
  <2> QED
    BY <1>1, <1>3, <2>1, <2>2, <2>3, NoneAssumption
    DEF Kept, Held, TableOf, Present
<1>4. CASE c.kind = "function"
  <2>1. c.id \in Functions /\ functions' = [functions EXCEPT ![c.id] = c.rec]
    BY <1>4 DEF IsCall, Register, RegisterFunction
  <2>2. functions'[c.id] = c.rec /\ DOMAIN functions' = Functions
    BY <2>1 DEF TypeOK
  <2>3. c.rec \in FunctionInput(w, b)
    BY <1>4 DEF IsCall
  <2>4. c.rec \in FunctionRecord
    BY <2>3, InputsAssumption
    DEF FunctionInput, FunctionRecord, Owners, Owner, Incarnation
  <2>5. c.rec # None
    BY <2>4, NoneAssumption
  <2> QED
    BY <1>1, <1>4, <2>1, <2>2, <2>5, NoneAssumption
    DEF Kept, Held, TableOf, Present
<1>5. CASE c.kind = "port"
  <2>1. c.id \in Ports /\ ports' = [ports EXCEPT ![c.id] = c.rec]
    BY <1>5 DEF IsCall, Register, RegisterPort
  <2>2. ports'[c.id] = c.rec /\ DOMAIN ports' = Ports
    BY <2>1 DEF TypeOK
  <2>3. c.rec # None
    BY <1>5, NoneAssumption DEF IsCall
  <2> QED
    BY <1>1, <1>5, <2>1, <2>2, <2>3, NoneAssumption
    DEF Kept, Held, TableOf, Present
<1>6. CASE c.kind = "queue"
  <2>1. c.id \in Queues /\ queues' = [queues EXCEPT ![c.id] = c.rec]
    BY <1>6 DEF IsCall, Register, RegisterQueue
  <2>2. queues'[c.id] = c.rec /\ DOMAIN queues' = Queues
    BY <2>1 DEF TypeOK
  <2>3. c.rec \in QueueRecord
    BY <1>6, InputsAssumption DEF IsCall, QueueInput, QueueRecord
  <2>4. c.rec # None
    BY <2>3, NoneAssumption
  <2> QED
    BY <1>1, <1>6, <2>1, <2>2, <2>4, NoneAssumption
    DEF Kept, Held, TableOf, Present
<1>7. CASE c.kind = "topology"
  <2>1. /\ topology' = c.generation /\ c.generation \in Nat
        /\ c.generation # None
    BY <1>7, NoneAssumption
    DEF IsCall, Register, SetTopology, TopologyGenerations
  <2> QED
    BY <1>7, <2>1 DEF Kept, Held
<1> QED
  BY <1>2, <1>3, <1>4, <1>5, <1>6, <1>7 DEF IsCall

\* A call that returns has registered its record, or the registry had it.
LEMMA ReturnedIsKept ==
    ASSUME TypeOK, TypeOK', NEW c, IsCall(c), NEW e, NEW w \in Workers,
           NEW b \in Boots, Performed(c, e, w, b), Returns(c, e, w, b)
    PROVE  Kept(c)'
<1>1. CASE Stores(c, e, w, b)
  BY <1>1, StoredIsKept DEF Performed
<1>2. CASE ~Stores(c, e, w, b)
  <2>1. c.kind # "topology" /\ c.id # None /\ Repeats(c)
    BY <1>2 DEF Returns
  <2>2. TableOf(c)[c.id] # None /\ c.rec.generation = TableOf(c)[c.id].generation
    BY <2>1 DEF Repeats
  <2>3. c.rec.generation \in Nat
    BY <2>1 DEF IsCall, NicInput, GpuRecord, PortRecord, QueueInput, Generations
  <2>4. c.id \in DOMAIN TableOf(c)
    BY <2>1 DEF IsCall, TableOf, TypeOK
  <2>5. Kept(c)
    BY <2>1, <2>2, <2>3, <2>4 DEF Kept, Held, Present
  <2> QED
    BY <2>5, KeptStep, PerformedIsCall
<1> QED
  BY <1>1, <1>2

\* A reference that resolves keeps resolving.
LEMMA GroundedStep ==
    ASSUME TypeOK, TypeOK', [Next]_vars, NEW c, Grounded(c)
    PROVE  Grounded(c)'
<1>1. /\ Present(nics) \subseteq Present(nics')
      /\ Present(functions) \subseteq Present(functions')
  BY TablesStep, TablesGrow
<1> QED
  BY <1>1 DEF Grounded

\* When the calls it is anchored in have returned, what a call refers to is
\* registered.
LEMMA AnchoredIsGrounded ==
    ASSUME NEW c, NEW P, Anchored(c, P), \A p \in P : Kept(p)
    PROVE  Grounded(c)
<1>1. \A p \in P : p.kind = "nic" => p.id \in Present(nics)
  BY DEF Kept, TableOf
<1>2. \A p \in P : p.kind = "function" => p.id \in Present(functions)
  BY DEF Kept, TableOf
<1> QED
  BY <1>1, <1>2 DEF Anchored, Grounded

\* What the registry keeps of the calls of a process, and the exceptions it
\* met, survive a step that does not move the process.
LEMMA OthersKeep ==
    ASSUME TypeOK, TypeOK', [Next]_vars, NEW h \in ProcessRecord, PlaceOK(h),
           PrefixOK(h), FailuresOK(h)
    PROVE  PrefixOK(h)' /\ FailuresOK(h)'
<1>1. ASSUME NEW i \in 1 .. LengthOf[h.plan],
             NEW k \in DOMAIN CallsOf[h.plan][i], Through(h, i, k)
      PROVE  Kept(CallsOf[h.plan][i][k])'
  <2>1. PICK c : c = CallsOf[h.plan][i][k]
    OBVIOUS
  <2>2. IsCall(c)
    BY <2>1, PlansAreIngests DEF IsIngest, ProcessRecord
  <2>3. Kept(c)
    BY <1>1, <2>1 DEF PrefixOK
  <2>4. Kept(c)'
    BY <2>2, <2>3, KeptStep
  <2> QED
    BY <2>1, <2>4
<1>2. ASSUME NEW f \in h.failed, f[2] # 0
      PROVE  Grounded(CallsOf[h.plan][f[1]][f[2]])'
  <2>1. PICK c : c = CallsOf[h.plan][f[1]][f[2]]
    OBVIOUS
  <2>2. Grounded(c)
    BY <1>2, <2>1 DEF FailuresOK
  <2>3. Grounded(c)'
    BY <2>2, GroundedStep
  <2> QED
    BY <2>1, <2>3
<1> QED
  BY <1>1, <1>2 DEF PrefixOK, FailuresOK, Through

\* A process that starts has been through nothing.
LEMMA StartOK ==
    ASSUME NEW b, NEW p \in DOMAIN Plans
    PROVE  /\ PlaceOK(Process(b, p)) /\ PrefixOK(Process(b, p))
           /\ FailuresOK(Process(b, p))
<1> DEFINE h == Process(b, p)
<1>1. h.step = 1 /\ h.next = 0 /\ h.failed = {} /\ h.plan = p
  BY DEF Process
<1>2. LengthOf[p] \in Nat /\ \A i \in 1 .. LengthOf[p] :
         /\ Len(CallsOf[p][i]) \in Nat
         /\ DOMAIN CallsOf[p][i] = 1 .. Len(CallsOf[p][i])
  BY PlansAreIngests
<1> HIDE DEF h
<1>3. PlaceOK(h)
  BY <1>1, <1>2 DEF PlaceOK
<1>4. ASSUME NEW i \in 1 .. LengthOf[p], NEW k \in DOMAIN CallsOf[p][i]
      PROVE  ~Through(h, i, k)
  BY <1>1, <1>2 DEF Through
<1> QED
  BY <1>1, <1>3, <1>4 DEF PrefixOK, FailuresOK, h

\* The calls of the discovery a process is at.
LEMMA AtDiscovery ==
    ASSUME NEW h \in ProcessRecord, h.step <= LengthOf[h.plan]
    PROVE  /\ LengthOf[h.plan] \in Nat
           /\ h.step \in 1 .. LengthOf[h.plan]
           /\ Len(CallsOf[h.plan][h.step]) \in Nat
           /\ DOMAIN CallsOf[h.plan][h.step]
                 = 1 .. Len(CallsOf[h.plan][h.step])
           /\ IsIngest(CallsOf[h.plan][h.step])
<1>1. h.plan \in DOMAIN Plans /\ h.step \in Nat \ {0}
  BY DEF ProcessRecord
<1>2. LengthOf[h.plan] \in Nat
  BY <1>1, PlansAreIngests
<1>3. h.step \in 1 .. LengthOf[h.plan]
  BY <1>1, <1>2
<1> QED
  BY <1>1, <1>2, <1>3, PlansAreIngests

\* discover returns: the process has been through no more than before.
LEMMA BeginOK ==
    ASSUME NEW h \in ProcessRecord, h.step <= LengthOf[h.plan], h.next = 0,
           NEW h2, h2.step = h.step, h2.next = 1, h2.failed = h.failed,
           h2.plan = h.plan, PlaceOK(h), PrefixOK(h), FailuresOK(h)
    PROVE  PlaceOK(h2) /\ PrefixOK(h2) /\ FailuresOK(h2)
<1>1. /\ h2.step = h.step /\ h2.next = 1 /\ h2.failed = h.failed
      /\ h2.plan = h.plan
  OBVIOUS
<1>2. /\ LengthOf[h.plan] \in Nat /\ h.step \in 1 .. LengthOf[h.plan]
      /\ Len(CallsOf[h.plan][h.step]) \in Nat
      /\ \A i \in 1 .. LengthOf[h.plan] :
            DOMAIN CallsOf[h.plan][i] = 1 .. Len(CallsOf[h.plan][i])
  BY AtDiscovery, PlansAreIngests DEF ProcessRecord
<1>3. PlaceOK(h2)
  <2>1. /\ \A f \in h2.failed : /\ f[1] \in 1 .. h2.step - 1
                                /\ f[2] \in 0 .. Len(CallsOf[h2.plan][f[1]])
        /\ \A f, g \in h2.failed : f[1] = g[1] => f[2] = g[2]
    BY <1>1 DEF PlaceOK
  <2>2. /\ h2.step <= LengthOf[h2.plan] + 1 /\ h2.step # LengthOf[h2.plan] + 1
        /\ h2.next <= Len(CallsOf[h2.plan][h2.step]) + 1
    BY <1>1, <1>2
  <2> QED
    BY <2>1, <2>2 DEF PlaceOK
<1>4. ASSUME NEW i \in 1 .. LengthOf[h.plan],
             NEW k \in DOMAIN CallsOf[h.plan][i], Through(h2, i, k)
      PROVE  Through(h, i, k)
  BY <1>1, <1>2, <1>4 DEF Through
<1> QED
  BY <1>1, <1>3, <1>4 DEF PrefixOK, FailuresOK

\* A call returns: the process has been through one call more.
LEMMA OneCallMore ==
    ASSUME NEW h \in ProcessRecord, h.step <= LengthOf[h.plan],
           h.next \in DOMAIN CallsOf[h.plan][h.step], PlaceOK(h),
           NEW h2, h2 = [h EXCEPT !.next = h.next + 1]
    PROVE  /\ PlaceOK(h2) /\ h2.plan = h.plan /\ h2.failed = h.failed
           /\ \A i \in 1 .. LengthOf[h.plan] :
                 \A k \in DOMAIN CallsOf[h.plan][i] :
                    Through(h2, i, k) =>
                       Through(h, i, k) \/ (i = h.step /\ k = h.next)
<1>1. /\ h2.step = h.step /\ h2.next = h.next + 1 /\ h2.failed = h.failed
      /\ h2.plan = h.plan
  BY DEF ProcessRecord
<1>2. /\ LengthOf[h.plan] \in Nat /\ h.step \in 1 .. LengthOf[h.plan]
      /\ Len(CallsOf[h.plan][h.step]) \in Nat
      /\ h.next \in 1 .. Len(CallsOf[h.plan][h.step])
      /\ \A i \in 1 .. LengthOf[h.plan] :
            DOMAIN CallsOf[h.plan][i] = 1 .. Len(CallsOf[h.plan][i])
  BY AtDiscovery, PlansAreIngests DEF ProcessRecord
<1>3. PlaceOK(h2)
  <2>1. /\ \A f \in h2.failed : /\ f[1] \in 1 .. h2.step - 1
                                /\ f[2] \in 0 .. Len(CallsOf[h2.plan][f[1]])
        /\ \A f, g \in h2.failed : f[1] = g[1] => f[2] = g[2]
    BY <1>1 DEF PlaceOK
  <2>2. /\ h2.step <= LengthOf[h2.plan] + 1 /\ h2.step # LengthOf[h2.plan] + 1
        /\ h2.next <= Len(CallsOf[h2.plan][h2.step]) + 1
    <3>1. PICK l, n : l = LengthOf[h.plan] /\ n = Len(CallsOf[h.plan][h.step])
      OBVIOUS
    <3>2. /\ l \in Nat /\ n \in Nat /\ h2.step \in 1 .. l
          /\ h2.next = h.next + 1 /\ h.next \in 1 .. n
      BY <1>1, <1>2, <3>1
    <3>3. h2.step <= l + 1 /\ h2.step # l + 1 /\ h2.next <= n + 1
      BY <3>2
    <3> QED
      BY <1>1, <3>1, <3>3
  <2> QED
    BY <2>1, <2>2 DEF PlaceOK
<1>4. ASSUME NEW i \in 1 .. LengthOf[h.plan],
             NEW k \in DOMAIN CallsOf[h.plan][i], Through(h2, i, k)
      PROVE  Through(h, i, k) \/ (i = h.step /\ k = h.next)
  <2>1. CASE i = h.step
    <3>1. k \in Nat /\ h.next \in Nat
      BY <1>2, <2>1
    <3>2. k < h.next + 1
      BY <1>1, <1>2, <1>4, <2>1 DEF Through
    <3> QED
      BY <2>1, <3>1, <3>2 DEF Through
  <2>2. CASE i # h.step
    BY <1>1, <1>4, <2>2 DEF Through
  <2> QED
    BY <2>1, <2>2
<1> QED
  BY <1>1, <1>3, <1>4

\* ingest returns: the process has been through all its calls.
LEMMA ReturnOK ==
    ASSUME NEW h \in ProcessRecord, h.step <= LengthOf[h.plan],
           h.next = Len(CallsOf[h.plan][h.step]) + 1,
           NEW h2, h2 = [h EXCEPT !.step = h.step + 1, !.next = 0],
           PlaceOK(h), PrefixOK(h), FailuresOK(h)
    PROVE  PlaceOK(h2) /\ PrefixOK(h2) /\ FailuresOK(h2)
<1>1. /\ h2.step = h.step + 1 /\ h2.next = 0 /\ h2.failed = h.failed
      /\ h2.plan = h.plan
  BY DEF ProcessRecord
<1>2. /\ LengthOf[h.plan] \in Nat /\ h.step \in 1 .. LengthOf[h.plan]
      /\ \A i \in 1 .. LengthOf[h.plan] :
            /\ Len(CallsOf[h.plan][i]) \in Nat
            /\ DOMAIN CallsOf[h.plan][i] = 1 .. Len(CallsOf[h.plan][i])
  BY AtDiscovery, PlansAreIngests DEF ProcessRecord
<1>3. PlaceOK(h2)
  <2>1. h2.step <= LengthOf[h.plan] => 0 <= Len(CallsOf[h.plan][h2.step]) + 1
    BY <1>1, <1>2
  <2>2. \A f \in h2.failed : /\ f[1] \in 1 .. h2.step - 1
                             /\ f[2] \in 0 .. Len(CallsOf[h2.plan][f[1]])
    BY <1>1, <1>2 DEF PlaceOK
  <2> QED
    BY <1>1, <1>2, <2>1, <2>2 DEF PlaceOK
<1>4. ASSUME NEW i \in 1 .. LengthOf[h.plan],
             NEW k \in DOMAIN CallsOf[h.plan][i], Through(h2, i, k)
      PROVE  Through(h, i, k)
  BY <1>1, <1>2, <1>4 DEF Through
<1> QED
  BY <1>1, <1>3, <1>4 DEF PrefixOK, FailuresOK

\* An exception: the process leaves the discovery with the calls it has been
\* through, and the one that failed refers to what is registered.
LEMMA ThrownOK ==
    ASSUME NEW h \in ProcessRecord, h.step <= LengthOf[h.plan],
           h.next <= Len(CallsOf[h.plan][h.step]),
           PlaceOK(h), PrefixOK(h), FailuresOK(h),
           h.next # 0 => Grounded(CallsOf[h.plan][h.step][h.next])
    PROVE  PlaceOK(Thrown(h)) /\ PrefixOK(Thrown(h)) /\ FailuresOK(Thrown(h))
<1> DEFINE h2 == Thrown(h)
<1>1. /\ h2.step = h.step + 1 /\ h2.next = 0
      /\ h2.failed = h.failed \cup {<<h.step, h.next>>}
      /\ h2.plan = h.plan
  BY DEF ProcessRecord, Thrown
<1>2. /\ LengthOf[h.plan] \in Nat /\ h.step \in 1 .. LengthOf[h.plan]
      /\ h.next \in 0 .. Len(CallsOf[h.plan][h.step])
      /\ \A i \in 1 .. LengthOf[h.plan] :
            /\ Len(CallsOf[h.plan][i]) \in Nat
            /\ DOMAIN CallsOf[h.plan][i] = 1 .. Len(CallsOf[h.plan][i])
  BY AtDiscovery, PlansAreIngests DEF ProcessRecord
<1> DEFINE g == <<h.step, h.next>>
<1>3. g[1] = h.step /\ g[2] = h.next
  OBVIOUS
<1> HIDE DEF h2, g
<1>4. PlaceOK(h2)
  <2>1. \A f \in h.failed : f[1] \in 1 .. h.step - 1
    BY DEF PlaceOK
  <2>2. ASSUME NEW f \in h2.failed
        PROVE  /\ f[1] \in 1 .. h2.step - 1
               /\ f[2] \in 0 .. Len(CallsOf[h.plan][f[1]])
    BY <1>1, <1>2, <1>3 DEF PlaceOK, g
  <2>3. ASSUME NEW f \in h2.failed, NEW f2 \in h2.failed, f[1] = f2[1]
        PROVE  f[2] = f2[2]
    BY <1>1, <1>2, <1>3, <2>1, <2>3 DEF PlaceOK, g
  <2>4. h2.step <= LengthOf[h.plan] => 0 <= Len(CallsOf[h.plan][h2.step]) + 1
    BY <1>1, <1>2
  <2> QED
    BY <1>1, <1>2, <2>2, <2>3, <2>4 DEF PlaceOK
<1>5. ASSUME NEW i \in 1 .. LengthOf[h.plan],
             NEW k \in DOMAIN CallsOf[h.plan][i], Through(h2, i, k)
      PROVE  Through(h, i, k)
  <2>1. g \in h2.failed /\ h.failed \subseteq h2.failed
    BY <1>1 DEF g
  <2> QED
    BY <1>1, <1>2, <1>3, <1>5, <2>1 DEF Through
<1>6. FailuresOK(h2)
  BY <1>1, <1>3 DEF FailuresOK, g
<1> QED
  BY <1>1, <1>4, <1>5, <1>6 DEF PrefixOK, h2

\* What the next call of a process refers to is registered.
LEMMA NextIsGrounded ==
    ASSUME NEW h \in ProcessRecord, h.step <= LengthOf[h.plan],
           h.next \in DOMAIN CallsOf[h.plan][h.step], PrefixOK(h)
    PROVE  Grounded(CallsOf[h.plan][h.step][h.next])
<1> DEFINE s == CallsOf[h.plan][h.step]
           P == {s[j] : j \in 1 .. h.next - 1}
<1>1. /\ h.step \in 1 .. LengthOf[h.plan] /\ Len(s) \in Nat
      /\ DOMAIN s = 1 .. Len(s) /\ Closed(s)
  BY AtDiscovery DEF IsIngest
<1>2. Anchored(s[h.next], P)
  BY <1>1 DEF Closed
<1>3. ASSUME NEW j \in 1 .. h.next - 1
      PROVE  Kept(s[j])
  <2>1. j \in DOMAIN s /\ j < h.next
    BY <1>1
  <2>2. Through(h, h.step, j)
    BY <2>1 DEF Through
  <2> QED
    BY <1>1, <2>1, <2>2 DEF PrefixOK
<1>4. \A p \in P : Kept(p)
  BY <1>3
<1> HIDE DEF P
<1> QED
  BY <1>2, <1>4, AnchoredIsGrounded

\* What holds of a process that runs.
ProcessOK(h) == PlaceOK(h) /\ PrefixOK(h) /\ FailuresOK(h)

\* discover, the call of ingest or its exception keeps what holds of the
\* process that makes it.
LEMMA DiscoverKeeps ==
    ASSUME TypeOK, TypeOK', [Next]_vars, NEW h \in ProcessRecord,
           h.step <= LengthOf[h.plan], h.next = 0, ProcessOK(h),
           NEW e \in Nat, NEW h2 \in ProcessRecord,
           h2 = Thrown(h) \/ h2 = [h EXCEPT !.next = 1, !.epoch = e]
    PROVE  ProcessOK(h2)'
<1>1. CASE h2 = Thrown(h)
  <2>1. h.next <= Len(CallsOf[h.plan][h.step])
    BY AtDiscovery
  <2>2. ProcessOK(h2)
    BY <1>1, <2>1, ThrownOK DEF ProcessOK
  <2> QED
    BY <2>2, OthersKeep DEF ProcessOK, PlaceOK
<1>2. CASE h2 = [h EXCEPT !.next = 1, !.epoch = e]
  <2>1. /\ h2.step = h.step /\ h2.next = 1 /\ h2.failed = h.failed
        /\ h2.plan = h.plan
    BY <1>2 DEF ProcessRecord
  <2>2. ProcessOK(h2)
    BY <2>1, BeginOK DEF ProcessOK
  <2> QED
    BY <2>2, OthersKeep DEF ProcessOK, PlaceOK
<1> QED
  BY <1>1, <1>2

\* A registry call, whether it returns or throws, keeps what holds of the
\* process that makes it.
LEMMA IngestKeeps ==
    ASSUME TypeOK, TypeOK', [Next]_vars, NEW h \in ProcessRecord,
           h.step <= LengthOf[h.plan],
           h.next \in DOMAIN CallsOf[h.plan][h.step], ProcessOK(h),
           NEW h2 \in ProcessRecord,
           \/ h2 = Thrown(h)
           \/ /\ h2 = [h EXCEPT !.next = h.next + 1]
              /\ Kept(CallsOf[h.plan][h.step][h.next])'
    PROVE  ProcessOK(h2)'
<1>1. CASE h2 = Thrown(h)
  <2>1. h.next <= Len(CallsOf[h.plan][h.step])
    BY AtDiscovery
  <2>2. Grounded(CallsOf[h.plan][h.step][h.next])
    BY NextIsGrounded DEF ProcessOK
  <2>3. ProcessOK(h2)
    BY <1>1, <2>1, <2>2, ThrownOK DEF ProcessOK
  <2> QED
    BY <2>3, OthersKeep DEF ProcessOK, PlaceOK
<1>2. CASE /\ h2 = [h EXCEPT !.next = h.next + 1]
           /\ Kept(CallsOf[h.plan][h.step][h.next])'
  <2>1. /\ PlaceOK(h2) /\ h2.plan = h.plan /\ h2.failed = h.failed
        /\ \A i \in 1 .. LengthOf[h.plan] :
              \A k \in DOMAIN CallsOf[h.plan][i] :
                 Through(h2, i, k) =>
                    Through(h, i, k) \/ (i = h.step /\ k = h.next)
    BY <1>2, OneCallMore DEF ProcessOK
  <2>2. PrefixOK(h)' /\ FailuresOK(h)'
    BY OthersKeep DEF ProcessOK
  <2>3. FailuresOK(h2)'
    BY <2>1, <2>2 DEF FailuresOK
  <2>4. PrefixOK(h2)'
    BY <1>2, <2>1, <2>2 DEF PrefixOK, Through
  <2> QED
    BY <2>1, <2>3, <2>4 DEF ProcessOK, PlaceOK
<1> QED
  BY <1>1, <1>2

\* ingest returning keeps what holds of the process.
LEMMA IngestReturnsKeeps ==
    ASSUME TypeOK, TypeOK', [Next]_vars, NEW h \in ProcessRecord,
           h.step <= LengthOf[h.plan],
           h.next = Len(CallsOf[h.plan][h.step]) + 1, ProcessOK(h),
           NEW h2 \in ProcessRecord,
           h2 = [h EXCEPT !.step = h.step + 1, !.next = 0]
    PROVE  ProcessOK(h2)'
<1>1. ProcessOK(h2)
  BY ReturnOK DEF ProcessOK
<1> QED
  BY <1>1, OthersKeep DEF ProcessOK, PlaceOK

\* Every step keeps the invariant.
LEMMA EngineInvStep == EngineInv /\ [EngineNext]_evars => EngineInv'
<1> SUFFICES ASSUME EngineInv, [EngineNext]_evars
             PROVE  EngineInv'
  OBVIOUS
<1>1. EngineTypeOK /\ EngineTypeOK' /\ TypeOK /\ TypeOK' /\ [Next]_vars
  BY EngineTypeStep, EngineStep DEF EngineInv, EngineTypeOK
<1>2. SUFFICES ASSUME NEW v \in Workers, NEW h2, h2 = host'[v], h2 # None
               PROVE  ProcessOK(h2)'
  BY <1>1, <1>2 DEF EngineInv, Running, ProcessOK
<1>3. PICK h : h = host[v]
  OBVIOUS
<1>4. h2 \in ProcessRecord /\ (h # None => h \in ProcessRecord /\ ProcessOK(h))
  BY <1>1, <1>2, <1>3 DEF EngineTypeOK, EngineInv, Running, ProcessOK
<1>5. CASE h2 = h
  BY <1>1, <1>2, <1>4, <1>5, OthersKeep DEF ProcessOK, PlaceOK
<1>6. ASSUME NEW p \in site.plans, LaunchHost(v, p)
      PROVE  ProcessOK(h2)'
  <2>1. PICK b : b = FreshBootId
    OBVIOUS
  <2>2. h2 = Process(b, p) /\ p \in DOMAIN Plans
    BY <1>1, <1>2, <1>6, <2>1, PlansAssumption DEF LaunchHost, EngineTypeOK
  <2>3. ProcessOK(h2)
    BY <2>2, StartOK DEF ProcessOK
  <2> QED
    BY <1>1, <1>4, <2>3, OthersKeep DEF ProcessOK, PlaceOK
<1>7. ASSUME Working(v)
      PROVE  /\ h # None /\ h.step <= LengthOf[h.plan]
             /\ h \in ProcessRecord /\ ProcessOK(h)
  BY <1>3, <1>4, <1>7 DEF Working, Running, Here
<1>8. CASE Discover(v)
  <2>1. PICK e \in Nat : e = epoch
    BY <1>1 DEF TypeOK, Epochs
  <2>2. h.next = 0 /\ Working(v)
    BY <1>3, <1>8 DEF Discover
  <2>3. h2 = Thrown(h) \/ h2 = [h EXCEPT !.next = 1, !.epoch = e]
    BY <1>1, <1>2, <1>3, <1>8, <2>1 DEF Discover, EngineTypeOK
  <2> QED
    BY <1>1, <1>4, <1>7, <2>1, <2>2, <2>3, DiscoverKeeps
<1>9. CASE Ingest(v)
  <2>1. PICK c \in Pending(host[v]) :
           /\ Performed(c, host[v].epoch, v, host[v].boot)
           /\ host' = [host EXCEPT ![v] =
                         IF Returns(c, host[v].epoch, v, host[v].boot)
                         THEN [host[v] EXCEPT !.next = host[v].next + 1]
                         ELSE Thrown(host[v])]
    BY <1>9 DEF Ingest
  <2>2. Working(v)
    BY <1>9 DEF Ingest
  <2>3. /\ IsCall(c) /\ h.next \in DOMAIN CallsOf[h.plan][h.step]
        /\ c = CallsOf[h.plan][h.step][h.next]
        /\ h.boot \in Boots
    BY <1>1, <1>3, <1>7, <2>2, PendingIsCall DEF Here, ProcessRecord
  <2>4. PICK e, b : e = host[v].epoch /\ b = host[v].boot
    OBVIOUS
  <2>5. \/ h2 = Thrown(h)
        \/ h2 = [h EXCEPT !.next = h.next + 1] /\ Returns(c, e, v, b)
    BY <1>1, <1>2, <1>3, <2>1, <2>4 DEF EngineTypeOK
  <2>6. Returns(c, e, v, b) => Kept(c)'
    BY <1>1, <1>3, <2>1, <2>3, <2>4, ReturnedIsKept
  <2> QED
    BY <1>1, <1>4, <1>7, <2>2, <2>3, <2>5, <2>6, IngestKeeps
<1>10. CASE IngestReturns(v)
  <2>1. /\ Working(v) /\ h.next = Len(CallsOf[h.plan][h.step]) + 1
        /\ h2 = [h EXCEPT !.step = h.step + 1, !.next = 0]
    BY <1>1, <1>2, <1>3, <1>10 DEF IngestReturns, EngineTypeOK, Here
  <2> QED
    BY <1>1, <1>4, <1>7, <2>1, IngestReturnsKeeps
<1>11. \/ h2 = h \/ Discover(v) \/ Ingest(v) \/ IngestReturns(v)
       \/ \E p \in site.plans : LaunchHost(v, p)
  <2>1. ASSUME NEW w \in Workers, w # v,
               \/ \E p \in site.plans : LaunchHost(w, p)
               \/ Discover(w) \/ Ingest(w) \/ IngestReturns(w) \/ Die(w)
        PROVE  host'[v] = host[v]
    BY <1>1, <2>1 DEF LaunchHost, Discover, Ingest, IngestReturns, Die, EngineTypeOK
  <2>2. ASSUME Die(v) PROVE FALSE
    BY <1>1, <1>2, <2>2 DEF Die, EngineTypeOK
  <2>3. ASSUME \/ \E w \in Workers : \/ Retire(w)
                                     \/ \E n \in Present(nics) : Advance(w, n)
               \/ Restart \/ Query \/ UNCHANGED evars
        PROVE  host' = host
    BY <2>3 DEF Retire, Advance, Restart, Query, evars
  <2> QED
    BY <1>2, <1>3, <2>1, <2>2, <2>3 DEF EngineNext, Progress
<1> QED
  BY <1>5, <1>6, <1>8, <1>9, <1>10, <1>11

\* The invariant holds throughout.
LEMMA EngineInvHolds == EngineSpec => []EngineInv
<1>1. EngineInit => EngineInv
  BY BoundsAssumption
  DEF EngineInit, Init, EngineInv, EngineTypeOK, TypeOK, Running
<1> QED
  BY <1>1, EngineInvStep, PTL DEF EngineSpec

\* What a process has passed, as the property counts it, are calls that have
\* returned.
LEMMA PassedIsThrough ==
    ASSUME EngineInv, NEW w \in Workers, Running(w),
           NEW i \in DOMAIN CallsOf[Here(w)], NEW c \in Passed(w, i)
    PROVE  Kept(c)
<1>1. PICK h : h = host[w]
  OBVIOUS
<1>2. h \in ProcessRecord /\ ProcessOK(h) /\ h.plan \in DOMAIN Plans
  BY <1>1 DEF EngineInv, EngineTypeOK, Running, ProcessOK, ProcessRecord
<1>3. /\ i \in 1 .. LengthOf[h.plan] /\ LengthOf[h.plan] \in Nat
      /\ Len(CallsOf[h.plan][i]) \in Nat
      /\ DOMAIN CallsOf[h.plan][i] = 1 .. Len(CallsOf[h.plan][i])
  BY <1>1, <1>2, PlansAreIngests DEF Here
<1> DEFINE thrown == {k \in DOMAIN CallsOf[h.plan][i] \cup {0} : <<i, k>> \in h.failed}
           upto == IF thrown # {} THEN (CHOOSE k \in thrown : TRUE) - 1
                   ELSE IF h.step = i THEN h.next - 1
                   ELSE IF h.step > i THEN Len(CallsOf[h.plan][i]) ELSE 0
<1>4. PICK k \in 1 .. upto : c = CallsOf[h.plan][i][k]
  BY <1>1 DEF Passed
<1>5. /\ h.step \in Nat /\ h.next \in Nat /\ h.failed \subseteq Nat \X Nat
      /\ \A f \in h.failed : /\ f[1] \in 1 .. h.step - 1
                             /\ f[2] \in 0 .. Len(CallsOf[h.plan][f[1]])
      /\ \A f, g \in h.failed : f[1] = g[1] => f[2] = g[2]
  BY <1>2 DEF ProcessRecord, ProcessOK, PlaceOK
<1>6. \A f \in h.failed : f[1] = i => f[2] \in thrown
  <2> SUFFICES ASSUME NEW f \in h.failed, f[1] = i PROVE f[2] \in thrown
    OBVIOUS
  <2>1. f = <<f[1], f[2]>>
    BY <1>5
  <2>2. PICK x : x = f[2]
    OBVIOUS
  <2>3. x \in 0 .. Len(CallsOf[h.plan][i])
    BY <1>5, <2>2
  <2>4. x \in DOMAIN CallsOf[h.plan][i] \cup {0} /\ <<i, x>> \in h.failed
    BY <1>3, <2>1, <2>2, <2>3
  <2> QED
    BY <2>2, <2>4
<1>7. CASE thrown # {}
  <2>1. PICK t \in thrown : upto = t - 1
    BY <1>7
  <2>2. /\ t \in Nat /\ <<i, t>> \in h.failed /\ t <= Len(CallsOf[h.plan][i])
    BY <1>3, <2>1
  <2>3. i < h.step /\ \A f \in h.failed : f[1] = i => f[2] = t
    BY <1>3, <1>5, <2>2
  <2>4. k \in Nat /\ 1 <= k /\ k < t
    BY <1>4, <2>1, <2>2
  <2>5. Through(h, i, k) /\ k \in DOMAIN CallsOf[h.plan][i]
    BY <1>3, <2>2, <2>3, <2>4 DEF Through
  <2> QED
    BY <1>2, <1>3, <1>4, <2>5 DEF ProcessOK, PrefixOK
<1>8. CASE thrown = {}
  <2>1. \A f \in h.failed : f[1] # i
    BY <1>6, <1>8
  <2>2. h.step = i => h.next <= Len(CallsOf[h.plan][i]) + 1
    BY <1>2, <1>3 DEF ProcessOK, PlaceOK
  <2>3. upto = IF h.step = i THEN h.next - 1
               ELSE IF h.step > i THEN Len(CallsOf[h.plan][i]) ELSE 0
    BY <1>8
  <2> HIDE DEF upto, thrown
  <2>4. Through(h, i, k) /\ k \in DOMAIN CallsOf[h.plan][i]
    BY <1>3, <1>4, <1>5, <2>1, <2>2, <2>3 DEF Through
  <2> QED
    BY <1>2, <1>3, <1>4, <2>4 DEF ProcessOK, PrefixOK
<1> QED
  BY <1>7, <1>8

\* While no generation runs over the end of its range, an ingest leaves a
\* prefix of its discovery in the registry, all of it when it returns, at the
\* generations discovered or later ones, whoever else publishes, advances,
\* retires or restarts in between (ResidencyEngine::ingest).
THEOREM IngestLeavesPrefixHolds ==
    ASSUME NoWrap
    PROVE  EngineSpec => []IngestLeavesPrefix
<1>1. EngineInv => IngestLeavesPrefix
  BY PassedIsThrough DEF IngestLeavesPrefix, Kept
<1> QED
  BY <1>1, EngineInvHolds, PTL

\* Whatever a discovery whose records refer to each other contains, no call of
\* its ingest is rejected for a reference that is not registered, also with
\* other processes between the calls (the order of the loops of ingest).
THEOREM IngestOrderIsClosedHolds == EngineSpec => []IngestOrderIsClosed
<1>1. EngineInv => IngestOrderIsClosed
  BY DEF EngineInv, IngestOrderIsClosed, FailuresOK
<1> QED
  BY <1>1, EngineInvHolds, PTL
=============================================================================
