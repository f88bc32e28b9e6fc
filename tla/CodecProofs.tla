----------------------------- MODULE CodecProofs -----------------------------
(***************************************************************************)
(* Theorems about PersistenceCodec, for every byte base, every limit and   *)
(* every set of states that is saved: what is saved loads, faithfully, and *)
(* what was recovered once does not drift any more.                        *)
(***************************************************************************)
EXTENDS PersistenceCodec, OrderLemmas, FunctionTheorems

-----------------------------------------------------------------------------
(* 16-bit fields                                                           *)

\* The low digit of a number written with two digits.
LEMMA LowDigit ==
    ASSUME NEW B \in Nat \ {0}, NEW q \in Nat, NEW r \in 0 .. B - 1
    PROVE  (q * B + r) % B = r
<1> DEFINE x == q * B + r
<1>1. x \in Nat /\ q * B \in Nat
  OBVIOUS
<1>2. PICK d, m : d = x \div B /\ m = x % B
  OBVIOUS
<1>3. d \in Nat /\ m \in 0 .. B - 1 /\ x = B * d + m
  BY <1>1, <1>2
<1>4. ASSUME NEW j \in Nat, NEW k \in Nat, j < k
      PROVE  B * j + B <= B * k
  <2>1. PICK n \in Nat : k = j + 1 + n
    BY <1>4
  <2>2. B * k = B * j + B + B * n /\ B * n \in Nat /\ B * j \in Nat
    BY <2>1
  <2> QED
    BY <2>2
<1>5. ~(d < q)
  <2> SUFFICES ASSUME d < q PROVE FALSE
    OBVIOUS
  <2>1. B * d + B <= B * q
    BY <1>3, <1>4
  <2> QED
    BY <1>3, <2>1
<1>6. ~(q < d)
  <2> SUFFICES ASSUME q < d PROVE FALSE
    OBVIOUS
  <2>1. B * q + B <= B * d
    BY <1>3, <1>4
  <2> QED
    BY <1>3, <2>1
<1>7. d = q
  BY <1>3, <1>5, <1>6
<1> QED
  BY <1>2, <1>3, <1>7

\* Reader::u16 gives a 16-bit value, which a second reading leaves alone, and
\* the value itself when its low byte is not negative.
LEMMA ReadU16Properties ==
    ASSUME NEW v \in U16
    PROVE  /\ ReadU16(v) \in U16
           /\ ReadU16(ReadU16(v)) = ReadU16(v)
           /\ Plain(v) => ReadU16(v) = v
<1> DEFINE low == v % ByteBase
           B == ByteBase
<1>1. /\ B \in Nat \ {0} /\ v \in Nat
      /\ low \in 0 .. B - 1
  BY CodecAssumption DEF U16
<1>2. Plain(v) => ReadU16(v) = v
  BY <1>1 DEF Plain, ReadU16
<1>3. CASE ~(2 * low >= B)
  <2>1. ReadU16(v) = v
    BY <1>3 DEF ReadU16
  <2> QED
    BY <1>2, <2>1
<1>4. CASE 2 * low >= B
  <2> DEFINE u == (B - 1) * B + low
  <2>1. ReadU16(v) = u
    BY <1>4 DEF ReadU16
  <2>2. u % B = low
    <3>1. PICK q \in Nat, r \in 0 .. B - 1 : q = B - 1 /\ r = low
      BY <1>1
    <3>2. (q * B + r) % B = r
      BY <1>1, <3>1, LowDigit
    <3> QED
      BY <3>1, <3>2
  <2>3. u \in U16
    BY <1>1 DEF U16
  <2>4. ReadU16(u) = (B - 1) * B + (u % B)
    <3>1. 2 * (u % B) >= B
      BY <1>4, <2>2
    <3>2. ReadU16(u) = IF 2 * (u % B) >= B THEN (B - 1) * B + (u % B) ELSE u
      BY DEF ReadU16
    <3> HIDE DEF u, B
    <3> QED
      BY <3>1, <3>2
  <2>5. ReadU16(u) = u
    BY <2>2, <2>4
  <2> HIDE DEF u
  <2> QED
    BY <1>2, <2>1, <2>3, <2>5
<1> QED
  BY <1>3, <1>4

\* read_nic and read_gpu give records of the same type, which a second reading
\* leaves alone.
LEMMA ReadProperties ==
    /\ \A n \in SavedNic : /\ ReadNic(n) \in SavedNic
                           /\ ReadNic(ReadNic(n)) = ReadNic(n)
                           /\ SameNic(n, ReadNic(n))
                           /\ ReadNic(n).sources = n.sources
    /\ \A g \in SavedGpu : /\ ReadGpu(g) \in SavedGpu
                           /\ ReadGpu(ReadGpu(g)) = ReadGpu(g)
                           /\ SameIdentity(g, ReadGpu(g))
                           /\ ReadGpu(g).sources = g.sources
<1>1. ASSUME NEW n \in SavedNic
      PROVE  /\ ReadNic(n) \in SavedNic
             /\ ReadNic(ReadNic(n)) = ReadNic(n)
             /\ SameNic(n, ReadNic(n))
             /\ ReadNic(n).sources = n.sources
  <2>1. n.vendor_id \in U16
    BY DEF SavedNic
  <2>2. PICK u \in U16 : u = ReadU16(n.vendor_id)
    BY <2>1, ReadU16Properties
  <2>3. u \in U16 /\ ReadU16(u) = u /\ (Plain(n.vendor_id) => u = n.vendor_id)
    BY <2>1, <2>2, ReadU16Properties
  <2>4. ReadNic(n) = [n EXCEPT !.vendor_id = u,
                               !.freshness = 0,
                               !.lifecycle = "REVALIDATION_REQUIRED"]
    BY <2>2 DEF ReadNic
  <2>5. ReadNic(n) \in SavedNic /\ ReadNic(n).vendor_id = u
    <3>1. ReadNic(n) \in SavedNic
      <4>1. PICK m : m = [n EXCEPT !.vendor_id = u, !.freshness = 0]
        OBVIOUS
      <4>2. m \in SavedNic
        BY <4>1 DEF SavedNic
      <4>3. PICK l \in LifecycleState : l = "REVALIDATION_REQUIRED"
        BY DEF LifecycleState
      <4>4. [m EXCEPT !.lifecycle = l] \in SavedNic
        BY <4>2 DEF SavedNic
      <4> QED
        BY <2>4, <4>1, <4>3, <4>4
    <3>2. ReadNic(n).vendor_id = u
      BY <2>4 DEF SavedNic
    <3> QED
      BY <3>1, <3>2
  <2>6. ReadNic(ReadNic(n)) = [ReadNic(n) EXCEPT !.vendor_id = u,
                                 !.freshness = 0,
                                 !.lifecycle = "REVALIDATION_REQUIRED"]
    BY <2>3, <2>5 DEF ReadNic
  <2>7. ReadNic(ReadNic(n)) = ReadNic(n)
    <3>1. \A x \in SavedNic :
             /\ x.vendor_id = u /\ x.lifecycle = "REVALIDATION_REQUIRED"
             /\ x.freshness = 0
             => [x EXCEPT !.vendor_id = u, !.freshness = 0,
                          !.lifecycle = "REVALIDATION_REQUIRED"] = x
      BY DEF SavedNic
    <3>2. /\ ReadNic(n).lifecycle = "REVALIDATION_REQUIRED"
          /\ ReadNic(n).freshness = 0
      BY <2>4 DEF SavedNic
    <3> QED
      BY <2>5, <2>6, <3>1, <3>2
  <2>8. SameNic(n, ReadNic(n)) /\ ReadNic(n).sources = n.sources
    BY <2>3, <2>4 DEF SameNic, SameIdentity, SavedNic
  <2> QED
    BY <2>5, <2>7, <2>8
<1>2. ASSUME NEW g \in SavedGpu
      PROVE  /\ ReadGpu(g) \in SavedGpu
             /\ ReadGpu(ReadGpu(g)) = ReadGpu(g)
             /\ SameIdentity(g, ReadGpu(g))
             /\ ReadGpu(g).sources = g.sources
  <2>1. g.vendor_id \in U16
    BY DEF SavedGpu
  <2>2. PICK u \in U16 : u = ReadU16(g.vendor_id)
    BY <2>1, ReadU16Properties
  <2>3. u \in U16 /\ ReadU16(u) = u /\ (Plain(g.vendor_id) => u = g.vendor_id)
    BY <2>1, <2>2, ReadU16Properties
  <2>4. ReadGpu(g) = [g EXCEPT !.vendor_id = u, !.freshness = 0]
    BY <2>2 DEF ReadGpu
  <2>5. ReadGpu(g) \in SavedGpu /\ ReadGpu(g).vendor_id = u
    <3>1. ReadGpu(g) \in SavedGpu
      <4>1. [g EXCEPT !.vendor_id = u, !.freshness = 0] \in SavedGpu
        BY DEF SavedGpu
      <4> QED
        BY <2>4, <4>1
    <3>2. ReadGpu(g).vendor_id = u
      BY <2>4 DEF SavedGpu
    <3> QED
      BY <3>1, <3>2
  <2>6. ReadGpu(ReadGpu(g)) = [ReadGpu(g) EXCEPT !.vendor_id = u, !.freshness = 0]
    BY <2>3, <2>5 DEF ReadGpu
  <2>7. ReadGpu(ReadGpu(g)) = ReadGpu(g)
    <3>1. \A x \in SavedGpu :
             x.vendor_id = u /\ x.freshness = 0
             => [x EXCEPT !.vendor_id = u, !.freshness = 0] = x
      BY DEF SavedGpu
    <3>2. ReadGpu(g).freshness = 0
      BY <2>4 DEF SavedGpu
    <3> QED
      BY <2>5, <2>6, <3>1, <3>2
  <2>8. SameIdentity(g, ReadGpu(g)) /\ ReadGpu(g).sources = g.sources
    BY <2>3, <2>4 DEF SameIdentity, SavedGpu
  <2> QED
    BY <2>5, <2>7, <2>8
<1> QED
  BY <1>1, <1>2

\* Reading a history record gives one of the same type, with what serialize
\* wrote of it.
LEMMA ReadResidencyProperties ==
    \A r \in SavedResidency : /\ ReadResidency(r) \in SavedResidency
                              /\ SameResidency(r, ReadResidency(r))
<1> SUFFICES ASSUME NEW r \in SavedResidency
             PROVE  /\ ReadResidency(r) \in SavedResidency
                    /\ SameResidency(r, ReadResidency(r))
  OBVIOUS
<1>1. PICK k \in EvidenceKind : k = "UNSUPPORTED"
  BY DEF EvidenceKind
<1>2. ReadResidency(r) = [r EXCEPT !.attachment_generation = 0,
                                   !.provenance = k, !.freshness = 0]
  BY <1>1 DEF ReadResidency
<1>3. [r EXCEPT !.attachment_generation = 0, !.provenance = k, !.freshness = 0]
        \in SavedResidency
  BY DEF SavedResidency
<1>4. SameResidency(r, ReadResidency(r))
  BY <1>2 DEF SameResidency, SavedResidency
<1> QED
  BY <1>2, <1>3, <1>4

-----------------------------------------------------------------------------
(* Sorting                                                                 *)

Increasing(s) == \A i, j \in DOMAIN s : i < j => s[i].id < s[j].id

\* A permutation of the indices of a list that never swaps two of them moves
\* none.
LEMMA IncreasingIsIdentity ==
    ASSUME NEW n \in Nat, NEW p \in Bijection(1 .. n, 1 .. n),
           \A i, j \in 1 .. n : i < j => p[i] < p[j]
    PROVE  \A i \in 1 .. n : p[i] = i
<1>1. /\ p \in [1 .. n -> 1 .. n]
      /\ \A j \in 1 .. n : \E i \in 1 .. n : p[i] = j
  BY DEF Bijection, Surjection
<1> DEFINE Moved == {i \in 1 .. n : p[i] # i}
<1>2. SUFFICES ASSUME Moved # {} PROVE FALSE
  OBVIOUS
<1>3. Moved \subseteq Nat
  OBVIOUS
<1>4. PICK i \in Moved : \A j \in Moved : i <= j
  <2> HIDE DEF Moved
  <2> QED
    BY <1>2, <1>3, LeastNatural
<1>5. \A j \in 1 .. n : j < i => p[j] = j
  BY <1>4
<1>6. p[i] > i
  <2>1. ~(p[i] < i)
    <3> SUFFICES ASSUME p[i] < i PROVE FALSE
      OBVIOUS
    <3>1. p[p[i]] = p[i]
      BY <1>1, <1>5
    <3>2. p[p[i]] < p[i]
      BY <1>1
    <3> QED
      BY <1>1, <3>1, <3>2
  <2> QED
    BY <1>1, <1>4, <2>1
<1>7. PICK k \in 1 .. n : p[k] = i
  BY <1>1, <1>4
<1>8. k > i
  <2>1. k # i
    BY <1>6, <1>7
  <2>2. ~(k < i)
    BY <1>5, <1>7
  <2> QED
    BY <2>1, <2>2
<1>9. p[i] < p[k]
  BY <1>4, <1>8
<1> QED
  BY <1>1, <1>4, <1>6, <1>7, <1>9

\* What sort yields is the list rearranged.
LEMMA SortedRearranges ==
    ASSUME NEW T, NEW s \in Seq(T), NEW t \in SortedById(s)
    PROVE  /\ t \in Seq(T) /\ Len(t) = Len(s) /\ DOMAIN t = DOMAIN s
           /\ \E p \in Bijection(DOMAIN s, DOMAIN s) :
                 \A i \in DOMAIN s : t[i] = s[p[i]]
           /\ \A i, j \in DOMAIN s : i < j => t[i].id <= t[j].id
<1>1. PICK p \in Bijection(DOMAIN s, DOMAIN s) : t = [i \in DOMAIN s |-> s[p[i]]]
  BY DEF SortedById
<1>2. \A i, j \in DOMAIN t : i < j => t[i].id <= t[j].id
  BY DEF SortedById
<1>3. DOMAIN s = 1 .. Len(s) /\ Len(s) \in Nat /\ \A i \in DOMAIN s : s[i] \in T
  OBVIOUS
<1>4. p \in [DOMAIN s -> DOMAIN s]
  BY DEF Bijection, Surjection
<1>5. DOMAIN t = DOMAIN s /\ \A i \in DOMAIN s : t[i] = s[p[i]]
  BY <1>1
<1>6. t \in [1 .. Len(s) -> T]
  BY <1>1, <1>3, <1>4
<1>7. t \in Seq(T) /\ Len(t) = Len(s)
  BY <1>3, <1>6
<1> QED
  BY <1>2, <1>5, <1>7

\* The records of the two are the same.
LEMMA SortedRange ==
    ASSUME NEW T, NEW s \in Seq(T), NEW t \in SortedById(s)
    PROVE  Range(t) = Range(s)
<1>1. PICK p \in Bijection(DOMAIN s, DOMAIN s) :
         \A i \in DOMAIN s : t[i] = s[p[i]]
  BY SortedRearranges
<1>2. DOMAIN t = DOMAIN s
  BY SortedRearranges
<1>3. /\ p \in [DOMAIN s -> DOMAIN s]
      /\ \A j \in DOMAIN s : \E i \in DOMAIN s : p[i] = j
  BY DEF Bijection, Surjection
<1> QED
  BY <1>1, <1>2, <1>3 DEF Range

\* Sorting keeps distinct ids distinct, and they come out increasing.
LEMMA SortedDistinctIds ==
    ASSUME NEW T, NEW s \in Seq(T), NEW t \in SortedById(s), DistinctIds(s),
           \A r \in T : r.id \in Nat
    PROVE  DistinctIds(t) /\ Increasing(t)
<1>1. PICK p \in Bijection(DOMAIN s, DOMAIN s) :
         \A i \in DOMAIN s : t[i] = s[p[i]]
  BY SortedRearranges
<1>2. /\ DOMAIN t = DOMAIN s /\ DOMAIN s = 1 .. Len(s) /\ t \in Seq(T)
      /\ \A i, j \in DOMAIN s : i < j => t[i].id <= t[j].id
  BY SortedRearranges
<1>3. /\ p \in [DOMAIN s -> DOMAIN s]
      /\ \A i, j \in DOMAIN s : p[i] = p[j] => i = j
  BY DEF Bijection, Injection, IsInjective
<1>4. DistinctIds(t)
  BY <1>1, <1>2, <1>3 DEF DistinctIds
<1>5. \A i \in DOMAIN s : t[i].id \in Nat
  <2>1. \A i \in DOMAIN s : t[i] \in T
    BY <1>2
  <2> QED
    BY <2>1
<1>6. ASSUME NEW i \in DOMAIN t, NEW j \in DOMAIN t, i < j
      PROVE  t[i].id < t[j].id
  <2>1. t[i].id # t[j].id
    BY <1>2, <1>4, <1>6 DEF DistinctIds
  <2> QED
    BY <1>2, <1>5, <1>6, <2>1
<1> QED
  BY <1>4, <1>6 DEF Increasing

\* A list in increasing order of its ids is left as it is.
LEMMA SortKeepsIncreasing ==
    ASSUME NEW T, NEW s \in Seq(T), NEW t \in SortedById(s), Increasing(s),
           \A r \in T : r.id \in Nat
    PROVE  t = s
<1>1. PICK p \in Bijection(DOMAIN s, DOMAIN s) :
         \A i \in DOMAIN s : t[i] = s[p[i]]
  BY SortedRearranges
<1>2. PICK n \in Nat : n = Len(s)
  OBVIOUS
<1>3. /\ DOMAIN t = 1 .. n /\ DOMAIN s = 1 .. n /\ t \in Seq(T) /\ Len(t) = n
      /\ \A i, j \in 1 .. n : i < j => t[i].id <= t[j].id
  BY <1>2, SortedRearranges
<1>4. /\ p \in [1 .. n -> 1 .. n]
      /\ \A i, j \in 1 .. n : p[i] = p[j] => i = j
      /\ p \in Bijection(1 .. n, 1 .. n)
  BY <1>3 DEF Bijection, Injection, IsInjective
<1>5. \A i \in 1 .. n : s[i].id \in Nat
  <2>1. \A i \in 1 .. n : s[i] \in T
    BY <1>3
  <2> QED
    BY <2>1
<1>6. ASSUME NEW i \in 1 .. n, NEW j \in 1 .. n, i < j
      PROVE  p[i] < p[j]
  <2>1. p[i] \in 1 .. n /\ p[j] \in 1 .. n /\ p[i] # p[j]
    BY <1>4, <1>6
  <2>2. ~(p[j] < p[i])
    <3> SUFFICES ASSUME p[j] < p[i] PROVE FALSE
      OBVIOUS
    <3>1. s[p[j]].id < s[p[i]].id
      BY <1>3, <2>1 DEF Increasing
    <3>2. s[p[i]].id <= s[p[j]].id
      BY <1>1, <1>3, <1>6
    <3> QED
      BY <1>5, <2>1, <3>1, <3>2
  <2> QED
    BY <2>1, <2>2
<1>7. \A i \in 1 .. n : p[i] = i
  BY <1>4, <1>6, IncreasingIsIdentity
<1>8. \A i \in 1 .. n : t[i] = s[i]
  BY <1>1, <1>3, <1>7
<1> QED
  BY <1>3, <1>8

\* Each record of the list is found once in what sort yields.
LEMMA SortedCorresponds ==
    ASSUME NEW T, NEW s \in Seq(T), NEW t \in SortedById(s)
    PROVE  \E q \in Bijection(DOMAIN s, DOMAIN t) :
              \A i \in DOMAIN s : t[q[i]] = s[i]
<1>1. PICK p \in Bijection(DOMAIN s, DOMAIN s) :
         \A i \in DOMAIN s : t[i] = s[p[i]]
  BY SortedRearranges
<1>2. DOMAIN t = DOMAIN s
  BY SortedRearranges
<1>3. PICK q : q = Inverse(p, DOMAIN s, DOMAIN s)
  OBVIOUS
<1>4. /\ q \in Bijection(DOMAIN s, DOMAIN s)
      /\ \A k \in DOMAIN s : q[p[k]] = k
  BY <1>3, Fun_BijInverse
<1>5. \A i \in DOMAIN s : \E k \in DOMAIN s : p[k] = i
  BY DEF Bijection, Surjection
<1>6. ASSUME NEW i \in DOMAIN s PROVE t[q[i]] = s[i]
  <2>1. PICK k \in DOMAIN s : p[k] = i
    BY <1>5
  <2>2. q[i] = k
    BY <1>4, <2>1
  <2> QED
    BY <1>1, <2>1, <2>2
<1> QED
  BY <1>2, <1>4, <1>6

\* As many ids as records: no id is there twice.
LEMMA AllIdsDistinct ==
    ASSUME NEW T, NEW s \in Seq(T),
           Cardinality({s[i].id : i \in DOMAIN s}) = Len(s)
    PROVE  DistinctIds(s)
<1> DEFINE ids == {s[i].id : i \in DOMAIN s}
           f == [i \in DOMAIN s |-> s[i].id]
<1>1. PICK n \in Nat : n = Len(s) /\ DOMAIN s = 1 .. n
  OBVIOUS
<1>2. IsFiniteSet(1 .. n) /\ Cardinality(1 .. n) = n
  <2>1. 1 \in Int /\ n \in Int
    OBVIOUS
  <2>2. Cardinality(1 .. n) = IF 1 > n THEN 0 ELSE n - 1 + 1
    BY <2>1, FS_Interval
  <2> QED
    BY <2>1, <2>2, FS_Interval
<1>3. f \in Surjection(DOMAIN s, ids)
  BY DEF Surjection
<1>4. IsFiniteSet(DOMAIN s) /\ Cardinality(DOMAIN s) = Cardinality(ids)
  BY <1>1, <1>2
<1>5. f \in Injection(DOMAIN s, ids)
  <2> HIDE DEF f, ids
  <2> QED
    BY <1>3, <1>4, FS_SurjSameCardinalityImpliesInj
<1> QED
  BY <1>5 DEF Injection, IsInjective, DistinctIds

-----------------------------------------------------------------------------
(* serialize and deserialize                                               *)

\* What serialize writes of a state.
LEMMA ImageProperties ==
    ASSUME NEW st \in PersistentState, NEW img \in Images(st)
    PROVE  /\ Fits(st)
           /\ img \in PersistentState
           /\ img.format_version = st.format_version
           /\ img.epoch = st.epoch /\ img.policy = st.policy
           /\ img.nics \in SortedById(st.nics)
           /\ img.gpus \in SortedById(st.gpus)
           /\ img.history \in SortedById(st.history)
<1>1. Fits(st)
  BY DEF Images
<1>2. img \in [format_version : {st.format_version}, epoch : {st.epoch},
               policy : {st.policy}, nics : SortedById(st.nics),
               gpus : SortedById(st.gpus), history : SortedById(st.history)]
  BY <1>1 DEF Images
<1>3. /\ st.nics \in Seq(SavedNic) /\ st.gpus \in Seq(SavedGpu)
      /\ st.history \in Seq(SavedResidency)
  BY DEF PersistentState
<1>4. /\ img.nics \in SortedById(st.nics) /\ img.gpus \in SortedById(st.gpus)
      /\ img.history \in SortedById(st.history)
      /\ img.format_version = st.format_version
      /\ img.epoch = st.epoch /\ img.policy = st.policy
  BY <1>2
<1>5. /\ img.nics \in Seq(SavedNic) /\ img.gpus \in Seq(SavedGpu)
      /\ img.history \in Seq(SavedResidency)
  BY <1>3, <1>4, SortedRearranges
<1>6. img \in PersistentState
  BY <1>2, <1>4, <1>5 DEF PersistentState
<1> QED
  BY <1>1, <1>4, <1>6

\* The ids of saved records are numbers.
LEMMA IdsAreNumbers ==
    /\ \A r \in SavedNic : r.id \in Nat
    /\ \A r \in SavedGpu : r.id \in Nat
  BY DEF SavedNic, SavedGpu

\* What deserialize requires of the records, whatever their order.
Loadable(st) ==
    /\ st.format_version <= kFormatVersion
    /\ DistinctIds(st.nics) /\ DistinctIds(st.gpus)
    /\ \A n \in Range(st.nics) \cup Range(st.gpus) :
          n.id # 0 /\ n.sources <= kMaxSources
    /\ \A n \in Range(st.nics) \cup Range(st.gpus) \cup Range(st.history) :
          Readable(n.name)

\* The limits that serialize checks are those of deserialize.
LEMMA LoadableImage ==
    ASSUME NEW st \in PersistentState, NEW img \in Images(st), Loadable(st)
    PROVE  Accepts(img)
<1>1. /\ st.nics \in Seq(SavedNic) /\ st.gpus \in Seq(SavedGpu)
      /\ st.history \in Seq(SavedResidency)
  BY DEF PersistentState
<1>2. /\ Fits(st) /\ img.format_version = st.format_version
      /\ img.nics \in SortedById(st.nics) /\ img.gpus \in SortedById(st.gpus)
      /\ img.history \in SortedById(st.history)
  BY ImageProperties
<1>3. /\ Len(img.nics) = Len(st.nics) /\ Len(img.gpus) = Len(st.gpus)
      /\ Len(img.history) = Len(st.history)
  BY <1>1, <1>2, SortedRearranges
<1>4. /\ Range(img.nics) = Range(st.nics) /\ Range(img.gpus) = Range(st.gpus)
      /\ Range(img.history) = Range(st.history)
  BY <1>1, <1>2, SortedRange
<1>5. DistinctIds(img.nics) /\ DistinctIds(img.gpus)
  BY <1>1, <1>2, IdsAreNumbers, SortedDistinctIds DEF Loadable
<1> QED
  BY <1>2, <1>3, <1>4, <1>5 DEF Accepts, Fits, Loadable

\* An ordinary state that serialize writes is one that deserialize accepts.
LEMMA OrdinaryIsLoadable ==
    ASSUME NEW st \in PersistentState, Fits(st), Ordinary(st)
    PROVE  Loadable(st)
<1>1. /\ st.nics \in Seq(SavedNic) /\ st.gpus \in Seq(SavedGpu)
      /\ st.history \in Seq(SavedResidency)
  BY DEF PersistentState
<1>2. DistinctIds(st.nics)
  BY <1>1, AllIdsDistinct DEF Ordinary
<1>3. DistinctIds(st.gpus)
  BY <1>1, AllIdsDistinct DEF Ordinary
<1>4. st.format_version <= kFormatVersion
  BY CodecAssumption DEF Ordinary
<1>5. \A n \in Range(st.nics) \cup Range(st.gpus) :
         n.id # 0 /\ n.sources <= kMaxSources
  BY DEF Ordinary, Range
<1>6. ASSUME NEW n \in Range(st.nics) \cup Range(st.gpus) \cup Range(st.history)
      PROVE  Readable(n.name)
  <2>1. Plain(n.name)
    BY DEF Ordinary, Range
  <2>2. n \in SavedNic \cup SavedGpu \cup SavedResidency
    BY <1>1 DEF Range
  <2>3. n.name \in Nat
    BY <2>2 DEF SavedNic, SavedGpu, SavedResidency
  <2>4. n.name < ByteBase * ByteBase
    BY DEF Fits, Writable
  <2>5. n.name \in U16
    BY <2>3, <2>4, CodecAssumption DEF U16
  <2> QED
    BY <2>1, <2>5, ReadU16Properties DEF Readable
<1> QED
  BY <1>2, <1>3, <1>4, <1>5, <1>6 DEF Loadable

\* A list of NICs or of GPUs that read_nic or read_gpu gives, and those of its
\* fields that reading leaves alone.
LEMMA ReadLists ==
    ASSUME NEW img \in PersistentState, NEW nics, NEW gpus,
           nics = [i \in DOMAIN img.nics |-> ReadNic(img.nics[i])],
           gpus = [i \in DOMAIN img.gpus |-> ReadGpu(img.gpus[i])]
    PROVE  /\ nics \in Seq(SavedNic) /\ gpus \in Seq(SavedGpu)
           /\ Len(nics) = Len(img.nics) /\ Len(gpus) = Len(img.gpus)
           /\ DOMAIN nics = DOMAIN img.nics /\ DOMAIN gpus = DOMAIN img.gpus
           /\ \A i \in DOMAIN img.nics : /\ SameNic(img.nics[i], nics[i])
                                         /\ nics[i].sources = img.nics[i].sources
                                         /\ ReadNic(nics[i]) = nics[i]
           /\ \A i \in DOMAIN img.gpus : /\ SameIdentity(img.gpus[i], gpus[i])
                                         /\ gpus[i].sources = img.gpus[i].sources
                                         /\ ReadGpu(gpus[i]) = gpus[i]
<1>1. img.nics \in Seq(SavedNic) /\ img.gpus \in Seq(SavedGpu)
  BY DEF PersistentState
<1>2. \A i \in DOMAIN img.nics : img.nics[i] \in SavedNic
  BY <1>1
<1>3. \A i \in DOMAIN img.gpus : img.gpus[i] \in SavedGpu
  BY <1>1
<1>4. /\ DOMAIN img.nics = 1 .. Len(img.nics) /\ Len(img.nics) \in Nat
      /\ DOMAIN img.gpus = 1 .. Len(img.gpus) /\ Len(img.gpus) \in Nat
  BY <1>1
<1>5. /\ nics \in [1 .. Len(img.nics) -> SavedNic]
      /\ gpus \in [1 .. Len(img.gpus) -> SavedGpu]
  BY <1>2, <1>3, <1>4, ReadProperties
<1>6. /\ nics \in Seq(SavedNic) /\ Len(nics) = Len(img.nics)
      /\ DOMAIN nics = DOMAIN img.nics
  BY <1>4, <1>5
<1>7. /\ gpus \in Seq(SavedGpu) /\ Len(gpus) = Len(img.gpus)
      /\ DOMAIN gpus = DOMAIN img.gpus
  BY <1>4, <1>5
<1>8. /\ \A i \in DOMAIN img.nics : nics[i] = ReadNic(img.nics[i])
      /\ \A i \in DOMAIN img.gpus : gpus[i] = ReadGpu(img.gpus[i])
  OBVIOUS
<1> QED
  BY <1>2, <1>3, <1>6, <1>7, <1>8, ReadProperties

\* The history that deserialize reads.
LEMMA ReadHistory ==
    ASSUME NEW img \in PersistentState, NEW history,
           history = [i \in DOMAIN img.history |-> ReadResidency(img.history[i])]
    PROVE  /\ history \in Seq(SavedResidency)
           /\ DOMAIN history = DOMAIN img.history
           /\ \A i \in DOMAIN img.history :
                 SameResidency(img.history[i], history[i])
<1>1. img.history \in Seq(SavedResidency)
  BY DEF PersistentState
<1>2. \A i \in DOMAIN img.history : img.history[i] \in SavedResidency
  BY <1>1
<1>3. DOMAIN img.history = 1 .. Len(img.history) /\ Len(img.history) \in Nat
  BY <1>1
<1>4. history \in [1 .. Len(img.history) -> SavedResidency]
  BY <1>2, <1>3, ReadResidencyProperties
<1>5. history \in Seq(SavedResidency) /\ DOMAIN history = DOMAIN img.history
  BY <1>3, <1>4
<1> QED
  BY <1>2, <1>5, ReadResidencyProperties

\* The lists of what deserialize returns.
LEMMA DeserializedFields ==
    ASSUME NEW img \in PersistentState, NEW st, st = Deserialized(img)
    PROVE  /\ st.format_version = img.format_version
           /\ st.epoch = img.epoch /\ st.policy = img.policy
           /\ st.nics = [i \in DOMAIN img.nics |-> ReadNic(img.nics[i])]
           /\ st.gpus = [i \in DOMAIN img.gpus |-> ReadGpu(img.gpus[i])]
           /\ st.history =
                 [i \in DOMAIN img.history |-> ReadResidency(img.history[i])]
           /\ st \in PersistentState
<1>1. PICK nics, gpus, history :
         /\ nics = [i \in DOMAIN img.nics |-> ReadNic(img.nics[i])]
         /\ gpus = [i \in DOMAIN img.gpus |-> ReadGpu(img.gpus[i])]
         /\ history =
               [i \in DOMAIN img.history |-> ReadResidency(img.history[i])]
  OBVIOUS
<1>2. st = [img EXCEPT !.nics = nics, !.gpus = gpus, !.history = history]
  BY <1>1 DEF Deserialized
<1>3. /\ nics \in Seq(SavedNic) /\ gpus \in Seq(SavedGpu)
      /\ history \in Seq(SavedResidency)
  BY <1>1, ReadLists, ReadHistory
<1>4. st \in PersistentState
  BY <1>2, <1>3 DEF PersistentState
<1>5. /\ st.format_version = img.format_version
      /\ st.epoch = img.epoch /\ st.policy = img.policy
      /\ st.nics = nics /\ st.gpus = gpus /\ st.history = history
  BY <1>2 DEF PersistentState
<1> QED
  BY <1>1, <1>4, <1>5

-----------------------------------------------------------------------------
(* The inductive invariant                                                 *)

\* A state that sorting and reading back leave alone, and that load accepts.
Settled(st) ==
    /\ Increasing(st.nics) /\ Increasing(st.gpus)
    /\ \A i \in DOMAIN st.nics : ReadNic(st.nics[i]) = st.nics[i]
    /\ \A i \in DOMAIN st.gpus : ReadGpu(st.gpus[i]) = st.gpus[i]
    /\ Loadable(st)

\* The image is one of the last accepted save, a load reports on the current
\* image, and what was recovered is settled.
CodecInv ==
    /\ saved = Nothing <=> image = Nothing
    /\ saved # Nothing => saved \in PersistentState /\ image \in Images(saved)
    /\ outcome = "ok" =>
          image # Nothing /\ Accepts(image) /\ loaded = Deserialized(image)
    /\ outcome = "failed" /\ image # Nothing => ~Accepts(image)
    /\ recovered => saved # Nothing /\ Settled(saved)

\* What a load returned, with another epoch, is settled.
LEMMA LoadedIsSettled ==
    ASSUME NEW st0 \in PersistentState, NEW img \in Images(st0), Accepts(img),
           NEW st, st = [Deserialized(img) EXCEPT !.epoch = @ + 1]
    PROVE  st \in PersistentState /\ Settled(st)
<1>1. img \in PersistentState
  BY ImageProperties
<1>2. PICK ld : ld = Deserialized(img)
  OBVIOUS
<1>3. /\ ld \in PersistentState
      /\ ld.nics = [i \in DOMAIN img.nics |-> ReadNic(img.nics[i])]
      /\ ld.gpus = [i \in DOMAIN img.gpus |-> ReadGpu(img.gpus[i])]
      /\ ld.history =
            [i \in DOMAIN img.history |-> ReadResidency(img.history[i])]
      /\ ld.format_version = img.format_version
  BY <1>1, <1>2, DeserializedFields
<1>4. /\ st \in PersistentState
      /\ st.nics = ld.nics /\ st.gpus = ld.gpus /\ st.history = ld.history
      /\ st.format_version = ld.format_version
  <2>1. PICK e \in Nat : e = ld.epoch + 1
    BY <1>3 DEF PersistentState
  <2>2. st = [ld EXCEPT !.epoch = e]
    BY <1>2, <2>1
  <2>3. [ld EXCEPT !.epoch = e] \in PersistentState
    BY <1>3 DEF PersistentState
  <2> QED
    BY <1>3, <2>2, <2>3 DEF PersistentState
<1>5. /\ DOMAIN st.nics = DOMAIN img.nics /\ DOMAIN st.gpus = DOMAIN img.gpus
      /\ \A i \in DOMAIN img.nics : /\ SameNic(img.nics[i], st.nics[i])
                                    /\ st.nics[i].sources = img.nics[i].sources
                                    /\ ReadNic(st.nics[i]) = st.nics[i]
      /\ \A i \in DOMAIN img.gpus : /\ SameIdentity(img.gpus[i], st.gpus[i])
                                    /\ st.gpus[i].sources = img.gpus[i].sources
                                    /\ ReadGpu(st.gpus[i]) = st.gpus[i]
  <2>1. PICK ns, gs : ns = st.nics /\ gs = st.gpus
    OBVIOUS
  <2>2. /\ ns = [i \in DOMAIN img.nics |-> ReadNic(img.nics[i])]
        /\ gs = [i \in DOMAIN img.gpus |-> ReadGpu(img.gpus[i])]
    BY <1>3, <1>4, <2>1
  <2>3. /\ DOMAIN ns = DOMAIN img.nics /\ DOMAIN gs = DOMAIN img.gpus
        /\ \A i \in DOMAIN img.nics : /\ SameNic(img.nics[i], ns[i])
                                      /\ ns[i].sources = img.nics[i].sources
                                      /\ ReadNic(ns[i]) = ns[i]
        /\ \A i \in DOMAIN img.gpus : /\ SameIdentity(img.gpus[i], gs[i])
                                      /\ gs[i].sources = img.gpus[i].sources
                                      /\ ReadGpu(gs[i]) = gs[i]
    BY <1>1, <2>2, ReadLists
  <2> QED
    BY <2>1, <2>3
<1>6. /\ \A i \in DOMAIN img.nics : /\ st.nics[i].id = img.nics[i].id
                                    /\ st.nics[i].name = img.nics[i].name
      /\ \A i \in DOMAIN img.gpus : /\ st.gpus[i].id = img.gpus[i].id
                                    /\ st.gpus[i].name = img.gpus[i].name
  BY <1>5 DEF SameNic, SameIdentity
<1>7. DistinctIds(img.nics) /\ DistinctIds(img.gpus)
  BY DEF Accepts
<1>8. Increasing(img.nics) /\ Increasing(img.gpus)
  <2>1. /\ img.nics \in Seq(SavedNic) /\ img.gpus \in Seq(SavedGpu)
        /\ st0.nics \in Seq(SavedNic) /\ st0.gpus \in Seq(SavedGpu)
    BY <1>1 DEF PersistentState
  <2>2. img.nics \in SortedById(st0.nics) /\ img.gpus \in SortedById(st0.gpus)
    BY ImageProperties
  <2>3. /\ DOMAIN img.nics = DOMAIN st0.nics
        /\ DOMAIN img.gpus = DOMAIN st0.gpus
        /\ \A i, j \in DOMAIN st0.nics :
              i < j => img.nics[i].id <= img.nics[j].id
        /\ \A i, j \in DOMAIN st0.gpus :
              i < j => img.gpus[i].id <= img.gpus[j].id
    BY <2>1, <2>2, SortedRearranges
  <2>4. /\ \A i \in DOMAIN img.nics : img.nics[i] \in SavedNic
        /\ \A i \in DOMAIN img.gpus : img.gpus[i] \in SavedGpu
    BY <2>1
  <2>5. /\ DOMAIN img.nics \subseteq Nat /\ DOMAIN img.gpus \subseteq Nat
        /\ \A i \in DOMAIN img.nics : img.nics[i].id \in Nat
        /\ \A i \in DOMAIN img.gpus : img.gpus[i].id \in Nat
    BY <2>1, <2>4, IdsAreNumbers
  <2>6. Increasing(img.nics)
    BY <1>7, <2>3, <2>5 DEF Increasing, DistinctIds
  <2>7. Increasing(img.gpus)
    BY <1>7, <2>3, <2>5 DEF Increasing, DistinctIds
  <2> QED
    BY <2>6, <2>7
<1>9. Increasing(st.nics) /\ Increasing(st.gpus)
  BY <1>5, <1>6, <1>8 DEF Increasing
<1>10. DistinctIds(st.nics) /\ DistinctIds(st.gpus)
  BY <1>5, <1>6, <1>7 DEF DistinctIds
<1>11. ASSUME NEW n \in Range(st.nics) \cup Range(st.gpus)
       PROVE  n.id # 0 /\ n.sources <= kMaxSources /\ Readable(n.name)
  <2>1. PICK m \in Range(img.nics) \cup Range(img.gpus) :
           n.id = m.id /\ n.sources = m.sources /\ n.name = m.name
    BY <1>5, <1>6 DEF Range
  <2> QED
    BY <2>1 DEF Accepts
<1>12. ASSUME NEW n \in Range(st.history) PROVE Readable(n.name)
  <2>1. PICK hs : hs = st.history
    OBVIOUS
  <2>2. hs = [i \in DOMAIN img.history |-> ReadResidency(img.history[i])]
    BY <1>3, <1>4, <2>1
  <2>3. /\ DOMAIN hs = DOMAIN img.history
        /\ \A i \in DOMAIN img.history : SameResidency(img.history[i], hs[i])
    BY <1>1, <2>2, ReadHistory
  <2>4. PICK i \in DOMAIN img.history : n = hs[i]
    BY <2>1, <2>3 DEF Range
  <2>5. n.name = img.history[i].name
    BY <2>3, <2>4 DEF SameResidency
  <2>6. img.history[i] \in Range(img.history)
    BY DEF Range
  <2> QED
    BY <2>5, <2>6 DEF Accepts
<1>13. st.format_version <= kFormatVersion
  BY <1>3, <1>4 DEF Accepts
<1>14. Loadable(st)
  BY <1>10, <1>11, <1>12, <1>13 DEF Loadable
<1> QED
  BY <1>4, <1>5, <1>9, <1>14 DEF Settled

\* A save of a state that may be saved keeps the invariant, provided that it is
\* settled when it is a recovered one.
LEMMA SaveKeepsCodecInv ==
    ASSUME NEW st \in PersistentState, Save(st), recovered' => Settled(st)
    PROVE  CodecInv'
<1>1. PICK img \in Images(st) :
         image' = img /\ saved' = st /\ outcome' = "none" /\ loaded' = Nothing
  BY DEF Save
<1>2. img \in PersistentState
  BY ImageProperties
<1>3. img # Nothing /\ st # Nothing
  BY <1>2, CodecAssumption
<1> QED
  BY <1>1, <1>3 DEF CodecInv

\* CodecInv is inductive.
LEMMA CodecInvStep ==
    ASSUME CodecInv, [Next]_pvars
    PROVE  CodecInv'
<1>1. ASSUME NEW st \in States, SaveState(st) PROVE CodecInv'
  <2>1. st \in PersistentState
    BY CodecAssumption
  <2> QED
    BY <1>1, <2>1, SaveKeepsCodecInv DEF SaveState
<1>2. CASE SaveRecovered
  <2>1. /\ image # Nothing /\ Accepts(image) /\ loaded = Deserialized(image)
        /\ saved \in PersistentState /\ image \in Images(saved)
    BY <1>2 DEF SaveRecovered, CodecInv
  <2>2. PICK st : st = [loaded EXCEPT !.epoch = @ + 1]
    OBVIOUS
  <2>3. st \in PersistentState /\ Settled(st)
    BY <2>1, <2>2, LoadedIsSettled
  <2>4. Save(st)
    BY <1>2, <2>2 DEF SaveRecovered
  <2> QED
    BY <2>3, <2>4, SaveKeepsCodecInv
<1>3. CASE Load
  BY <1>3 DEF Load, CodecInv
<1>4. CASE LoadFails
  BY <1>4 DEF LoadFails, CodecInv
<1>5. CASE UNCHANGED pvars
  BY <1>5 DEF pvars, CodecInv
<1> QED
  BY <1>1, <1>2, <1>3, <1>4, <1>5 DEF Next

\* The image is always one of the last accepted save, and what was recovered is
\* settled.
THEOREM CodecInvHolds == Spec => []CodecInv
<1>1. Init => CodecInv
  BY DEF Init, CodecInv
<1>2. CodecInv /\ [Next]_pvars => CodecInv'
  BY CodecInvStep
<1> QED
  BY <1>1, <1>2, PTL DEF Spec

-----------------------------------------------------------------------------
(* Theorems                                                                *)

\* What save accepted of an ordinary state load accepts, for every limit of the
\* lists and every length of a name.
THEOREM SavedCanBeLoadedHolds == Spec => []SavedCanBeLoaded
<1>1. CodecInv => SavedCanBeLoaded
  <2> SUFFICES ASSUME CodecInv, outcome = "failed", saved # Nothing,
                      Ordinary(saved)
               PROVE  FALSE
    BY DEF SavedCanBeLoaded
  <2>1. /\ saved \in PersistentState /\ image \in Images(saved)
        /\ ~Accepts(image)
    BY DEF CodecInv
  <2>2. Fits(saved)
    BY <2>1, ImageProperties
  <2>3. Loadable(saved)
    BY <2>1, <2>2, OrdinaryIsLoadable
  <2> QED
    BY <2>1, <2>3, LoadableImage
<1> QED
  BY <1>1, CodecInvHolds, PTL

\* A load returns each NIC, GPU and residency of the last accepted save once: a
\* NIC and a GPU with its identity and none of its dynamic evidence, a residency
\* with its state, lifecycle and owner, for every state that is saved.
THEOREM LoadIsFaithfulHolds == Spec => []LoadIsFaithful
<1>1. CodecInv => LoadIsFaithful
  <2> SUFFICES ASSUME CodecInv, outcome = "ok"
               PROVE  /\ loaded.epoch = saved.epoch
                      /\ loaded.policy = saved.policy
                      /\ Corresponds(saved.nics, loaded.nics, SameNic)
                      /\ Corresponds(saved.gpus, loaded.gpus, SameIdentity)
                      /\ Corresponds(saved.history, loaded.history, SameResidency)
    BY DEF LoadIsFaithful
  <2>1. /\ saved \in PersistentState /\ image \in Images(saved)
        /\ loaded = Deserialized(image)
    BY DEF CodecInv
  <2>2. /\ image \in PersistentState
        /\ image.epoch = saved.epoch /\ image.policy = saved.policy
        /\ image.nics \in SortedById(saved.nics)
        /\ image.gpus \in SortedById(saved.gpus)
        /\ image.history \in SortedById(saved.history)
    BY <2>1, ImageProperties
  <2>3. /\ saved.nics \in Seq(SavedNic) /\ saved.gpus \in Seq(SavedGpu)
        /\ saved.history \in Seq(SavedResidency)
    BY <2>1 DEF PersistentState
  <2>4. /\ loaded.epoch = image.epoch /\ loaded.policy = image.policy
        /\ loaded.nics = [i \in DOMAIN image.nics |-> ReadNic(image.nics[i])]
        /\ loaded.gpus = [i \in DOMAIN image.gpus |-> ReadGpu(image.gpus[i])]
        /\ loaded.history =
              [i \in DOMAIN image.history |-> ReadResidency(image.history[i])]
    BY <2>1, <2>2, DeserializedFields
  <2>5. /\ DOMAIN loaded.nics = DOMAIN image.nics
        /\ DOMAIN loaded.gpus = DOMAIN image.gpus
        /\ \A i \in DOMAIN image.nics : SameNic(image.nics[i], loaded.nics[i])
        /\ \A i \in DOMAIN image.gpus :
              SameIdentity(image.gpus[i], loaded.gpus[i])
    BY <2>2, <2>4, ReadLists
  <2>6. Corresponds(saved.nics, loaded.nics, SameNic)
    <3>1. PICK q \in Bijection(DOMAIN saved.nics, DOMAIN image.nics) :
             \A i \in DOMAIN saved.nics : image.nics[q[i]] = saved.nics[i]
      BY <2>2, <2>3, SortedCorresponds
    <3>2. q \in [DOMAIN saved.nics -> DOMAIN image.nics]
      BY DEF Bijection, Surjection
    <3>3. \A i \in DOMAIN saved.nics : SameNic(saved.nics[i], loaded.nics[q[i]])
      BY <2>5, <3>1, <3>2
    <3>4. q \in Bijection(DOMAIN saved.nics, DOMAIN loaded.nics)
      BY <2>5, <3>1
    <3> QED
      BY <3>3, <3>4 DEF Corresponds
  <2>7. Corresponds(saved.gpus, loaded.gpus, SameIdentity)
    <3>1. PICK q \in Bijection(DOMAIN saved.gpus, DOMAIN image.gpus) :
             \A i \in DOMAIN saved.gpus : image.gpus[q[i]] = saved.gpus[i]
      BY <2>2, <2>3, SortedCorresponds
    <3>2. q \in [DOMAIN saved.gpus -> DOMAIN image.gpus]
      BY DEF Bijection, Surjection
    <3>3. \A i \in DOMAIN saved.gpus :
             SameIdentity(saved.gpus[i], loaded.gpus[q[i]])
      BY <2>5, <3>1, <3>2
    <3>4. q \in Bijection(DOMAIN saved.gpus, DOMAIN loaded.gpus)
      BY <2>5, <3>1
    <3> QED
      BY <3>3, <3>4 DEF Corresponds
  <2>8. Corresponds(saved.history, loaded.history, SameResidency)
    <3>1. PICK q \in Bijection(DOMAIN saved.history, DOMAIN image.history) :
             \A i \in DOMAIN saved.history :
                image.history[q[i]] = saved.history[i]
      BY <2>2, <2>3, SortedCorresponds
    <3>2. q \in [DOMAIN saved.history -> DOMAIN image.history]
      BY DEF Bijection, Surjection
    <3>3. /\ DOMAIN loaded.history = DOMAIN image.history
          /\ \A i \in DOMAIN image.history :
                SameResidency(image.history[i], loaded.history[i])
      BY <2>2, <2>4, ReadHistory
    <3>4. \A i \in DOMAIN saved.history :
             SameResidency(saved.history[i], loaded.history[q[i]])
      BY <3>1, <3>2, <3>3
    <3>5. q \in Bijection(DOMAIN saved.history, DOMAIN loaded.history)
      BY <3>1, <3>3
    <3> QED
      BY <3>4, <3>5 DEF Corresponds
  <2> QED
    BY <2>2, <2>4, <2>6, <2>7, <2>8
<1> QED
  BY <1>1, CodecInvHolds, PTL

\* What was recovered once is recovered unchanged from then on, over any number
\* of restarts.
THEOREM RecoveryIsStableHolds == Spec => []RecoveryIsStable
<1>1. CodecInv => RecoveryIsStable
  <2> SUFFICES ASSUME CodecInv, recovered
               PROVE  /\ outcome # "failed"
                      /\ outcome = "ok" => /\ loaded.nics = saved.nics
                                           /\ loaded.gpus = saved.gpus
    BY DEF RecoveryIsStable
  <2>1. /\ saved \in PersistentState /\ image \in Images(saved)
        /\ Settled(saved) /\ image # Nothing
    BY DEF CodecInv
  <2>2. outcome # "failed"
    <3>1. Accepts(image)
      BY <2>1, LoadableImage DEF Settled
    <3> QED
      BY <2>1, <3>1 DEF CodecInv
  <2>3. ASSUME outcome = "ok"
        PROVE  loaded.nics = saved.nics /\ loaded.gpus = saved.gpus
    <3>1. /\ saved.nics \in Seq(SavedNic) /\ saved.gpus \in Seq(SavedGpu)
          /\ Increasing(saved.nics) /\ Increasing(saved.gpus)
      BY <2>1 DEF PersistentState, Settled
    <3>2. /\ image \in PersistentState
          /\ image.nics \in SortedById(saved.nics)
          /\ image.gpus \in SortedById(saved.gpus)
      BY <2>1, ImageProperties
    <3>3. image.nics = saved.nics
      BY <3>1, <3>2, IdsAreNumbers, SortKeepsIncreasing
    <3>4. image.gpus = saved.gpus
      BY <3>1, <3>2, IdsAreNumbers, SortKeepsIncreasing
    <3>5. loaded = Deserialized(image)
      BY <2>3 DEF CodecInv
    <3>6. /\ loaded.nics = [i \in DOMAIN saved.nics |-> ReadNic(saved.nics[i])]
          /\ loaded.gpus = [i \in DOMAIN saved.gpus |-> ReadGpu(saved.gpus[i])]
      <4>1. /\ loaded.nics = [i \in DOMAIN image.nics |-> ReadNic(image.nics[i])]
            /\ loaded.gpus = [i \in DOMAIN image.gpus |-> ReadGpu(image.gpus[i])]
        BY <3>2, <3>5, DeserializedFields
      <4> QED
        BY <3>3, <3>4, <4>1
    <3>7. loaded.nics = saved.nics
      <4>1. loaded.nics = [i \in DOMAIN saved.nics |-> saved.nics[i]]
        BY <2>1, <3>6 DEF Settled
      <4> QED
        BY <3>1, <4>1
    <3>8. loaded.gpus = saved.gpus
      <4>1. loaded.gpus = [i \in DOMAIN saved.gpus |-> saved.gpus[i]]
        BY <2>1, <3>6 DEF Settled
      <4> QED
        BY <3>1, <4>1
    <3> QED
      BY <3>7, <3>8
  <2> QED
    BY <2>2, <2>3
<1> QED
  BY <1>1, CodecInvHolds, PTL
=============================================================================
