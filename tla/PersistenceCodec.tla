-------------------------- MODULE PersistenceCodec --------------------------
(***************************************************************************)
(* What PersistenceStore writes and what it reads back                     *)
(* (src/src/persistence.cpp: Writer, Reader, serialize, deserialize).      *)
(* Coordinator models the steps of a save and its failures; here a save is *)
(* one step, and the question is whether a load returns what was saved.    *)
(*                                                                         *)
(* The stream is kept field by field.  64- and 32-bit fields are read back *)
(* as written.  A string is its length, which is written as a 16-bit       *)
(* value, and vendor_id stands for all the 16-bit fields of a record (the  *)
(* PCI segment, device and subsystem ids).  What serialize does not write  *)
(* of a record stays in the image and is reset where the record is read.   *)
(* Checks that a file written by serialize passes whatever was saved       *)
(* (magic, checksum, enumerator ranges, trailing bytes) are left out.      *)
(***************************************************************************)
EXTENDS Integers, FiniteSets, Sequences, Functions

CONSTANTS
    ByteBase,                  \* 256 in the code
    kMaxNics, kMaxGpus, kMaxHistory, kMaxSources,
    kFormatVersion,            \* the version this program writes and reads
    MaxEpoch,                  \* bound: epochs explored
    States,                    \* the PersistentStates that callers save
    Nothing                    \* no file; the image has not been loaded

VARIABLES
    image,       \* what the file at path_ holds
    loaded,      \* what a load of the current image returned
    saved,       \* history: the state of the last save that was accepted
    recovered,   \* history: saved is a state that load returned before
    outcome      \* "ok" or "failed": the last load of the current image

pvars == <<image, loaded, saved, recovered, outcome>>

\* What a PersistentState holds of a NIC, of a GPU and of a residency.
LifecycleState ==
    {"DISCOVERED", "AVAILABLE", "RESERVED_FOR_ATTACHMENT", "ATTACHED",
     "RESIDENT", "DRAINING", "DETACHED", "REVALIDATION_REQUIRED", "FAILED",
     "RETIRED"}
ResidencyState ==
    {"ABSENT", "DISCOVERED", "AVAILABLE", "RESIDENT", "ATTACHED", "DETACHED",
     "DRAINING", "REVALIDATION_REQUIRED", "STALE", "FAILED", "UNSUPPORTED",
     "RETIRED"}
EvidenceKind == {"REAL", "SYNTHETIC", "UNSUPPORTED"}
U16 == 0 .. ByteBase * ByteBase - 1
SavedNic == [id : Nat, generation : Nat, name : Nat, vendor_id : U16,
             sources : Nat, lifecycle : LifecycleState, freshness : Nat]
SavedGpu == [id : Nat, generation : Nat, name : Nat, vendor_id : U16,
             sources : Nat, freshness : Nat]
\* owner stands for the references, ids and the epoch that are written as they
\* are, attachment_generation for the capability generation and the policy id,
\* provenance for the locality.
SavedResidency ==
    [id : Nat, generation : Nat, name : Nat, state : ResidencyState,
     lifecycle : LifecycleState, owner : Nat, attachment_generation : Nat,
     provenance : EvidenceKind, freshness : Nat]
PersistentState ==
    [format_version : Nat, epoch : Nat, policy : {st.policy : st \in States},
     nics : Seq(SavedNic), gpus : Seq(SavedGpu), history : Seq(SavedResidency)]

ASSUME CodecAssumption ==
    /\ ByteBase \in Nat \ {0} /\ ByteBase % 2 = 0
    /\ {kMaxNics, kMaxGpus, kMaxHistory, kMaxSources, kFormatVersion,
        MaxEpoch} \subseteq Nat
    /\ States \subseteq PersistentState /\ Nothing \notin PersistentState

-----------------------------------------------------------------------------
(* Fields                                                                  *)

\* Mutant of ReadU16: the two bytes are taken in the other order.
ReadU16Swapped(v) == (v % ByteBase) * ByteBase + v \div ByteBase

\* Reader::u16 of what Writer::u16 wrote: the low byte is a signed char, and
\* widening it fills the high byte with ones when it is negative.
ReadU16(v) ==
    LET low == v % ByteBase
    IN  IF 2 * low >= ByteBase THEN (ByteBase - 1) * ByteBase + low ELSE v

\* Writer::str refuses a longer string.
Writable(len) == len < ByteBase * ByteBase

\* Reader::str finds the string it was written as.  A length that reads as
\* another is always larger and runs past the end of a file below 64 KiB.
Readable(len) == ReadU16(len) = len

\* Mutant of ReadNic: the lifecycle is read back as it was.
ReadNicAsSaved(n) == [n EXCEPT !.vendor_id = ReadU16(@)]

\* read_nic: dynamic fields are reset.
ReadNic(n) == [n EXCEPT !.vendor_id = ReadU16(@),
                        !.lifecycle = "REVALIDATION_REQUIRED",
                        !.freshness = 0]
ReadGpu(g) == [g EXCEPT !.vendor_id = ReadU16(@), !.freshness = 0]

\* The loop over the history fills a default-constructed record: what serialize
\* does not write of a residency comes back as its default, the state, the
\* lifecycle and the owner as they were.
ReadResidency(r) == [r EXCEPT !.attachment_generation = 0,
                              !.provenance = "UNSUPPORTED",
                              !.freshness = 0]

-----------------------------------------------------------------------------
(* serialize and deserialize                                               *)

\* std::sort by id: records with one id may come out in any order.
SortedById(s) ==
    {t \in {[i \in DOMAIN s |-> s[p[i]]] : p \in Bijection(DOMAIN s, DOMAIN s)} :
        \A i, j \in DOMAIN t : i < j => t[i].id <= t[j].id}

\* serialize throws beyond these limits.
Fits(st) ==
    /\ Len(st.nics) <= kMaxNics
    /\ Len(st.gpus) <= kMaxGpus
    /\ Len(st.history) <= kMaxHistory
    /\ \A n \in Range(st.nics) \cup Range(st.gpus) \cup Range(st.history) :
          Writable(n.name)

Images(st) ==
    IF Fits(st)
    THEN [format_version : {st.format_version}, epoch : {st.epoch},
          policy : {st.policy}, nics : SortedById(st.nics),
          gpus : SortedById(st.gpus), history : SortedById(st.history)]
    ELSE {}

DistinctIds(s) == \A i, j \in DOMAIN s : s[i].id = s[j].id => i = j

\* Mutant of Accepts: a full list is taken for too long a list.
AcceptsBelowLimits(img) ==
    /\ img.format_version <= kFormatVersion
    /\ Len(img.nics) < kMaxNics /\ Len(img.gpus) < kMaxGpus
    /\ Len(img.history) < kMaxHistory
    /\ DistinctIds(img.nics) /\ DistinctIds(img.gpus)
    /\ \A n \in Range(img.nics) \cup Range(img.gpus) :
          n.id # 0 /\ n.sources <= kMaxSources
    /\ \A n \in Range(img.nics) \cup Range(img.gpus) \cup Range(img.history) :
          Readable(n.name)

\* deserialize does not throw.
Accepts(img) ==
    /\ img.format_version <= kFormatVersion
    /\ Len(img.nics) <= kMaxNics /\ Len(img.gpus) <= kMaxGpus
    /\ Len(img.history) <= kMaxHistory
    /\ DistinctIds(img.nics) /\ DistinctIds(img.gpus)
    /\ \A n \in Range(img.nics) \cup Range(img.gpus) :
          n.id # 0 /\ n.sources <= kMaxSources
    /\ \A n \in Range(img.nics) \cup Range(img.gpus) \cup Range(img.history) :
          Readable(n.name)

Deserialized(img) ==
    [img EXCEPT !.nics = [i \in DOMAIN @ |-> ReadNic(@[i])],
                !.gpus = [i \in DOMAIN @ |-> ReadGpu(@[i])],
                !.history = [i \in DOMAIN @ |-> ReadResidency(@[i])]]

-----------------------------------------------------------------------------
Init ==
    /\ image = Nothing /\ loaded = Nothing /\ saved = Nothing
    /\ recovered = FALSE
    /\ outcome = "none"

\* save throws, and leaves the file alone, when st has no image.
Save(st) ==
    \E img \in Images(st) :
        /\ image' = img
        /\ saved' = st
        /\ outcome' = "none" /\ loaded' = Nothing

SaveState(st) == Save(st) /\ recovered' = FALSE

\* A caller saves a state that load returned, in a later epoch.
SaveRecovered ==
    /\ outcome = "ok"
    /\ loaded.epoch < MaxEpoch
    /\ Save([loaded EXCEPT !.epoch = @ + 1])
    /\ recovered' = TRUE

Load ==
    /\ image # Nothing
    /\ Accepts(image)
    /\ loaded' = Deserialized(image)
    /\ outcome' = "ok"
    /\ UNCHANGED <<image, saved, recovered>>

\* load throws, and recover reports that it is not ok.
LoadFails ==
    /\ image # Nothing => ~Accepts(image)
    /\ outcome' = "failed"
    /\ UNCHANGED <<image, loaded, saved, recovered>>

Next == (\E st \in States : SaveState(st)) \/ SaveRecovered \/ Load \/ LoadFails

Spec == Init /\ [][Next]_pvars

-----------------------------------------------------------------------------
(* Properties                                                              *)

\* A value whose low byte is not negative as a signed char.
Plain(v) == 2 * (v % ByteBase) < ByteBase

\* What a registry snapshot yields, as far as its strings have plain lengths.
Ordinary(st) ==
    /\ st.format_version = kFormatVersion
    /\ \A s \in {st.nics, st.gpus} :
          /\ Cardinality({s[i].id : i \in DOMAIN s}) = Len(s)
          /\ \A i \in DOMAIN s : s[i].id # 0 /\ s[i].sources <= kMaxSources
    /\ \A s \in {st.nics, st.gpus, st.history} :
          \A i \in DOMAIN s : Plain(s[i].name)

\* The records of two lists correspond one to one by Same.
Corresponds(s, t, Same(_, _)) ==
    \E p \in Bijection(DOMAIN s, DOMAIN t) :
        \A i \in DOMAIN s : Same(s[i], t[p[i]])

SameIdentity(r, r2) ==
    /\ r2.id = r.id /\ r2.generation = r.generation /\ r2.name = r.name
    /\ Plain(r.vendor_id) => r2.vendor_id = r.vendor_id
    /\ r2.freshness = 0
SameNic(r, r2) ==
    SameIdentity(r, r2) /\ r2.lifecycle = "REVALIDATION_REQUIRED"
SameResidency(r, r2) ==
    /\ r2.id = r.id /\ r2.generation = r.generation /\ r2.name = r.name
    /\ r2.state = r.state /\ r2.lifecycle = r.lifecycle /\ r2.owner = r.owner
    /\ r2.freshness = 0

\* What save accepted of an ordinary state load accepts, also for lists at
\* their limits: the bounds that serialize and deserialize check agree.
SavedCanBeLoaded ==
    outcome = "failed" /\ saved # Nothing => ~Ordinary(saved)

\* A load returns the epoch and the policy of the last accepted save, and each
\* of its NICs, GPUs and residencies once, in whatever order they were given: a
\* NIC and a GPU with its identity and none of its dynamic evidence, which never
\* recovers as fresh (README.md:171), a residency with its state, lifecycle and
\* owner.  Nothing is said of the attachment and capability generations, the
\* locality, the policy and the provenance of a residency, which are not saved.
LoadIsFaithful ==
    outcome = "ok" =>
        /\ loaded.epoch = saved.epoch /\ loaded.policy = saved.policy
        /\ Corresponds(saved.nics, loaded.nics, SameNic)
        /\ Corresponds(saved.gpus, loaded.gpus, SameIdentity)
        /\ Corresponds(saved.history, loaded.history, SameResidency)

\* What was recovered once is recovered unchanged from then on: however often
\* a coordinator restarts, its identities do not drift, neither in their order
\* nor in a 16-bit field, and a state that loaded once keeps loading.
RecoveryIsStable ==
    recovered => /\ outcome # "failed"
                 /\ outcome = "ok" => /\ loaded.nics = saved.nics
                                      /\ loaded.gpus = saved.gpus

\* Identities come back as they were persisted: "PersistenceStore persists only
\* architecturally durable state (stable logical NIC identity, PCI identity"
\* (README.md:166).
IdentityRoundTrips ==
    outcome = "ok" =>
        \A r \in Range(saved.nics) :
            \E r2 \in Range(loaded.nics) :
                r2.id = r.id /\ r2.vendor_id = r.vendor_id
=============================================================================
