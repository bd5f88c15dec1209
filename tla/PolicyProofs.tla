---------------------------- MODULE PolicyProofs ----------------------------
(***************************************************************************)
(* Theorems about the policy store and the owner's mutations, for every    *)
(* finite set of requests and every set of mutations and file contents.    *)
(***************************************************************************)
EXTENDS PolicyStore, FiniteSetTheorems, TLAPS

(* The two halves of the type invariant. *)
LeaseType ==
    /\ phase \in {"up", "draining", "stopped", "down"}
    /\ gens \in Seq(Generation)
    /\ active \in 0..Len(gens)
    /\ active = 0 <=> phase = "down"
    /\ holds \in [Requests -> 0..Len(gens)]

Record == [stage : Stages, kind : Kinds, next : Contents \cup {None}, recover : BOOLEAN]

FileType ==
    /\ disk \in Configs
    /\ previous \in Contents \cup {None}
    /\ config \in Configs \cup {None}
    /\ config = None <=> phase = "down"
    /\ load \in [by : Mutations \cup {"direct", None}, read : Seq(Contents)]
    /\ Len(load.read) <= Len(LoadOrder)
    /\ queue \in Seq(Mutations)
    /\ mut \in [Mutations -> Record]
    /\ base \in Saved \cup {None}
    /\ base = None <=> ~InMutation
    /\ torn \in BOOLEAN

Readers(h, g) == {r \in Requests : h[r] = g}

(* The lease counter of a generation counts its readers, and the active one  *)
(* is the only one not retired.                                              *)
LeasesCount == \A g \in 1..Len(gens) : gens[g].leases = Cardinality(Readers(holds, g))

RetiredOnes ==
    phase \in {"up", "draining"} =>
        \A g \in 1..Len(gens) : gens[g].retired <=> g # active

LeaseInv == LeaseType /\ RuntimesServeTheirReaders /\ LeasesCount /\ RetiredOnes

NothingWhenDown == phase = "down" => queue = <<>> /\ load = Idle /\ gens = <<>>

Moving == {"previous", "write", "load", "undo", "undoPrevious", "reload"}

(* One mutation runs at a time, at the head of the queue. *)
QueueShape ==
    /\ \A i, j \in 1..Len(queue) : queue[i] = queue[j] => i = j
    /\ \A i \in 1..Len(queue) : i > 1 => mut[queue[i]].stage = "queued"
    /\ \A i \in 1..Len(queue) : mut[queue[i]].stage \in Moving \cup {"queued"}

(* The load in flight is the running mutation's, or no mutation runs. *)
LoadShape ==
    /\ load.by \in Mutations =>
          /\ InMutation /\ load.by = Head(queue)
          /\ mut[load.by].stage \in {"load", "reload"}
    /\ load.by = "direct" => ~InMutation
    /\ load.by = None => load = Idle
    /\ InMutation /\ mut[Head(queue)].stage \in {"load", "reload"} =>
          load.by = Head(queue)
    /\ load.by # None =>
          \A i \in 1..Len(load.read) : load.read[i] = disk[LoadOrder[i]]

Candidate(m) == [base.disk EXCEPT ![Target(mut[m].kind)] = mut[m].next]

Kept(m) == IF Target(mut[m].kind) = "policy" THEN base.disk["policy"] ELSE base.previous

(* What a mutation has done to the files and the running configuration by    *)
(* each of its stages.                                                       *)
Progress(m) ==
    /\ mut[m].next \in Contents
    /\ mut[m].recover =>
          Target(mut[m].kind) = "providers" /\ mut[m].stage \in {"undo", "reload"}
    /\ config = IF mut[m].recover THEN Candidate(m) ELSE base.config
    /\ mut[m].stage \in {"previous", "undoPrevious"} => Target(mut[m].kind) = "policy"
    /\ mut[m].stage = "reload" => mut[m].recover
    /\ mut[m].stage \in {"previous", "write", "undoPrevious", "reload"} => disk = base.disk
    /\ mut[m].stage = "load" => disk = Candidate(m)
    /\ mut[m].stage = "undo" => disk \in {base.disk, Candidate(m)}
    /\ previous = IF mut[m].stage = "previous" THEN base.previous ELSE Kept(m)

MutationProgress == InMutation => Progress(Head(queue))

(* Outside a running mutation a record says nothing yet. *)
RecordsFresh ==
    \A m \in Mutations : mut[m].stage \notin Moving => ~mut[m].recover

FileInv == FileType /\ QueueShape /\ LoadShape /\ MutationProgress /\ RecordsFresh

IInv == LeaseInv /\ NothingWhenDown /\ FileInv

-----------------------------------------------------------------------------
(* Leases. *)

(* The readers of a generation can be counted. *)
LEMMA ReadersFinite ==
    ASSUME NEW h, NEW g
    PROVE  /\ IsFiniteSet(Readers(h, g)) /\ Cardinality(Readers(h, g)) \in Nat
           /\ Cardinality(Readers(h, g)) = 0 <=> Readers(h, g) = {}
<1>1. IsFiniteSet(Readers(h, g))
  BY PolicyAssumption, FS_Subset, Readers(h, g) \subseteq Requests DEF PolicyAssumption, Readers
<1> QED
  BY <1>1, FS_CardinalityType, FS_EmptySet

LEMMA InitLeases == Init => LeaseInv
<1> SUFFICES ASSUME Init PROVE LeaseInv
  OBVIOUS
<1>1. gens = <<Started>> /\ Len(gens) = 1 /\ gens[1] = Started
  BY DEF Init
<1>2. Started \in Generation
  BY DEF Started, Generation
<1>3. LeaseType
  BY <1>1, <1>2 DEF Init, LeaseType
<1>4. Readers(holds, 1) = {}
  BY DEF Init, Readers
<1>5. LeasesCount
  BY <1>1, <1>4, FS_EmptySet DEF LeasesCount, Started
<1>6. RetiredOnes /\ RuntimesServeTheirReaders
  BY <1>1 DEF Init, RetiredOnes, RuntimesServeTheirReaders, Started
<1> QED
  BY <1>3, <1>5, <1>6 DEF LeaseInv

LEMMA CaptureKeepsLeases ==
    ASSUME LeaseInv, NEW r \in Requests, CaptureLease(r)
    PROVE  LeaseInv'
<1> DEFINE n == Len(gens)
<1>1. PICK k \in 1..n : k = active
  BY DEF LeaseInv, LeaseType, CaptureLease
<1>2. n \in Nat /\ gens[k] \in Generation
  BY DEF LeaseInv, LeaseType
<1> DEFINE taken == [gens[k] EXCEPT !.leases = @ + 1]
<1>3. /\ gens' = [gens EXCEPT ![k] = taken] /\ Len(gens') = n
      /\ active' = k /\ phase' = phase /\ phase = "up"
      /\ holds' = [holds EXCEPT ![r] = k] /\ holds[r] = 0
  BY <1>1 DEF CaptureLease, LeaseInv, LeaseType
<1>4. taken \in Generation /\ taken.leases = gens[k].leases + 1
      /\ taken.retired = gens[k].retired /\ taken.stopped = gens[k].stopped
  BY <1>2 DEF Generation
<1> HIDE DEF taken
<1>5. gens' \in Seq(Generation) /\ gens'[k] = taken
      /\ \A g \in 1..n : g # k => gens'[g] = gens[g]
  BY <1>3, <1>4 DEF LeaseInv, LeaseType
<1>6. LeaseType'
  BY <1>1, <1>2, <1>3, <1>5 DEF LeaseInv, LeaseType
<1>7. Readers(holds', k) = Readers(holds, k) \cup {r} /\ r \notin Readers(holds, k)
  BY <1>3 DEF Readers, LeaseInv, LeaseType
<1>8. \A g \in 1..n : g # k => Readers(holds', g) = Readers(holds, g)
  BY <1>3 DEF Readers, LeaseInv, LeaseType
<1>9. Cardinality(Readers(holds, k) \cup {r}) = Cardinality(Readers(holds, k)) + 1
  BY <1>7, ReadersFinite, FS_AddElement
<1>10. LeasesCount'
  <2> SUFFICES ASSUME NEW g \in 1..n
               PROVE  gens'[g].leases = Cardinality(Readers(holds', g))
    BY <1>3 DEF LeasesCount
  <2>1. gens[g].leases = Cardinality(Readers(holds, g))
    BY DEF LeaseInv, LeasesCount
  <2> QED
    BY <2>1, <1>4, <1>5, <1>7, <1>8, <1>9
<1>11. RetiredOnes'
  BY <1>1, <1>3, <1>4, <1>5 DEF RetiredOnes, LeaseInv
<1>12. RuntimesServeTheirReaders'
  BY <1>1, <1>3, <1>4, <1>5 DEF RuntimesServeTheirReaders, LeaseInv, LeaseType
<1> QED
  BY <1>6, <1>10, <1>11, <1>12 DEF LeaseInv

LEMMA ReleaseKeepsLeases ==
    ASSUME LeaseInv, NEW r \in Requests, Release(r)
    PROVE  LeaseInv'
<1> DEFINE n == Len(gens)
<1>1. PICK k \in 1..n : k = holds[r]
  BY DEF LeaseInv, LeaseType, Release
<1>2. /\ n \in Nat /\ gens[k] \in Generation /\ gens[k].leases \in Nat
      /\ gens[k].retired \in BOOLEAN /\ gens[k].stopped \in BOOLEAN
  <2>1. n \in Nat /\ gens[k] \in Generation
    BY DEF LeaseInv, LeaseType
  <2> QED
    BY <2>1 DEF Generation
<1> DEFINE left == DropLease(gens[k])
<1>3. /\ gens' = [gens EXCEPT ![k] = left] /\ Len(gens') = n
      /\ active' = active /\ phase' = phase
      /\ holds' = [holds EXCEPT ![r] = 0]
  BY <1>1 DEF Release, LeaseInv, LeaseType
<1>4. Readers(holds', k) = Readers(holds, k) \ {r} /\ r \in Readers(holds, k)
  BY <1>1, <1>3 DEF Readers, LeaseInv, LeaseType
<1>5. \A g \in 1..n : g # k => Readers(holds', g) = Readers(holds, g)
  BY <1>1, <1>3 DEF Readers, LeaseInv, LeaseType
<1>6. Cardinality(Readers(holds, k)) # 0 /\ Cardinality(Readers(holds, k)) \in Nat
  BY <1>4, ReadersFinite
<1>7. Cardinality(Readers(holds, k) \ {r}) = Cardinality(Readers(holds, k)) - 1
  BY <1>4, ReadersFinite, FS_RemoveElement
<1>8. gens[k].leases = Cardinality(Readers(holds, k))
  BY DEF LeaseInv, LeasesCount
<1>9. /\ left \in Generation
      /\ left.leases = gens[k].leases - 1
      /\ left.retired = gens[k].retired
      /\ left.stopped <=> gens[k].stopped \/ (gens[k].retired /\ gens[k].leases - 1 = 0)
  <2> DEFINE dropped == [gens[k] EXCEPT !.leases = gens[k].leases - 1]
  <2>1. gens[k].leases # 0 /\ gens[k].leases - 1 \in Nat
    BY <1>2, <1>6, <1>8
  <2>2. /\ dropped \in Generation /\ dropped.leases = gens[k].leases - 1
        /\ dropped.retired = gens[k].retired /\ dropped.stopped = gens[k].stopped
    BY <1>2, <2>1 DEF Generation
  <2>3. left = StopIfUnused(dropped)
    BY <2>1 DEF DropLease
  <2> HIDE DEF dropped, left
  <2> QED
    BY <2>2, <2>3, <1>2 DEF StopIfUnused, Generation
<1> HIDE DEF left
<1>10. gens' \in Seq(Generation) /\ gens'[k] = left
      /\ \A g \in 1..n : g # k => gens'[g] = gens[g]
  BY <1>3, <1>9 DEF LeaseInv, LeaseType
<1>11. LeaseType'
  BY <1>2, <1>3, <1>10 DEF LeaseInv, LeaseType
<1>12. LeasesCount'
  <2> SUFFICES ASSUME NEW g \in 1..n
               PROVE  gens'[g].leases = Cardinality(Readers(holds', g))
    BY <1>3 DEF LeasesCount
  <2>1. gens[g].leases = Cardinality(Readers(holds, g))
    BY DEF LeaseInv, LeasesCount
  <2> QED
    BY <2>1, <1>4, <1>5, <1>7, <1>9, <1>10
<1>13. RetiredOnes'
  BY <1>3, <1>9, <1>10 DEF RetiredOnes, LeaseInv
<1>14. gens[k].leases - 1 = 0 <=> \A q \in Requests : holds'[q] # k
  <2>1. Cardinality(Readers(holds', k)) = 0 <=> Readers(holds', k) = {}
    BY ReadersFinite
  <2>2. Readers(holds', k) = {} <=> \A q \in Requests : holds'[q] # k
    BY DEF Readers
  <2> QED
    BY <2>1, <2>2, <1>4, <1>7, <1>8
<1>15. RuntimesServeTheirReaders'
  <2> SUFFICES ASSUME phase \in {"up", "draining"}, NEW g \in 1..n
               PROVE  gens'[g].stopped <=> (g # active /\ \A q \in Requests : holds'[q] # g)
    BY <1>3 DEF RuntimesServeTheirReaders
  <2>1. CASE g = k
    <3>1. ~gens[k].stopped /\ (gens[k].retired <=> k # active)
      BY <1>1 DEF LeaseInv, RuntimesServeTheirReaders, RetiredOnes
    <3> QED
      BY <2>1, <3>1, <1>9, <1>10, <1>14
  <2>2. CASE g # k
    <3>1. \A q \in Requests : holds'[q] = g <=> holds[q] = g
      BY <2>2, <1>1, <1>3 DEF LeaseInv, LeaseType
    <3> QED
      BY <2>2, <3>1, <1>10 DEF LeaseInv, RuntimesServeTheirReaders
  <2> QED
    BY <2>1, <2>2
<1> QED
  BY <1>11, <1>12, <1>13, <1>15 DEF LeaseInv

LEMMA PublishKeepsLeases ==
    ASSUME LeaseInv, phase # "down", NEW ready, Publish(ready)
    PROVE  LeaseInv'
<1> DEFINE n == Len(gens)
<1>1. PICK k \in 1..n : k = active
  BY DEF LeaseInv, LeaseType
<1>2. /\ n \in Nat /\ gens[k] \in Generation /\ gens[k].leases \in Nat
      /\ gens[k].retired \in BOOLEAN /\ gens[k].stopped \in BOOLEAN
  <2>1. n \in Nat /\ gens[k] \in Generation
    BY DEF LeaseInv, LeaseType
  <2> QED
    BY <2>1 DEF Generation
<1> DEFINE old == Retire(gens[k])
<1>3. /\ old \in Generation /\ old.leases = gens[k].leases /\ old.retired
      /\ old.stopped <=> gens[k].stopped \/ gens[k].leases = 0
  <2> DEFINE retiring == [gens[k] EXCEPT !.retired = TRUE]
  <2>1. /\ retiring \in Generation /\ retiring.leases = gens[k].leases
        /\ retiring.retired /\ retiring.stopped = gens[k].stopped
    BY <1>2 DEF Generation
  <2>2. old = StopIfUnused(retiring)
    BY DEF Retire
  <2> HIDE DEF retiring, old
  <2> QED
    BY <2>1, <2>2, <1>2 DEF StopIfUnused, Generation
<1>4. /\ gens' = Append([gens EXCEPT ![k] = old], Started)
      /\ active' = n + 1 /\ phase' = phase /\ holds' = holds
  BY <1>1 DEF Publish
<1> HIDE DEF old
<1>5. Started \in Generation /\ Started.leases = 0 /\ ~Started.retired /\ ~Started.stopped
  BY DEF Started, Generation
<1>6. /\ gens' \in Seq(Generation) /\ Len(gens') = n + 1
      /\ gens'[k] = old /\ gens'[n + 1] = Started
      /\ \A g \in 1..n : g # k => gens'[g] = gens[g]
  <2> DEFINE kept == [gens EXCEPT ![k] = old]
  <2>1. kept \in Seq(Generation) /\ Len(kept) = n /\ kept[k] = old
        /\ \A g \in 1..n : g # k => kept[g] = gens[g]
    BY <1>3 DEF LeaseInv, LeaseType
  <2>2. gens' = Append(kept, Started)
    BY <1>4
  <2> HIDE DEF kept
  <2> QED
    BY <2>1, <2>2, <1>2, <1>5
<1>7. LeaseType'
  BY <1>2, <1>4, <1>6 DEF LeaseInv, LeaseType
<1>8. Readers(holds, n + 1) = {}
  BY <1>2 DEF LeaseInv, LeaseType, Readers
<1>9. LeasesCount'
  <2> SUFFICES ASSUME NEW g \in 1..(n + 1)
               PROVE  gens'[g].leases = Cardinality(Readers(holds, g))
    BY <1>4, <1>6 DEF LeasesCount
  <2>1. CASE g = n + 1
    BY <2>1, <1>5, <1>6, <1>8, FS_EmptySet
  <2>2. CASE g \in 1..n
    <3>1. gens[g].leases = Cardinality(Readers(holds, g))
      BY <2>2 DEF LeaseInv, LeasesCount
    <3> QED
      BY <2>2, <3>1, <1>3, <1>6
  <2> QED
    BY <2>1, <2>2, <1>2
<1>10. RetiredOnes'
  BY <1>1, <1>2, <1>3, <1>4, <1>5, <1>6 DEF RetiredOnes, LeaseInv
<1>11. RuntimesServeTheirReaders'
  <2> SUFFICES ASSUME phase \in {"up", "draining"}, NEW g \in 1..(n + 1)
               PROVE  gens'[g].stopped <=> (g # n + 1 /\ \A q \in Requests : holds[q] # g)
    BY <1>4, <1>6 DEF RuntimesServeTheirReaders
  <2>1. CASE g = n + 1
    BY <2>1, <1>5, <1>6
  <2>2. CASE g = k
    <3>1. ~gens[k].stopped
      BY <1>1 DEF LeaseInv, RuntimesServeTheirReaders
    <3>2. gens[k].leases = 0 <=> Readers(holds, k) = {}
      BY ReadersFinite DEF LeaseInv, LeasesCount
    <3>3. Readers(holds, k) = {} <=> \A q \in Requests : holds[q] # k
      BY DEF Readers
    <3> QED
      BY <2>2, <3>1, <3>2, <3>3, <1>2, <1>3, <1>6
  <2>3. CASE g \in 1..n /\ g # k
    <3>1. gens'[g] = gens[g] /\ g # active /\ g # n + 1
      BY <2>3, <1>1, <1>2, <1>6
    <3> QED
      BY <2>3, <3>1 DEF LeaseInv, RuntimesServeTheirReaders
  <2> QED
    BY <2>1, <2>2, <2>3, <1>2
<1> QED
  BY <1>7, <1>9, <1>10, <1>11 DEF LeaseInv

LEMMA StopKeepsLeases ==
    ASSUME LeaseInv, StopProviders
    PROVE  LeaseInv'
<1> DEFINE n == Len(gens)
<1>1. PICK k \in 1..n : k = active
  BY DEF LeaseInv, LeaseType, StopProviders
<1>2. n \in Nat /\ gens[k] \in Generation
  BY DEF LeaseInv, LeaseType
<1> DEFINE old == [gens[k] EXCEPT !.retired = TRUE, !.stopped = TRUE]
<1>3. old \in Generation /\ old.leases = gens[k].leases
  BY <1>2 DEF Generation
<1>4. /\ gens' = [gens EXCEPT ![k] = old] /\ Len(gens') = n
      /\ active' = active /\ phase' = "stopped" /\ phase # "down" /\ holds' = holds
  BY <1>1 DEF StopProviders, LeaseInv, LeaseType
<1> HIDE DEF old
<1>5. gens' \in Seq(Generation) /\ gens'[k] = old
      /\ \A g \in 1..n : g # k => gens'[g] = gens[g]
  BY <1>3, <1>4 DEF LeaseInv, LeaseType
<1>6. LeaseType'
  BY <1>1, <1>4, <1>5 DEF LeaseInv, LeaseType
<1>7. LeasesCount'
  BY <1>3, <1>4, <1>5 DEF LeaseInv, LeasesCount
<1> QED
  BY <1>4, <1>6, <1>7 DEF LeaseInv, RetiredOnes, RuntimesServeTheirReaders

LEMMA ExitKeepsLeases ==
    ASSUME LeaseInv, Exit
    PROVE  LeaseInv'
<1>1. gens' = <<>> /\ Len(gens') = 0 /\ active' = 0 /\ phase' = "down"
      /\ holds' = [r \in Requests |-> 0]
  BY DEF Exit
<1> QED
  BY <1>1 DEF LeaseInv, LeaseType, LeasesCount, RetiredOnes, RuntimesServeTheirReaders

LEMMA StartKeepsLeases ==
    ASSUME LeaseInv, NothingWhenDown, Start
    PROVE  LeaseInv'
<1>1. /\ gens' = <<Started>> /\ Len(gens') = 1 /\ gens'[1] = Started
      /\ active' = 1 /\ phase' = "up" /\ holds' = holds
  BY DEF Start
<1>2. Started \in Generation /\ Started.leases = 0 /\ ~Started.retired /\ ~Started.stopped
  BY DEF Started, Generation
<1>3. \A r \in Requests : holds[r] = 0
  BY DEF LeaseInv, LeaseType, NothingWhenDown, Start
<1>4. LeaseType'
  BY <1>1, <1>2, <1>3 DEF LeaseInv, LeaseType
<1>5. Readers(holds, 1) = {}
  BY <1>3 DEF Readers
<1>6. LeasesCount'
  BY <1>1, <1>2, <1>5, FS_EmptySet DEF LeasesCount
<1> QED
  BY <1>1, <1>2, <1>3, <1>4, <1>6 DEF LeaseInv, RetiredOnes, RuntimesServeTheirReaders

(* All the other steps leave leases and generations alone. *)
LEMMA OthersKeepLeases ==
    ASSUME LeaseInv, UNCHANGED <<gens, active, holds>>,
           phase' = phase \/ (phase = "up" /\ phase' = "draining")
    PROVE  LeaseInv'
  BY DEF LeaseInv, LeaseType, LeasesCount, RetiredOnes, RuntimesServeTheirReaders

LEMMA NextLeases == LeaseInv /\ NothingWhenDown /\ [Next]_vars => LeaseInv'
<1> SUFFICES ASSUME LeaseInv, NothingWhenDown, [Next]_vars PROVE LeaseInv'
  OBVIOUS
<1>1. ASSUME NEW r \in Requests, CaptureLease(r) PROVE LeaseInv'
  BY <1>1, CaptureKeepsLeases
<1>2. ASSUME NEW r \in Requests, Release(r) PROVE LeaseInv'
  BY <1>2, ReleaseKeepsLeases
<1>3. ASSUME NEW ready \in BOOLEAN, Publish(ready) PROVE LeaseInv'
  <2>1. phase # "down"
    BY <1>3 DEF Publish, NothingWhenDown, Idle
  <2> QED
    BY <1>3, <2>1, PublishKeepsLeases
<1>4. ASSUME StopProviders PROVE LeaseInv'
  BY <1>4, StopKeepsLeases
<1>5. ASSUME Exit PROVE LeaseInv'
  BY <1>5, ExitKeepsLeases
<1>6. ASSUME Start PROVE LeaseInv'
  BY <1>6, StartKeepsLeases
<1>7. ASSUME NEW m \in Mutations, MutationStep(m) PROVE LeaseInv'
  <2>1. UNCHANGED <<gens, active, holds, phase>>
    BY <1>7 DEF MutationStep, Begin, BeginRefused, WritePrevious, WriteCandidate,
                WriteCandidateFails, Undo, UndoPrevious, UndoFails
  <2> QED
    BY <2>1, OthersKeepLeases
<1>8. ASSUME NEW m \in Mutations, NEW kind \in Kinds, Submit(m, kind) PROVE LeaseInv'
  BY <1>8, OthersKeepLeases DEF Submit
<1>9. CASE DirectReload \/ ReadFile \/ LoadFails
  <2>1. UNCHANGED <<gens, active, holds, phase>>
    BY <1>9 DEF DirectReload, ReadFile, LoadFails
  <2> QED
    BY <2>1, OthersKeepLeases
<1>10. CASE Shutdown
  BY <1>10, OthersKeepLeases DEF Shutdown
<1>11. CASE UNCHANGED vars
  BY <1>11, OthersKeepLeases DEF vars
<1> QED
  BY <1>1, <1>2, <1>3, <1>4, <1>5, <1>6, <1>7, <1>8, <1>9, <1>10, <1>11 DEF Next, LoadStep

-----------------------------------------------------------------------------
(* Files and mutations. *)

LEMMA InitFiles == Init => FileInv /\ NothingWhenDown
<1> SUFFICES ASSUME Init PROVE FileInv /\ NothingWhenDown
  OBVIOUS
<1>1. ~InMutation /\ queue = <<>> /\ load = Idle /\ base = None
  BY DEF Init, InMutation
<1>2. disk \in Configs /\ config = disk /\ config # None
  BY PolicyAssumption DEF Init, PolicyAssumption
<1>3. mut \in [Mutations -> Record] /\ \A m \in Mutations : mut[m] = Fresh
  BY PolicyAssumption DEF Init, Fresh, Record, Stages, Kinds
<1>4. FileType
  <2>1. Idle \in [by : Mutations \cup {"direct", None}, read : Seq(Contents)]
        /\ Len(Idle.read) = 0 /\ Len(LoadOrder) = 3
    BY DEF Idle, LoadOrder
  <2>2. base \in Saved \cup {None} /\ (base = None <=> ~InMutation)
    BY <1>1
  <2>3. load = Idle /\ Len(load.read) <= Len(LoadOrder)
    BY <1>1, <2>1
  <2>4. previous = None /\ phase = "up" /\ torn = FALSE /\ queue \in Seq(Mutations)
    BY <1>1 DEF Init
  <2> HIDE DEF Init
  <2> QED
    BY <1>2, <1>3, <2>1, <2>2, <2>3, <2>4 DEF FileType
<1>5. QueueShape /\ LoadShape
  BY <1>1, PolicyAssumption DEF QueueShape, LoadShape, Idle, PolicyAssumption
<1>6. RecordsFresh
  BY <1>3 DEF RecordsFresh, Fresh
<1> QED
  BY <1>1, <1>4, <1>5, <1>6 DEF FileInv, MutationProgress, NothingWhenDown, Init

(* The running mutation is the head of the queue, and no other is like it. *)
LEMMA HeadFacts ==
    ASSUME FileInv, queue # <<>>
    PROVE  /\ Len(queue) \in Nat /\ Len(queue) >= 1
           /\ Head(queue) \in Mutations /\ Head(queue) = queue[1]
           /\ Tail(queue) \in Seq(Mutations)
           /\ Len(Tail(queue)) = Len(queue) - 1
           /\ \A i \in 1..Len(Tail(queue)) :
                 /\ i + 1 \in 1..Len(queue) /\ Tail(queue)[i] = queue[i + 1]
                 /\ Tail(queue)[i] # Head(queue)
                 /\ mut[Tail(queue)[i]].stage = "queued"
<1>1. queue \in Seq(Mutations)
  BY DEF FileInv, FileType
<1>2. /\ Len(queue) \in Nat /\ Len(queue) >= 1
      /\ Head(queue) \in Mutations /\ Head(queue) = queue[1]
      /\ Tail(queue) \in Seq(Mutations)
      /\ Len(Tail(queue)) = Len(queue) - 1
  BY <1>1
<1>3. ASSUME NEW i \in 1..Len(Tail(queue))
      PROVE  i + 1 \in 1..Len(queue) /\ i + 1 > 1 /\ Tail(queue)[i] = queue[i + 1]
  BY <1>1, <1>2
<1>4. ASSUME NEW i \in 1..Len(Tail(queue))
      PROVE  Tail(queue)[i] # Head(queue) /\ mut[Tail(queue)[i]].stage = "queued"
  BY <1>2, <1>3 DEF FileInv, QueueShape
<1> QED
  BY <1>2, <1>3, <1>4

(* A mutation that ends makes room for the next one. *)
LEMMA EndKeeps ==
    ASSUME FileInv, queue # <<>>, NEW t \in BOOLEAN, EndAs(Head(queue), t),
           phase # "down", phase' = phase,
           disk' \in Configs, previous' \in Contents \cup {None}, config' \in Configs,
           load' = Idle
    PROVE  FileInv' /\ NothingWhenDown' /\ ~InMutation'
<1> DEFINE m == Head(queue)
<1>1. /\ m \in Mutations
      /\ queue' = Tail(queue) /\ queue' \in Seq(Mutations)
      /\ mut' = [mut EXCEPT ![m] = Ended("done")]
      /\ base' = None /\ torn' = t
  BY HeadFacts DEF EndAs
<1>2. mut' \in [Mutations -> Record] /\ mut'[m] = Ended("done")
      /\ \A n \in Mutations : n # m => mut'[n] = mut[n]
  BY <1>1, PolicyAssumption DEF FileInv, FileType, Ended, Fresh, Record, Stages, Kinds
<1>3. \A i \in 1..Len(queue') :
         /\ queue'[i] \in Mutations /\ queue'[i] # m /\ queue'[i] = queue[i + 1]
         /\ i + 1 \in 1..Len(queue) /\ mut'[queue'[i]].stage = "queued"
  <2> SUFFICES ASSUME NEW i \in 1..Len(queue')
               PROVE  /\ queue'[i] \in Mutations /\ queue'[i] # m /\ queue'[i] = queue[i + 1]
                      /\ i + 1 \in 1..Len(queue) /\ mut'[queue'[i]].stage = "queued"
    OBVIOUS
  <2>1. queue'[i] \in Mutations
    BY <1>1
  <2>2. /\ queue'[i] # m /\ queue'[i] = queue[i + 1] /\ i + 1 \in 1..Len(queue)
        /\ mut[queue'[i]].stage = "queued"
    BY <1>1, HeadFacts
  <2> QED
    BY <2>1, <2>2, <1>2
<1>4. ~InMutation'
  <2>1. ASSUME queue' # <<>> PROVE Head(queue') = queue'[1] /\ 1 \in 1..Len(queue')
    BY <2>1, <1>1
  <2> QED
    BY <2>1, <1>3 DEF InMutation
<1>5. FileType'
  BY <1>1, <1>2, <1>4, PolicyAssumption DEF FileInv, FileType, Idle, PolicyAssumption, LoadOrder
<1>6. QueueShape'
  <2>1. ASSUME NEW i \in 1..Len(queue'), NEW j \in 1..Len(queue'), queue'[i] = queue'[j]
        PROVE  i = j
    <3>1. i + 1 \in 1..Len(queue) /\ j + 1 \in 1..Len(queue) /\ queue[i + 1] = queue[j + 1]
      BY <2>1, <1>3
    <3>2. i + 1 = j + 1
      BY <3>1 DEF FileInv, QueueShape
    <3> QED
      BY <3>2
  <2> QED
    BY <2>1, <1>3 DEF QueueShape
<1>7. LoadShape'
  BY <1>4, PolicyAssumption DEF LoadShape, Idle, PolicyAssumption
<1>8. RecordsFresh'
  BY <1>2 DEF RecordsFresh, FileInv, Ended, Fresh
<1> QED
  BY <1>4, <1>5, <1>6, <1>7, <1>8 DEF FileInv, MutationProgress, NothingWhenDown

(* A step of the running mutation that keeps it running. *)
LEMMA HeadMoves ==
    ASSUME FileInv, queue # <<>>, queue' = queue, phase # "down", phase' = phase,
           mut' \in [Mutations -> Record], mut'[Head(queue)].stage \in Moving,
           \A n \in Mutations : n # Head(queue) => mut'[n] = mut[n]
    PROVE  QueueShape' /\ RecordsFresh' /\ NothingWhenDown' /\ InMutation'
<1>1. Head(queue) \in Mutations /\ Head(queue) = queue[1] /\ Len(queue) \in Nat /\ Len(queue) >= 1
  BY HeadFacts
<1>2. \A i \in 1..Len(queue) : queue[i] \in Mutations /\ (i > 1 => queue[i] # Head(queue))
  BY <1>1 DEF FileInv, FileType, QueueShape
<1>3. QueueShape'
  BY <1>1, <1>2 DEF FileInv, QueueShape
<1>4. RecordsFresh'
  BY <1>1 DEF FileInv, RecordsFresh
<1>5. InMutation'
  BY DEF InMutation, Moving
<1> QED
  BY <1>3, <1>4, <1>5 DEF NothingWhenDown

(* What a stage says in terms of the record it moves. *)
LEMMA StageMoves ==
    ASSUME FileInv, NEW m \in Mutations, NEW s \in Moving
    PROVE  LET moved == [mut EXCEPT ![m].stage = s] IN
              /\ moved \in [Mutations -> Record]
              /\ moved[m] = [mut[m] EXCEPT !.stage = s]
              /\ moved[m].stage = s /\ moved[m].kind = mut[m].kind
              /\ moved[m].next = mut[m].next /\ moved[m].recover = mut[m].recover
              /\ \A n \in Mutations : n # m => moved[n] = mut[n]
<1> DEFINE moved == [mut EXCEPT ![m].stage = s]
           y == [mut[m] EXCEPT !.stage = s]
<1>1. mut \in [Mutations -> Record] /\ mut[m] \in Record /\ s \in Stages
  BY DEF FileInv, FileType, Moving, Stages
<1>2. /\ y \in Record /\ y.stage = s /\ y.kind = mut[m].kind
      /\ y.next = mut[m].next /\ y.recover = mut[m].recover
  BY <1>1 DEF Record
<1>3. moved = [mut EXCEPT ![m] = y]
  BY <1>1
<1> HIDE DEF y, moved
<1>4. moved[m] = y /\ moved \in [Mutations -> Record]
      /\ \A n \in Mutations : n # m => moved[n] = mut[n]
  BY <1>1, <1>2, <1>3
<1> QED
  BY <1>2, <1>4 DEF moved, y

LEMMA ConfigFacts ==
    ASSUME FileInv, phase # "down"
    PROVE  /\ config \in Configs
           /\ InMutation => base \in Saved /\ base.disk \in Configs /\ base.config \in Configs
                            /\ base.previous \in Contents \cup {None}
<1>1. config \in Configs
  BY DEF FileInv, FileType
<1>2. InMutation => base \in Saved
  BY DEF FileInv, FileType
<1> QED
  BY <1>1, <1>2 DEF Saved

LEMMA CandidateType ==
    ASSUME FileInv, phase # "down", InMutation, NEW m \in Mutations, mut[m].next \in Contents
    PROVE  Candidate(m) \in Configs /\ Kept(m) \in Contents \cup {None}
<1>1. base.disk \in [Files -> Contents] /\ base.previous \in Contents \cup {None}
  BY ConfigFacts DEF Configs
<1>2. Target(mut[m].kind) \in Files
  BY DEF Target, Files
<1> QED
  BY <1>1, <1>2 DEF Candidate, Kept, Configs, Files

LEMMA BeginKeeps ==
    ASSUME FileInv, NEW m \in Mutations, Begin(m)
    PROVE  FileInv' /\ NothingWhenDown' /\ ~InMutation /\ InMutation'
<1>1. /\ queue # <<>> /\ m = Head(queue) /\ mut[m].stage = "queued"
      /\ phase # "down" /\ load = Idle
  BY DEF Begin, CanBegin, FileInv, LoadShape
<1>2. PICK c \in IF mut[m].kind = "rollback" THEN {previous} ELSE Contents :
         mut' = [mut EXCEPT ![m] =
                    [@ EXCEPT !.next = c,
                              !.stage = IF Target(mut[m].kind) = "policy"
                                        THEN "previous" ELSE "write"]]
  BY DEF Begin
<1>3. c \in Contents
  BY <1>2 DEF Begin, FileInv, FileType
<1> DEFINE y == [mut[m] EXCEPT !.next = c,
                              !.stage = IF Target(mut[m].kind) = "policy"
                                        THEN "previous" ELSE "write"]
<1>4. mut' = [mut EXCEPT ![m] = y]
  BY <1>2
<1>5. mut \in [Mutations -> Record] /\ mut[m] \in Record
  BY DEF FileInv, FileType
<1>6. /\ y \in Record /\ y.next = c /\ y.kind = mut[m].kind /\ y.recover = mut[m].recover
      /\ y.stage = IF Target(mut[m].kind) = "policy" THEN "previous" ELSE "write"
  BY <1>3, <1>5 DEF Record, Stages
<1> HIDE DEF y
<1>7. /\ mut' \in [Mutations -> Record] /\ mut'[m] = y
      /\ \A n \in Mutations : n # m => mut'[n] = mut[n]
  BY <1>4, <1>5, <1>6
<1>8. ~mut[m].recover
  BY <1>1 DEF FileInv, RecordsFresh, Moving
<1>9. /\ UNCHANGED <<disk, previous, phase, config, load, queue, torn>>
      /\ base' = [disk |-> disk, previous |-> previous, config |-> config]
  BY DEF Begin
<1>10. base' \in Saved /\ base' # None /\ base'.disk = disk
       /\ base'.previous = previous /\ base'.config = config
  BY <1>1, <1>9, ConfigFacts, PolicyAssumption DEF Saved, FileInv, FileType, PolicyAssumption
<1>11. QueueShape' /\ RecordsFresh' /\ NothingWhenDown' /\ InMutation'
  BY <1>1, <1>6, <1>7, <1>9, HeadMoves DEF Moving
<1>12. FileType'
  BY <1>7, <1>9, <1>10, <1>11 DEF FileInv, FileType
<1>13. LoadShape'
  BY <1>1, <1>6, <1>7, <1>9, PolicyAssumption DEF LoadShape, Idle, PolicyAssumption
<1>14. Progress(m)'
  BY <1>3, <1>6, <1>7, <1>8, <1>9, <1>10 DEF Progress, Kept
<1>15. MutationProgress'
  BY <1>1, <1>9, <1>14 DEF MutationProgress
<1>16. ~InMutation
  BY <1>1 DEF InMutation
<1> QED
  BY <1>11, <1>12, <1>13, <1>15, <1>16 DEF FileInv

LEMMA RefusedKeeps ==
    ASSUME FileInv, NEW m \in Mutations, BeginRefused(m)
    PROVE  FileInv' /\ NothingWhenDown' /\ ~InMutation /\ ~InMutation'
<1>1. /\ queue # <<>> /\ m = Head(queue) /\ mut[m].stage = "queued"
      /\ phase # "down" /\ load = Idle /\ ~InMutation
  BY DEF BeginRefused, CanBegin, FileInv, LoadShape, InMutation
<1>2. torn \in BOOLEAN /\ disk \in Configs /\ previous \in Contents \cup {None} /\ config \in Configs
  BY <1>1, ConfigFacts DEF FileInv, FileType
<1> QED
  BY <1>1, <1>2, EndKeeps DEF BeginRefused

LEMMA RunningFacts ==
    ASSUME FileInv, NothingWhenDown, NEW m \in Mutations, Running(m)
    PROVE  /\ queue # <<>> /\ m = Head(queue) /\ phase # "down" /\ InMutation
           /\ mut[m].stage \in Moving /\ Progress(m)
           /\ mut[m].stage \notin {"load", "reload"} => load = Idle
           /\ mut[m].stage \in {"load", "reload"} => load.by = m
<1>1. queue # <<>> /\ m = Head(queue) /\ phase # "down" /\ InMutation
  BY DEF Running, InMutation, NothingWhenDown
<1>2. Progress(m)
  BY <1>1 DEF FileInv, MutationProgress
<1>3. mut[m].stage \in Moving
  BY <1>1, HeadFacts DEF FileInv, QueueShape, Running
<1>4. /\ mut[m].stage \notin {"load", "reload"} => load = Idle
      /\ mut[m].stage \in {"load", "reload"} => load.by = m
  BY <1>1 DEF FileInv, FileType, LoadShape
<1> QED
  BY <1>1, <1>2, <1>3, <1>4

LEMMA StageKeeps ==
    ASSUME FileInv, NothingWhenDown, NEW m \in Mutations, Running(m), NEW s \in Moving,
           mut' = [mut EXCEPT ![m].stage = s], UNCHANGED <<queue, base, torn, phase>>,
           disk' \in Configs, previous' \in Contents \cup {None}, config' \in Configs,
           load' = IF s \in {"load", "reload"} THEN LoadOf(m) ELSE Idle,
           Progress(m)'
    PROVE  FileInv' /\ NothingWhenDown' /\ InMutation'
<1>1. queue # <<>> /\ m = Head(queue) /\ phase # "down" /\ InMutation
  BY RunningFacts
<1>2. /\ mut' \in [Mutations -> Record] /\ mut'[m].stage = s
      /\ \A n \in Mutations : n # m => mut'[n] = mut[n]
  BY StageMoves
<1>3. QueueShape' /\ RecordsFresh' /\ NothingWhenDown' /\ InMutation'
  BY <1>1, <1>2, HeadMoves
<1>4. /\ load' \in [by : Mutations \cup {"direct", None}, read : Seq(Contents)]
      /\ Len(load'.read) = 0 /\ Len(LoadOrder) = 3
      /\ load'.by = IF s \in {"load", "reload"} THEN m ELSE None
      /\ load'.by = None => load' = Idle
  BY PolicyAssumption DEF Idle, LoadOf, LoadOrder, PolicyAssumption
<1>5. LoadShape'
  BY <1>1, <1>2, <1>3, <1>4, PolicyAssumption DEF LoadShape, PolicyAssumption
<1>6. FileType'
  <2>1. base' \in Saved \cup {None} /\ (base' = None <=> ~InMutation')
    BY <1>1, <1>3 DEF FileInv, FileType
  <2>2. config' # None /\ phase' # "down" /\ torn' \in BOOLEAN /\ queue' \in Seq(Mutations)
    BY <1>1, PolicyAssumption DEF PolicyAssumption, FileInv, FileType
  <2>3. Len(load'.read) <= Len(LoadOrder)
    BY <1>4
  <2> QED
    BY <1>2, <1>4, <2>1, <2>2, <2>3 DEF FileType
<1>7. MutationProgress'
  BY <1>1 DEF MutationProgress
<1> QED
  BY <1>3, <1>5, <1>6, <1>7 DEF FileInv

LEMMA SameRecord ==
    ASSUME FileInv, NEW m \in Mutations, NEW s \in Moving,
           mut' = [mut EXCEPT ![m].stage = s], base' = base
    PROVE  /\ Candidate(m)' = Candidate(m) /\ Kept(m)' = Kept(m)
           /\ mut'[m].stage = s /\ mut'[m].kind = mut[m].kind
           /\ mut'[m].next = mut[m].next /\ mut'[m].recover = mut[m].recover
<1>1. /\ mut'[m].stage = s /\ mut'[m].kind = mut[m].kind
      /\ mut'[m].next = mut[m].next /\ mut'[m].recover = mut[m].recover
  BY StageMoves
<1> QED
  BY <1>1 DEF Candidate, Kept

LEMMA Restored ==
    ASSUME NEW d \in Configs, NEW f \in Files, NEW c \in Contents
    PROVE  /\ [d EXCEPT ![f] = d[f]] = d
           /\ [[d EXCEPT ![f] = c] EXCEPT ![f] = d[f]] = d
  BY DEF Configs

LEMMA TargetIsFile == \A kind : Target(kind) \in Files
  BY DEF Target, Files

LEMMA WritePreviousKeeps ==
    ASSUME FileInv, NothingWhenDown, NEW m \in Mutations, WritePrevious(m)
    PROVE  FileInv' /\ NothingWhenDown'
<1>1. /\ queue # <<>> /\ m = Head(queue) /\ phase # "down" /\ InMutation
      /\ Progress(m) /\ load = Idle /\ mut[m].stage = "previous"
  BY RunningFacts DEF WritePrevious
<1>2. /\ config \in Configs /\ disk \in Configs /\ previous \in Contents \cup {None}
      /\ base.disk \in Configs /\ torn \in BOOLEAN
  BY <1>1, ConfigFacts DEF FileInv, FileType
<1>3. UNCHANGED <<disk, phase, config, load>>
  BY DEF WritePrevious
<1>4. CASE previous' = base.disk["policy"] /\ GoTo(m, "write")
  <2>1. mut' = [mut EXCEPT ![m].stage = "write"] /\ UNCHANGED <<queue, base, torn>>
    BY <1>4 DEF GoTo
  <2>2. previous' \in Contents
    BY <1>2, <1>4 DEF Configs, Files
  <2>3. /\ Candidate(m)' = Candidate(m) /\ Kept(m)' = Kept(m)
        /\ mut'[m].stage = "write" /\ mut'[m].kind = mut[m].kind
        /\ mut'[m].next = mut[m].next /\ mut'[m].recover = mut[m].recover
    BY <2>1, SameRecord DEF Moving
  <2>4. Kept(m) = base.disk["policy"] /\ ~mut[m].recover
    BY <1>1 DEF Progress, Kept
  <2>5. Progress(m)'
    BY <1>1, <1>3, <1>4, <2>1, <2>3, <2>4 DEF Progress
  <2> QED
    BY <1>1, <1>2, <1>3, <2>1, <2>2, <2>5, StageKeeps DEF Moving, WritePrevious
<1>5. CASE UNCHANGED previous /\ EndAs(m, torn)
  BY <1>1, <1>2, <1>3, <1>5, EndKeeps
<1> QED
  BY <1>4, <1>5 DEF WritePrevious

LEMMA WriteCandidateKeeps ==
    ASSUME FileInv, NothingWhenDown, NEW m \in Mutations, WriteCandidate(m)
    PROVE  FileInv' /\ NothingWhenDown'
<1>1. /\ queue # <<>> /\ m = Head(queue) /\ phase # "down" /\ InMutation
      /\ Progress(m) /\ load = Idle /\ mut[m].stage = "write"
  BY RunningFacts DEF WriteCandidate
<1>2. /\ config \in Configs /\ previous \in Contents \cup {None}
      /\ UNCHANGED <<phase, config, previous>>
  BY <1>1, ConfigFacts DEF FileInv, FileType, WriteCandidate
<1>3. /\ mut' = [mut EXCEPT ![m].stage = "load"] /\ UNCHANGED <<queue, base, torn>>
      /\ load' = LoadOf(m)
  BY <1>1 DEF WriteCandidate, StartLoad, Idle
<1>4. disk' = Candidate(m) /\ ~mut[m].recover /\ previous = Kept(m) /\ mut[m].next \in Contents
  BY <1>1 DEF WriteCandidate, Progress, Candidate
<1>5. disk' \in Configs
  BY <1>1, <1>4, CandidateType
<1>6. /\ Candidate(m)' = Candidate(m) /\ Kept(m)' = Kept(m)
      /\ mut'[m].stage = "load" /\ mut'[m].kind = mut[m].kind
      /\ mut'[m].next = mut[m].next /\ mut'[m].recover = mut[m].recover
  BY <1>3, SameRecord DEF Moving
<1>7. Progress(m)'
  BY <1>1, <1>2, <1>3, <1>4, <1>6 DEF Progress
<1> QED
  BY <1>2, <1>3, <1>5, <1>7, StageKeeps DEF Moving, WriteCandidate

LEMMA WriteFailsKeeps ==
    ASSUME FileInv, NothingWhenDown, NEW m \in Mutations, WriteCandidateFails(m)
    PROVE  FileInv' /\ NothingWhenDown'
<1>1. /\ queue # <<>> /\ m = Head(queue) /\ phase # "down" /\ InMutation
      /\ Progress(m) /\ load = Idle /\ mut[m].stage = "write"
  BY RunningFacts DEF WriteCandidateFails
<1>2. /\ config \in Configs /\ disk \in Configs /\ previous \in Contents \cup {None}
      /\ torn \in BOOLEAN /\ UNCHANGED <<disk, previous, phase, config, load>>
  BY <1>1, ConfigFacts DEF FileInv, FileType, WriteCandidateFails
<1>3. CASE Target(mut[m].kind) = "policy"
  <2>1. mut' = [mut EXCEPT ![m].stage = "undo"] /\ UNCHANGED <<queue, base, torn>>
    BY <1>3 DEF WriteCandidateFails, GoTo
  <2>2. /\ Candidate(m)' = Candidate(m) /\ Kept(m)' = Kept(m)
        /\ mut'[m].stage = "undo" /\ mut'[m].kind = mut[m].kind
        /\ mut'[m].next = mut[m].next /\ mut'[m].recover = mut[m].recover
    BY <2>1, SameRecord DEF Moving
  <2>3. Progress(m)'
    BY <1>1, <1>2, <2>1, <2>2 DEF Progress
  <2> QED
    BY <1>1, <1>2, <2>1, <2>3, StageKeeps DEF Moving, WriteCandidateFails
<1>4. CASE Target(mut[m].kind) # "policy"
  BY <1>1, <1>2, <1>4, EndKeeps DEF WriteCandidateFails
<1> QED
  BY <1>3, <1>4

LEMMA UndoRestores ==
    ASSUME FileInv, NothingWhenDown, NEW m \in Mutations, Undo(m)
    PROVE  disk' = base.disk
<1>1. InMutation /\ Progress(m) /\ mut[m].stage = "undo" /\ phase # "down"
  BY RunningFacts DEF Undo
<1>2. base.disk \in Configs /\ mut[m].next \in Contents
      /\ disk \in {base.disk, Candidate(m)}
  BY <1>1, ConfigFacts DEF Progress
<1> DEFINE f == Target(mut[m].kind)
<1>3. disk' = [disk EXCEPT ![f] = base.disk[f]] /\ f \in Files
  BY TargetIsFile DEF Undo
<1> HIDE DEF f
<1>4. Candidate(m) = [base.disk EXCEPT ![f] = mut[m].next]
  BY DEF Candidate, f
<1>5. [base.disk EXCEPT ![f] = base.disk[f]] = base.disk
  BY <1>2, <1>3, Restored
<1>6. [[base.disk EXCEPT ![f] = mut[m].next] EXCEPT ![f] = base.disk[f]] = base.disk
  BY <1>2, <1>3, Restored
<1> QED
  BY <1>2, <1>3, <1>4, <1>5, <1>6

LEMMA UndoKeeps ==
    ASSUME FileInv, NothingWhenDown, NEW m \in Mutations, Undo(m)
    PROVE  FileInv' /\ NothingWhenDown'
<1>1. /\ queue # <<>> /\ m = Head(queue) /\ phase # "down" /\ InMutation
      /\ Progress(m) /\ load = Idle /\ mut[m].stage = "undo"
  BY RunningFacts DEF Undo
<1>2. /\ config \in Configs /\ disk' = base.disk /\ disk' \in Configs
      /\ previous \in Contents \cup {None} /\ torn \in BOOLEAN
      /\ UNCHANGED <<previous, phase, config>>
  BY <1>1, ConfigFacts, UndoRestores DEF FileInv, FileType, Undo
<1>3. CASE Target(mut[m].kind) = "policy"
  <2>3. ~mut[m].recover
    BY <1>1, <1>3 DEF Progress
  <2>1. mut' = [mut EXCEPT ![m].stage = "undoPrevious"] /\ UNCHANGED <<queue, base, torn, load>>
    BY <1>3, <2>3 DEF Undo, GoTo
  <2>2. /\ Candidate(m)' = Candidate(m) /\ Kept(m)' = Kept(m)
        /\ mut'[m].stage = "undoPrevious" /\ mut'[m].kind = mut[m].kind
        /\ mut'[m].next = mut[m].next /\ mut'[m].recover = mut[m].recover
    BY <2>1, SameRecord DEF Moving
  <2>4. Progress(m)'
    BY <1>1, <1>2, <1>3, <2>1, <2>2, <2>3 DEF Progress
  <2> QED
    BY <1>1, <1>2, <2>1, <2>4, StageKeeps DEF Moving, Undo
<1>4. CASE Target(mut[m].kind) # "policy" /\ mut[m].recover
  <2>1. /\ mut' = [mut EXCEPT ![m].stage = "reload"] /\ UNCHANGED <<queue, base, torn>>
        /\ load' = LoadOf(m)
    BY <1>1, <1>4 DEF Undo, StartLoad, Idle
  <2>2. /\ Candidate(m)' = Candidate(m) /\ Kept(m)' = Kept(m)
        /\ mut'[m].stage = "reload" /\ mut'[m].kind = mut[m].kind
        /\ mut'[m].next = mut[m].next /\ mut'[m].recover = mut[m].recover
    BY <2>1, SameRecord DEF Moving
  <2>3. Progress(m)'
    BY <1>1, <1>2, <1>4, <2>1, <2>2 DEF Progress
  <2> QED
    BY <1>1, <1>2, <2>1, <2>3, StageKeeps DEF Moving, Undo
<1>5. CASE Target(mut[m].kind) # "policy" /\ ~mut[m].recover
  <2>1. EndAs(m, torn) /\ load' = Idle
    BY <1>1, <1>5 DEF Undo
  <2> QED
    BY <1>1, <1>2, <2>1, EndKeeps
<1> QED
  BY <1>3, <1>4, <1>5

LEMMA UndoPreviousKeeps ==
    ASSUME FileInv, NothingWhenDown, NEW m \in Mutations, UndoPrevious(m)
    PROVE  FileInv' /\ NothingWhenDown'
<1>1. /\ queue # <<>> /\ m = Head(queue) /\ phase # "down" /\ InMutation
      /\ Progress(m) /\ load = Idle
  BY RunningFacts DEF UndoPrevious
<1>2. /\ config \in Configs /\ disk \in Configs /\ base.previous \in Contents \cup {None}
      /\ torn \in BOOLEAN
  BY <1>1, ConfigFacts DEF FileInv, FileType
<1> QED
  BY <1>1, <1>2, EndKeeps DEF UndoPrevious

LEMMA UndoFailsKeeps ==
    ASSUME FileInv, NothingWhenDown, NEW m \in Mutations, UndoFails(m)
    PROVE  FileInv' /\ NothingWhenDown'
<1>1. /\ queue # <<>> /\ m = Head(queue) /\ phase # "down" /\ load = Idle
  BY RunningFacts DEF UndoFails
<1>2. config \in Configs /\ disk \in Configs /\ previous \in Contents \cup {None}
  BY <1>1, ConfigFacts DEF FileInv, FileType
<1> QED
  BY <1>1, <1>2, EndKeeps DEF UndoFails

LEMMA SubmitKeeps ==
    ASSUME FileInv, NothingWhenDown, NEW m \in Mutations, NEW kind \in Kinds, Submit(m, kind)
    PROVE  FileInv' /\ NothingWhenDown' /\ (InMutation' <=> InMutation)
<1> DEFINE n == Len(queue)
           y == [mut[m] EXCEPT !.stage = "queued", !.kind = kind]
<1>1. /\ queue \in Seq(Mutations) /\ n \in Nat /\ mut \in [Mutations -> Record]
      /\ mut[m] \in Record /\ mut[m].stage = "new" /\ phase = "up"
  BY DEF FileInv, FileType, Submit
<1>2. /\ queue' = Append(queue, m) /\ mut' = [mut EXCEPT ![m] = y]
      /\ UNCHANGED <<disk, previous, phase, config, load, base, torn>>
  BY DEF Submit
<1>3. y \in Record /\ y.stage = "queued" /\ y.recover = mut[m].recover
  BY <1>1 DEF Record, Stages
<1> HIDE DEF y
<1>4. /\ mut' \in [Mutations -> Record] /\ mut'[m] = y
      /\ \A x \in Mutations : x # m => mut'[x] = mut[x]
  BY <1>1, <1>2, <1>3
<1>5. /\ queue' \in Seq(Mutations) /\ Len(queue') = n + 1 /\ queue'[n + 1] = m
      /\ \A i \in 1..n : queue'[i] = queue[i]
  BY <1>1, <1>2
<1>6. \A i \in 1..n : queue[i] \in Mutations /\ queue[i] # m
  BY <1>1 DEF FileInv, QueueShape, Moving
<1>7. QueueShape'
  BY <1>1, <1>3, <1>4, <1>5, <1>6 DEF FileInv, QueueShape
<1>8. RecordsFresh'
  BY <1>1, <1>3, <1>4 DEF FileInv, RecordsFresh, Moving
<1>9. /\ InMutation' <=> InMutation
      /\ InMutation => Head(queue') = Head(queue) /\ Head(queue) # m /\ Head(queue) \in Mutations
  <2>1. CASE queue = <<>>
    <3>1. Head(queue') = m /\ mut'[m].stage = "queued" /\ queue' # <<>>
      BY <2>1, <1>2, <1>3, <1>4
    <3> QED
      BY <2>1, <3>1 DEF InMutation
  <2>2. CASE queue # <<>>
    <3>1. /\ Head(queue') = queue'[1] /\ Head(queue) = queue[1]
          /\ queue' # <<>> /\ n >= 1
      BY <2>2, <1>1, <1>5
    <3>2. queue'[1] = queue[1] /\ queue[1] # m /\ queue[1] \in Mutations
      BY <3>1, <1>1, <1>5, <1>6
    <3> QED
      BY <2>2, <3>1, <3>2, <1>4 DEF InMutation
  <2> QED
    BY <2>1, <2>2
<1>10. FileType'
  BY <1>2, <1>4, <1>5, <1>9 DEF FileInv, FileType
<1>11. LoadShape'
  <2>1. InMutation => mut'[Head(queue')] = mut[Head(queue)]
    BY <1>4, <1>9
  <2> QED
    BY <2>1, <1>2, <1>9 DEF FileInv, LoadShape
<1>12. MutationProgress'
  <2>1. ASSUME InMutation PROVE Progress(Head(queue))'
    <3> DEFINE h == Head(queue)
    <3>1. Head(queue') = h /\ mut'[h] = mut[h] /\ Progress(h)
      BY <2>1, <1>4, <1>9 DEF FileInv, MutationProgress
    <3> QED
      BY <3>1, <1>2 DEF Progress, Candidate, Kept
  <2> QED
    BY <2>1, <1>9 DEF MutationProgress
<1> QED
  BY <1>1, <1>2, <1>7, <1>8, <1>9, <1>10, <1>11, <1>12 DEF FileInv, NothingWhenDown

LEMMA LoadFacts ==
    ASSUME FileInv, NothingWhenDown, load.by # None
    PROVE  /\ phase # "down"
           /\ \/ load.by = "direct" /\ ~InMutation
              \/ /\ load.by \in Mutations /\ load.by # "direct" /\ Running(load.by)
                 /\ load.by = Head(queue) /\ queue # <<>> /\ InMutation
                 /\ mut[load.by].stage \in {"load", "reload"} /\ Progress(load.by)
<1>1. phase # "down"
  BY DEF NothingWhenDown, Idle
<1>2. load.by \in Mutations \cup {"direct"}
  BY DEF FileInv, FileType
<1>3. CASE load.by = "direct"
  BY <1>1, <1>3 DEF FileInv, LoadShape
<1>4. CASE load.by \in Mutations
  <2>1. InMutation /\ load.by = Head(queue) /\ mut[load.by].stage \in {"load", "reload"}
    BY <1>4 DEF FileInv, LoadShape
  <2>2. queue # <<>> /\ Running(load.by)
    BY <2>1 DEF InMutation, Running
  <2>3. Progress(load.by)
    BY <2>1 DEF FileInv, MutationProgress
  <2>4. load.by # "direct"
    BY <1>4, PolicyAssumption DEF PolicyAssumption
  <2> QED
    BY <1>1, <1>4, <2>1, <2>2, <2>3, <2>4
<1> QED
  BY <1>2, <1>3, <1>4

(* What the loader has read is what the files say. *)
LEMMA ReadIsDisk ==
    ASSUME FileInv, load.by # None, Len(load.read) = Len(LoadOrder)
    PROVE  ConfigRead = disk
<1>1. disk \in [Files -> Contents] /\ Len(LoadOrder) = 3
  BY DEF FileInv, FileType, Configs, LoadOrder
<1>2. \A i \in 1..3 : load.read[i] = disk[LoadOrder[i]]
  BY <1>1 DEF FileInv, LoadShape
<1>3. ASSUME NEW f \in Files
      PROVE  load.read[CHOOSE i \in 1..Len(LoadOrder) : LoadOrder[i] = f] = disk[f]
  <2>1. \E i \in 1..3 : LoadOrder[i] = f
    BY DEF Files, LoadOrder
  <2>2. PICK i \in 1..3 : i = CHOOSE j \in 1..Len(LoadOrder) : LoadOrder[j] = f
    BY <2>1, <1>1
  <2>3. LoadOrder[i] = f
    BY <2>1, <2>2, <1>1
  <2> QED
    BY <2>2, <2>3, <1>2
<1> QED
  BY <1>1, <1>3 DEF ConfigRead

(* Steps that move no mutation. *)
LEMMA StillKeeps ==
    ASSUME FileInv, NothingWhenDown, UNCHANGED <<disk, previous, config, queue, mut, base>>,
           phase # "down", phase' # "down", torn' \in BOOLEAN,
           load' \in [by : Mutations \cup {"direct", None}, read : Seq(Contents)],
           Len(load'.read) <= Len(LoadOrder), LoadShape'
    PROVE  FileInv' /\ NothingWhenDown' /\ (InMutation' <=> InMutation)
<1>1. InMutation' <=> InMutation
  BY DEF InMutation
<1>2. QueueShape' /\ RecordsFresh'
  BY DEF FileInv, QueueShape, RecordsFresh
<1>3. FileType'
  BY <1>1, ConfigFacts, PolicyAssumption DEF FileInv, FileType, PolicyAssumption
<1>4. MutationProgress'
  BY <1>1 DEF FileInv, MutationProgress, Progress, Candidate, Kept
<1> QED
  BY <1>1, <1>2, <1>3, <1>4 DEF FileInv, NothingWhenDown

LEMMA DirectKeeps ==
    ASSUME FileInv, NothingWhenDown, DirectReload
    PROVE  FileInv' /\ NothingWhenDown'
<1>1. /\ UNCHANGED <<disk, previous, phase, config, queue, mut, base, torn>>
      /\ load' = Direct /\ phase = "up" /\ queue = <<>>
  BY DEF DirectReload
<1>2. /\ Direct \in [by : Mutations \cup {"direct", None}, read : Seq(Contents)]
      /\ Direct.by = "direct" /\ Len(Direct.read) = 0 /\ Len(LoadOrder) = 3
  BY DEF Direct, LoadOrder
<1>3. ~InMutation' /\ Len(Direct.read) <= Len(LoadOrder) /\ torn' \in BOOLEAN
  BY <1>1, <1>2 DEF InMutation, FileInv, FileType
<1>4. LoadShape'
  BY <1>1, <1>2, <1>3, PolicyAssumption DEF LoadShape, PolicyAssumption
<1> QED
  BY <1>1, <1>2, <1>3, <1>4, StillKeeps

LEMMA ReadKeeps ==
    ASSUME FileInv, NothingWhenDown, ReadFile
    PROVE  FileInv' /\ NothingWhenDown'
<1> DEFINE k == Len(load.read)
           text == disk[LoadOrder[k + 1]]
<1>1. /\ load \in [by : Mutations \cup {"direct", None}, read : Seq(Contents)]
      /\ k \in Nat /\ k < 3 /\ Len(LoadOrder) = 3 /\ load.by # None /\ phase # "down"
  BY LoadFacts DEF FileInv, FileType, ReadFile, LoadOrder
<1>2. LoadOrder[k + 1] \in Files
  BY <1>1 DEF LoadOrder, Files
<1>3. text \in Contents
  BY <1>2 DEF FileInv, FileType, Configs
<1>4. /\ load' = [load EXCEPT !.read = Append(load.read, text)]
      /\ UNCHANGED <<disk, previous, phase, config, queue, mut, base, torn>>
  BY DEF ReadFile
<1> HIDE DEF text
<1>5. /\ load' \in [by : Mutations \cup {"direct", None}, read : Seq(Contents)]
      /\ load'.by = load.by /\ load'.read = Append(load.read, text)
  BY <1>1, <1>3, <1>4
<1>6. /\ Len(load'.read) = k + 1 /\ load'.read[k + 1] = text
      /\ \A i \in 1..k : load'.read[i] = load.read[i]
  BY <1>1, <1>3, <1>5
<1>7. \A i \in 1..(k + 1) : load'.read[i] = disk[LoadOrder[i]]
  <2>1. \A i \in 1..k : load.read[i] = disk[LoadOrder[i]]
    BY <1>1 DEF FileInv, LoadShape
  <2>2. text = disk[LoadOrder[k + 1]]
    BY DEF text
  <2> QED
    BY <1>1, <1>6, <2>1, <2>2
<1>8. InMutation' <=> InMutation
  BY <1>4 DEF InMutation
<1>9. LoadShape'
  <2>1. \A i \in 1..Len(load'.read) : load'.read[i] = disk'[LoadOrder[i]]
    BY <1>4, <1>6, <1>7
  <2> QED
    BY <1>1, <1>4, <1>5, <1>8, <2>1 DEF FileInv, LoadShape
<1>10. Len(load'.read) <= Len(LoadOrder) /\ torn' \in BOOLEAN /\ phase' # "down"
  BY <1>1, <1>4, <1>6 DEF FileInv, FileType
<1> QED
  BY <1>1, <1>4, <1>5, <1>9, <1>10, StillKeeps

LEMMA IdleKeeps ==
    ASSUME FileInv, NothingWhenDown, UNCHANGED <<disk, previous, queue, mut, base>>,
           ~InMutation, config' \in Configs, phase # "down", phase' # "down",
           torn' \in BOOLEAN, load' = Idle
    PROVE  FileInv' /\ NothingWhenDown' /\ ~InMutation'
<1>1. ~InMutation'
  BY DEF InMutation
<1>2. QueueShape' /\ RecordsFresh'
  BY DEF FileInv, QueueShape, RecordsFresh
<1>3. /\ Idle \in [by : Mutations \cup {"direct", None}, read : Seq(Contents)]
      /\ Len(Idle.read) = 0 /\ Len(LoadOrder) = 3 /\ Idle.by = None
  BY DEF Idle, LoadOrder
<1>4. Len(load'.read) <= Len(LoadOrder) /\ config' # None
  BY <1>3, PolicyAssumption DEF PolicyAssumption
<1>5. FileType'
  BY <1>1, <1>3, <1>4 DEF FileInv, FileType
<1>6. LoadShape'
  BY <1>1, <1>3, PolicyAssumption DEF LoadShape, PolicyAssumption
<1> QED
  BY <1>1, <1>2, <1>5, <1>6 DEF FileInv, NothingWhenDown, MutationProgress

LEMMA LoadFailsKeeps ==
    ASSUME FileInv, NothingWhenDown, LoadFails
    PROVE  FileInv' /\ NothingWhenDown'
<1> DEFINE m == load.by
<1>1. /\ m # None /\ load' = Idle /\ UNCHANGED <<disk, previous, phase, config>>
  BY DEF LoadFails
<1>2. /\ phase # "down" /\ config \in Configs /\ disk \in Configs
      /\ previous \in Contents \cup {None} /\ torn \in BOOLEAN
  BY <1>1, LoadFacts, ConfigFacts DEF FileInv, FileType
<1>3. CASE m = "direct"
  <2>1. UNCHANGED <<mut, queue, base, torn>> /\ ~InMutation
    BY <1>1, <1>3, LoadFacts, PolicyAssumption DEF LoadFails, PolicyAssumption
  <2> QED
    BY <1>1, <1>2, <2>1, IdleKeeps
<1>4. CASE m # "direct"
  <2>1. /\ m \in Mutations /\ Running(m) /\ m = Head(queue) /\ queue # <<>> /\ InMutation
        /\ mut[m].stage \in {"load", "reload"} /\ Progress(m)
    BY <1>1, <1>4, LoadFacts
  <2>2. CASE mut[m].stage = "reload"
    <3>1. EndAs(m, TRUE)
      BY <1>4, <2>2 DEF LoadFails
    <3> QED
      BY <1>1, <1>2, <2>1, <3>1, EndKeeps
  <2>3. CASE mut[m].stage = "load"
    <3>1. mut' = [mut EXCEPT ![m].stage = "undo"] /\ UNCHANGED <<queue, base, torn>>
      BY <1>4, <2>3 DEF LoadFails, GoTo
    <3>2. PICK k \in Mutations : k = m
      BY <2>1
    <3>3. mut' = [mut EXCEPT ![k].stage = "undo"] /\ Running(k) /\ Progress(k)
          /\ mut[k].stage = "load"
      BY <2>1, <2>3, <3>1, <3>2
    <3>4. /\ Candidate(k)' = Candidate(k) /\ Kept(k)' = Kept(k)
          /\ mut'[k].stage = "undo" /\ mut'[k].kind = mut[k].kind
          /\ mut'[k].next = mut[k].next /\ mut'[k].recover = mut[k].recover
      BY <3>1, <3>3, SameRecord DEF Moving
    <3>5. Progress(k)'
      BY <1>1, <3>1, <3>3, <3>4 DEF Progress
    <3> QED
      BY <1>1, <1>2, <3>1, <3>3, <3>5, StageKeeps DEF Moving
  <2> QED
    BY <2>1, <2>2, <2>3
<1> QED
  BY <1>3, <1>4

(* What a publication means for the one who asked for it. *)
LEMMA PublishCases ==
    ASSUME FileInv, NothingWhenDown, NEW ready \in BOOLEAN, Publish(ready)
    PROVE  /\ phase # "down" /\ config' = disk /\ load' = Idle
           /\ UNCHANGED <<disk, previous, phase>>
           /\ \/ /\ load.by = "direct" /\ ~InMutation
                 /\ UNCHANGED <<mut, queue, base>> /\ torn' = FALSE
              \/ \E m \in Mutations :
                    /\ Running(m) /\ m = Head(queue) /\ queue # <<>> /\ InMutation /\ Progress(m)
                    /\ \/ mut[m].stage = "reload" /\ EndAs(m, ~ready)
                       \/ mut[m].stage = "load" /\ EndAs(m, FALSE)
                       \/ /\ mut[m].stage = "load" /\ mut[m].kind = "provider"
                          /\ mut' = [mut EXCEPT ![m] = [@ EXCEPT !.stage = "undo", !.recover = TRUE]]
                          /\ UNCHANGED <<queue, base, torn>>
<1>1. /\ load.by # None /\ Len(load.read) = Len(LoadOrder)
      /\ config' = ConfigRead /\ load' = Idle /\ AfterPublish(ready)
      /\ UNCHANGED <<disk, previous, phase>>
  BY DEF Publish
<1>2. config' = disk
  BY <1>1, ReadIsDisk
<1>3. CASE load.by = "direct"
  <2>1. UNCHANGED <<mut, queue, base>> /\ torn' = FALSE
    BY <1>1, <1>3 DEF AfterPublish
  <2> QED
    BY <1>1, <1>2, <1>3, <2>1, LoadFacts, PolicyAssumption DEF PolicyAssumption
<1>4. CASE load.by # "direct"
  <2>1. PICK m \in Mutations : m = load.by
    BY <1>1, <1>4, LoadFacts
  <2>2. /\ Running(m) /\ m = Head(queue) /\ queue # <<>> /\ InMutation /\ Progress(m)
        /\ mut[m].stage \in {"load", "reload"} /\ phase # "down" /\ m # "direct"
    BY <1>1, <1>4, <2>1, LoadFacts
  <2>3. CASE mut[m].stage = "reload"
    <3>1. EndAs(m, ~ready)
      BY <1>1, <2>1, <2>2, <2>3 DEF AfterPublish
    <3> QED
      BY <1>1, <1>2, <2>2, <2>3, <3>1
  <2>4. CASE mut[m].stage = "load" /\ mut[m].kind = "provider" /\ ~ready
    <3>1. /\ mut' = [mut EXCEPT ![m] = [@ EXCEPT !.stage = "undo", !.recover = TRUE]]
          /\ UNCHANGED <<queue, base, torn>>
      BY <1>1, <2>1, <2>2, <2>4 DEF AfterPublish
    <3> QED
      BY <1>1, <1>2, <2>2, <2>4, <3>1
  <2>5. CASE mut[m].stage = "load" /\ ~(mut[m].kind = "provider" /\ ~ready)
    <3>1. EndAs(m, FALSE)
      BY <1>1, <2>1, <2>2, <2>5 DEF AfterPublish
    <3> QED
      BY <1>1, <1>2, <2>2, <2>5, <3>1
  <2> QED
    BY <2>2, <2>3, <2>4, <2>5
<1> QED
  BY <1>3, <1>4

LEMMA PublishKeeps ==
    ASSUME FileInv, NothingWhenDown, NEW ready \in BOOLEAN, Publish(ready)
    PROVE  FileInv' /\ NothingWhenDown'
<1>1. /\ phase # "down" /\ config' = disk /\ load' = Idle
      /\ UNCHANGED <<disk, previous, phase>>
      /\ disk \in Configs /\ previous \in Contents \cup {None}
  BY PublishCases DEF FileInv, FileType
<1>2. CASE /\ load.by = "direct" /\ ~InMutation
           /\ UNCHANGED <<mut, queue, base>> /\ torn' = FALSE
  BY <1>1, <1>2, IdleKeeps
<1>3. ASSUME NEW m \in Mutations, m = Head(queue), queue # <<>>,
             NEW t \in BOOLEAN, EndAs(m, t)
      PROVE  FileInv' /\ NothingWhenDown'
  BY <1>1, <1>3, EndKeeps
<1>4. ASSUME NEW m \in Mutations, Running(m), m = Head(queue), queue # <<>>, InMutation,
             Progress(m), mut[m].stage = "load", mut[m].kind = "provider",
             mut' = [mut EXCEPT ![m] = [@ EXCEPT !.stage = "undo", !.recover = TRUE]],
             UNCHANGED <<queue, base, torn>>
      PROVE  FileInv' /\ NothingWhenDown'
  <2> DEFINE y == [mut[m] EXCEPT !.stage = "undo", !.recover = TRUE]
  <2>1. mut' = [mut EXCEPT ![m] = y]
    BY <1>4
  <2>2. mut \in [Mutations -> Record] /\ mut[m] \in Record
    BY DEF FileInv, FileType
  <2>3. /\ y \in Record /\ y.stage = "undo" /\ y.recover
        /\ y.kind = mut[m].kind /\ y.next = mut[m].next
    BY <2>2 DEF Record, Stages
  <2> HIDE DEF y
  <2>4. /\ mut' \in [Mutations -> Record] /\ mut'[m] = y
        /\ \A n \in Mutations : n # m => mut'[n] = mut[n]
    BY <2>1, <2>2, <2>3
  <2>5. QueueShape' /\ RecordsFresh' /\ NothingWhenDown' /\ InMutation'
    BY <1>1, <1>4, <2>3, <2>4, HeadMoves DEF Moving
  <2>6. Candidate(m)' = Candidate(m) /\ Kept(m)' = Kept(m)
    BY <1>4, <2>3, <2>4 DEF Candidate, Kept
  <2>7. Target(mut[m].kind) = "providers" /\ disk = Candidate(m) /\ previous = Kept(m)
        /\ mut[m].next \in Contents
    BY <1>4 DEF Progress, Target
  <2>8. Progress(m)'
    BY <1>1, <1>4, <2>3, <2>4, <2>6, <2>7 DEF Progress
  <2>9. MutationProgress'
    BY <1>4, <2>8 DEF MutationProgress
  <2>10. /\ Idle \in [by : Mutations \cup {"direct", None}, read : Seq(Contents)]
         /\ Len(Idle.read) = 0 /\ Len(LoadOrder) = 3 /\ Idle.by = None
    BY DEF Idle, LoadOrder
  <2>11. Len(load'.read) <= Len(LoadOrder) /\ config' # None
    BY <1>1, <2>10, PolicyAssumption DEF PolicyAssumption
  <2>12. FileType'
    BY <1>1, <1>4, <2>4, <2>5, <2>10, <2>11 DEF FileInv, FileType
  <2>13. LoadShape'
    BY <1>1, <1>4, <2>3, <2>4, <2>5, <2>10, PolicyAssumption DEF LoadShape, PolicyAssumption
  <2> QED
    BY <2>5, <2>9, <2>12, <2>13 DEF FileInv
<1> QED
  BY <1>2, <1>3, <1>4, PublishCases

LEMMA ExitKeeps ==
    ASSUME FileInv, NothingWhenDown, Exit
    PROVE  FileInv' /\ NothingWhenDown'
<1>1. /\ phase' = "down" /\ gens' = <<>> /\ config' = None /\ load' = Idle /\ queue' = <<>>
      /\ base' = None /\ torn' = FALSE /\ UNCHANGED <<disk, previous>>
      /\ mut' = [m \in Mutations |-> IF mut[m].stage \in {"new", "done"} THEN mut[m]
                                     ELSE Ended("lost")]
  BY DEF Exit
<1>2. Ended("lost") \in Record /\ Ended("lost").stage = "lost" /\ ~Ended("lost").recover
  BY PolicyAssumption DEF Ended, Fresh, Record, Stages, Kinds
<1>3. /\ mut' \in [Mutations -> Record]
      /\ \A m \in Mutations : mut'[m] = mut[m] \/ mut'[m] = Ended("lost")
  BY <1>1, <1>2 DEF FileInv, FileType
<1>4. ~InMutation' /\ QueueShape' /\ NothingWhenDown'
  BY <1>1 DEF InMutation, QueueShape, NothingWhenDown
<1>5. RecordsFresh'
  BY <1>2, <1>3 DEF FileInv, RecordsFresh
<1>6. /\ Idle \in [by : Mutations \cup {"direct", None}, read : Seq(Contents)]
      /\ Len(Idle.read) = 0 /\ Len(LoadOrder) = 3 /\ Idle.by = None
  BY DEF Idle, LoadOrder
<1>7. FileType'
  <2>1. Len(load'.read) <= Len(LoadOrder) /\ queue' \in Seq(Mutations)
    BY <1>1, <1>6
  <2> QED
    BY <1>1, <1>3, <1>4, <1>6, <2>1 DEF FileInv, FileType
<1>8. LoadShape'
  BY <1>1, <1>4, <1>6, PolicyAssumption DEF LoadShape, PolicyAssumption
<1> QED
  BY <1>4, <1>5, <1>7, <1>8 DEF FileInv, MutationProgress

LEMMA StartKeeps ==
    ASSUME FileInv, NothingWhenDown, Start
    PROVE  FileInv' /\ NothingWhenDown'
<1>1. /\ phase = "down" /\ phase' = "up" /\ config' = disk
      /\ UNCHANGED <<disk, previous, load, queue, mut, base, torn>>
      /\ queue = <<>> /\ load = Idle
  BY DEF Start, NothingWhenDown
<1>2. ~InMutation /\ ~InMutation' /\ disk # None
  BY <1>1, PolicyAssumption DEF InMutation, FileInv, FileType, PolicyAssumption
<1>3. FileType'
  BY <1>1, <1>2 DEF FileInv, FileType
<1>4. QueueShape' /\ RecordsFresh' /\ LoadShape'
  BY <1>1, <1>2 DEF FileInv, QueueShape, RecordsFresh, LoadShape
<1> QED
  BY <1>1, <1>2, <1>3, <1>4 DEF FileInv, NothingWhenDown, MutationProgress

LEMMA SameFilesKeep ==
    ASSUME FileInv, NothingWhenDown,
           UNCHANGED <<disk, previous, config, load, queue, mut, base, torn>>,
           phase = "down" <=> phase' = "down", phase = "down" => gens' = gens
    PROVE  FileInv' /\ NothingWhenDown'
<1>1. InMutation' <=> InMutation
  BY DEF InMutation
<1>2. QueueShape' /\ RecordsFresh' /\ NothingWhenDown'
  BY DEF FileInv, QueueShape, RecordsFresh, NothingWhenDown
<1>3. FileType'
  BY <1>1 DEF FileInv, FileType
<1>4. LoadShape'
  BY <1>1 DEF FileInv, LoadShape
<1>5. MutationProgress'
  BY <1>1 DEF FileInv, MutationProgress, Progress, Candidate, Kept
<1> QED
  BY <1>2, <1>3, <1>4, <1>5 DEF FileInv

LEMMA NextFiles == IInv /\ [Next]_vars => FileInv' /\ NothingWhenDown'
<1> SUFFICES ASSUME FileInv, NothingWhenDown, LeaseInv, [Next]_vars
             PROVE  FileInv' /\ NothingWhenDown'
  BY DEF IInv
<1>1. ASSUME NEW r \in Requests, CaptureLease(r) PROVE FileInv' /\ NothingWhenDown'
  BY <1>1, SameFilesKeep DEF CaptureLease
<1>2. ASSUME NEW r \in Requests, Release(r) PROVE FileInv' /\ NothingWhenDown'
  <2>1. phase # "down"
    BY <1>2 DEF Release, NothingWhenDown, LeaseInv, LeaseType
  <2> QED
    BY <1>2, <2>1, SameFilesKeep DEF Release
<1>3. ASSUME NEW m \in Mutations, NEW kind \in Kinds, Submit(m, kind)
      PROVE  FileInv' /\ NothingWhenDown'
  BY <1>3, SubmitKeeps
<1>4. ASSUME NEW m \in Mutations, MutationStep(m) PROVE FileInv' /\ NothingWhenDown'
  BY <1>4, BeginKeeps, RefusedKeeps, WritePreviousKeeps, WriteCandidateKeeps,
     WriteFailsKeeps, UndoKeeps, UndoPreviousKeeps, UndoFailsKeeps DEF MutationStep
<1>5. ASSUME DirectReload PROVE FileInv' /\ NothingWhenDown'
  BY <1>5, DirectKeeps
<1>6. ASSUME LoadStep PROVE FileInv' /\ NothingWhenDown'
  BY <1>6, ReadKeeps, LoadFailsKeeps, PublishKeeps DEF LoadStep
<1>7. ASSUME Shutdown PROVE FileInv' /\ NothingWhenDown'
  BY <1>7, SameFilesKeep DEF Shutdown
<1>8. ASSUME StopProviders PROVE FileInv' /\ NothingWhenDown'
  BY <1>8, SameFilesKeep DEF StopProviders
<1>9. ASSUME Exit PROVE FileInv' /\ NothingWhenDown'
  BY <1>9, ExitKeeps
<1>10. ASSUME Start PROVE FileInv' /\ NothingWhenDown'
  BY <1>10, StartKeeps
<1>11. CASE UNCHANGED vars
  BY <1>11, SameFilesKeep DEF vars
<1> QED
  BY <1>1, <1>2, <1>3, <1>4, <1>5, <1>6, <1>7, <1>8, <1>9, <1>10, <1>11 DEF Next

LEMMA InitIInv == Init => IInv
  BY InitLeases, InitFiles DEF IInv

LEMMA NextIInv == IInv /\ [Next]_vars => IInv'
  BY NextLeases, NextFiles DEF IInv

LEMMA TypeFromIInv == IInv => TypeOK
  BY DEF IInv, LeaseInv, LeaseType, FileInv, FileType, Record, TypeOK

(* Every variable keeps its type, counters of the code included: a mutation  *)
(* runs exactly while something is saved for it, and the gateway is down     *)
(* exactly while it has no configuration.                                    *)
THEOREM TypeCorrect == Spec => []TypeOK
<1> QED
  BY InitIInv, NextIInv, TypeFromIInv, PTL DEF Spec

(* ADR-020 for any number of requests, mutations and reloads: a generation's *)
(* runtime is stopped exactly when it was replaced and its last reader left. *)
THEOREM RuntimesFollowReaders == Spec => []RuntimesServeTheirReaders
<1>1. IInv => RuntimesServeTheirReaders
  BY DEF IInv, LeaseInv
<1> QED
  BY <1>1, InitIInv, NextIInv, PTL DEF Spec

-----------------------------------------------------------------------------
(* The owner's view: TransactionalConfig. *)

OStored == IF InMutation THEN base.disk ELSE disk
OUndo == IF InMutation THEN base.previous ELSE previous
OLive == IF InMutation THEN base.config ELSE config

OwnerStep == [Owner!CNext]_(Owner!cvars)

LEMMA OwnerStutters ==
    ASSUME UNCHANGED <<OStored, OUndo, OLive, torn>>
    PROVE  OwnerStep
  BY DEF OwnerStep, OStored, OUndo, OLive, Owner!cvars

LEMMA OwnerCommits ==
    ASSUME NEW f \in Files, NEW c \in Contents, OLive # None,
           OStored' = [OStored EXCEPT ![f] = c], OLive' = OStored',
           OUndo' = IF f = "policy" THEN OStored["policy"] ELSE OUndo, torn' = FALSE
    PROVE  OwnerStep
  BY DEF OwnerStep, OStored, OUndo, OLive, Owner!CNext, Owner!Commit

LEMMA OwnerReloads ==
    ASSUME OLive # None, OLive' = OStored, torn' = FALSE, UNCHANGED <<OStored, OUndo>>
    PROVE  OwnerStep
  BY DEF OwnerStep, OStored, OUndo, OLive, Owner!CNext, Owner!Reload

LEMMA OwnerTears ==
    ASSUME NEW f \in Files, NEW c \in Contents, OLive # None,
           OStored' \in {OStored, [OStored EXCEPT ![f] = c]},
           OUndo' \in {OUndo, OStored["policy"]},
           OLive' \in {OLive, OStored, [OStored EXCEPT ![f] = c]}, torn' = TRUE
    PROVE  OwnerStep
  BY DEF OwnerStep, OStored, OUndo, OLive, Owner!CNext, Owner!Tear, Owner!Interrupted

LEMMA OwnerCrashes ==
    ASSUME NEW f \in Files, NEW c \in Contents, OLive # None,
           OStored' \in {OStored, [OStored EXCEPT ![f] = c]},
           OUndo' \in {OUndo, OStored["policy"]}, OLive' = None, torn' = FALSE
    PROVE  OwnerStep
  BY DEF OwnerStep, OStored, OUndo, OLive, Owner!CNext, Owner!Crash, Owner!Interrupted

LEMMA OwnerBoots ==
    ASSUME OLive = None, OLive' = OStored, UNCHANGED <<OStored, OUndo, torn>>
    PROVE  OwnerStep
  BY DEF OwnerStep, OStored, OUndo, OLive, Owner!CNext, Owner!Boot

(* What the owner can count on while mutation m runs, and how far the files  *)
(* and the running configuration may be from it.                             *)
LEMMA OwnerFacts ==
    ASSUME FileInv, NothingWhenDown, NEW m \in Mutations, Running(m)
    PROVE  /\ OStored = base.disk /\ OUndo = base.previous /\ OLive = base.config
           /\ OLive # None /\ Target(mut[m].kind) \in Files /\ mut[m].next \in Contents
           /\ Candidate(m) = [OStored EXCEPT ![Target(mut[m].kind)] = mut[m].next]
           /\ disk \in {OStored, Candidate(m)}
           /\ previous \in {OUndo, OStored["policy"]}
           /\ config \in {OLive, Candidate(m)}
<1>1. InMutation /\ phase # "down" /\ Progress(m) /\ mut[m].stage \in Moving
  BY RunningFacts
<1>2. base.config \in Configs /\ mut[m].next \in Contents
  BY <1>1, ConfigFacts DEF Progress
<1>3. OStored = base.disk /\ OUndo = base.previous /\ OLive = base.config
  BY <1>1 DEF OStored, OUndo, OLive
<1>4. Candidate(m) = [base.disk EXCEPT ![Target(mut[m].kind)] = mut[m].next]
  BY DEF Candidate
<1>5. previous \in {base.previous, base.disk["policy"]}
  BY <1>1 DEF Progress, Kept
<1>6. disk \in {base.disk, Candidate(m)} /\ config \in {base.config, Candidate(m)}
  BY <1>1 DEF Progress, Moving
<1>7. OLive # None
  BY <1>2, <1>3, PolicyAssumption DEF PolicyAssumption
<1> QED
  BY <1>2, <1>3, <1>4, <1>5, <1>6, <1>7, TargetIsFile

(* After the end of a mutation the files speak for themselves. *)
LEMMA OwnerAfter ==
    ASSUME FileInv', NEW m, NEW t, EndAs(m, t)
    PROVE  ~InMutation' /\ OStored' = disk' /\ OUndo' = previous' /\ OLive' = config' /\ torn' = t
<1>1. base' = None /\ torn' = t
  BY DEF EndAs
<1>2. ~InMutation'
  BY <1>1 DEF FileInv, FileType
<1> QED
  BY <1>1, <1>2 DEF OStored, OUndo, OLive

(* While a mutation goes on, nothing changes for the owner. *)
LEMMA OwnerWaits ==
    ASSUME FileInv, FileInv', InMutation, UNCHANGED <<base, torn>>
    PROVE  OwnerStep
<1>1. InMutation'
  BY DEF FileInv, FileType
<1> QED
  BY <1>1, OwnerStutters DEF OStored, OUndo, OLive

LEMMA BeginForOwner ==
    ASSUME FileInv, NEW m \in Mutations, Begin(m)
    PROVE  OwnerStep
<1>1. ~InMutation /\ InMutation'
  BY BeginKeeps
<1>2. base' = [disk |-> disk, previous |-> previous, config |-> config] /\ torn' = torn
  BY DEF Begin
<1>3. OStored = disk /\ OUndo = previous /\ OLive = config
  BY <1>1 DEF OStored, OUndo, OLive
<1>4. OStored' = disk /\ OUndo' = previous /\ OLive' = config
  BY <1>1, <1>2 DEF OStored, OUndo, OLive
<1> QED
  BY <1>2, <1>3, <1>4, OwnerStutters

LEMMA RefusedForOwner ==
    ASSUME FileInv, FileInv', NEW m \in Mutations, BeginRefused(m)
    PROVE  OwnerStep
<1>1. ~InMutation
  BY RefusedKeeps
<1>2. EndAs(m, torn) /\ UNCHANGED <<disk, previous, config>>
  BY DEF BeginRefused
<1>3. OStored' = disk' /\ OUndo' = previous' /\ OLive' = config' /\ torn' = torn
  BY <1>2, OwnerAfter
<1>4. OStored = disk /\ OUndo = previous /\ OLive = config
  BY <1>1 DEF OStored, OUndo, OLive
<1> QED
  BY <1>2, <1>3, <1>4, OwnerStutters

(* A mutation that ends with everything back as it was. *)
LEMMA RestoredForOwner ==
    ASSUME FileInv, FileInv', NothingWhenDown, NEW m \in Mutations, Running(m),
           EndAs(m, torn), disk' = base.disk, previous' = base.previous, config' = base.config
    PROVE  OwnerStep
<1>1. OStored' = disk' /\ OUndo' = previous' /\ OLive' = config' /\ torn' = torn
  BY OwnerAfter
<1> QED
  BY <1>1, OwnerFacts, OwnerStutters

(* A mutation that ends without having been undone. *)
LEMMA TornForOwner ==
    ASSUME FileInv, FileInv', NothingWhenDown, NEW m \in Mutations, Running(m),
           EndAs(m, TRUE), UNCHANGED <<disk, previous>>, config' \in {config, base.disk}
    PROVE  OwnerStep
<1>1. OStored' = disk' /\ OUndo' = previous' /\ OLive' = config' /\ torn' = TRUE
  BY OwnerAfter
<1> DEFINE f == Target(mut[m].kind)
           c == mut[m].next
<1>2. /\ f \in Files /\ c \in Contents /\ OLive # None /\ OStored = base.disk
      /\ Candidate(m) = [OStored EXCEPT ![f] = c]
      /\ disk \in {OStored, Candidate(m)} /\ previous \in {OUndo, OStored["policy"]}
      /\ config \in {OLive, Candidate(m)}
  BY OwnerFacts
<1> HIDE DEF f, c
<1>3. /\ OStored' \in {OStored, [OStored EXCEPT ![f] = c]}
      /\ OUndo' \in {OUndo, OStored["policy"]}
      /\ OLive' \in {OLive, OStored, [OStored EXCEPT ![f] = c]}
  BY <1>1, <1>2
<1> QED
  BY <1>1, <1>2, <1>3, OwnerTears

LEMMA MutationForOwner ==
    ASSUME FileInv, FileInv', NothingWhenDown, NEW m \in Mutations, MutationStep(m)
    PROVE  OwnerStep
<1>1. CASE Begin(m)
  BY <1>1, BeginForOwner
<1>2. CASE BeginRefused(m)
  BY <1>2, RefusedForOwner
<1>3. CASE WritePrevious(m)
  <2>1. Running(m) /\ InMutation /\ Progress(m) /\ mut[m].stage = "previous"
    BY <1>3, RunningFacts DEF WritePrevious
  <2>2. CASE GoTo(m, "write")
    BY <2>1, <2>2, OwnerWaits DEF GoTo
  <2>3. CASE UNCHANGED previous /\ EndAs(m, torn)
    <3>1. disk' = base.disk /\ previous' = base.previous /\ config' = base.config
      BY <1>3, <2>1, <2>3 DEF WritePrevious, Progress
    <3> QED
      BY <2>1, <2>3, <3>1, RestoredForOwner
  <2> QED
    BY <1>3, <2>2, <2>3 DEF WritePrevious
<1>4. CASE WriteCandidate(m)
  <2>1. InMutation
    BY <1>4, RunningFacts DEF WriteCandidate
  <2> QED
    BY <1>4, <2>1, OwnerWaits DEF WriteCandidate, StartLoad
<1>5. CASE WriteCandidateFails(m)
  <2>1. Running(m) /\ InMutation /\ Progress(m) /\ mut[m].stage = "write"
    BY <1>5, RunningFacts DEF WriteCandidateFails
  <2>2. CASE Target(mut[m].kind) = "policy"
    BY <1>5, <2>1, <2>2, OwnerWaits DEF WriteCandidateFails, GoTo
  <2>3. CASE Target(mut[m].kind) # "policy"
    <3>1. EndAs(m, torn)
      BY <1>5, <2>3 DEF WriteCandidateFails
    <3>2. disk' = base.disk /\ previous' = base.previous /\ config' = base.config
      BY <1>5, <2>1, <2>3 DEF WriteCandidateFails, Progress, Kept
    <3> QED
      BY <2>1, <3>1, <3>2, RestoredForOwner
  <2> QED
    BY <2>2, <2>3
<1>6. CASE Undo(m)
  <2>1. Running(m) /\ InMutation /\ Progress(m) /\ mut[m].stage = "undo"
    BY <1>6, RunningFacts DEF Undo
  <2>2. disk' = base.disk /\ UNCHANGED <<previous, config>>
    BY <1>6, UndoRestores DEF Undo
  <2>3. CASE Target(mut[m].kind) = "policy" \/ mut[m].recover
    BY <1>6, <2>1, <2>3, OwnerWaits DEF Undo, GoTo, StartLoad
  <2>4. CASE ~(Target(mut[m].kind) = "policy" \/ mut[m].recover)
    <3>1. EndAs(m, torn)
      BY <1>6, <2>4 DEF Undo
    <3>2. previous' = base.previous /\ config' = base.config
      BY <2>1, <2>2, <2>4 DEF Progress, Kept
    <3> QED
      BY <2>1, <2>2, <3>1, <3>2, RestoredForOwner
  <2> QED
    BY <2>3, <2>4
<1>7. CASE UndoPrevious(m)
  <2>1. Running(m) /\ Progress(m) /\ mut[m].stage = "undoPrevious" /\ EndAs(m, torn)
    BY <1>7, RunningFacts DEF UndoPrevious
  <2>2. disk' = base.disk /\ previous' = base.previous /\ config' = base.config
    BY <1>7, <2>1 DEF UndoPrevious, Progress
  <2> QED
    BY <2>1, <2>2, RestoredForOwner
<1>8. CASE UndoFails(m)
  <2>1. /\ Running(m) /\ EndAs(m, TRUE) /\ UNCHANGED <<disk, previous>>
        /\ config' \in {config, base.disk}
    BY <1>8 DEF UndoFails
  <2> QED
    BY <2>1, TornForOwner
<1> QED
  BY <1>1, <1>2, <1>3, <1>4, <1>5, <1>6, <1>7, <1>8 DEF MutationStep

LEMMA LoadFailsForOwner ==
    ASSUME FileInv, FileInv', NothingWhenDown, LoadFails
    PROVE  OwnerStep
<1>1. load.by # None /\ UNCHANGED <<disk, previous, phase, config>>
  BY DEF LoadFails
<1>2. CASE load.by = "direct"
  <2>1. UNCHANGED <<mut, queue, base, torn>>
    BY <1>1, <1>2 DEF LoadFails
  <2>2. InMutation' <=> InMutation
    BY <2>1 DEF InMutation
  <2> QED
    BY <1>1, <2>1, <2>2, OwnerStutters DEF OStored, OUndo, OLive
<1>3. CASE load.by # "direct"
  <2>1. PICK m \in Mutations : m = load.by
    BY <1>1, <1>3, LoadFacts
  <2>2. Running(m) /\ InMutation /\ mut[m].stage \in {"load", "reload"}
    BY <1>1, <1>3, <2>1, LoadFacts
  <2>3. CASE mut[m].stage = "reload"
    <3>1. EndAs(m, TRUE)
      BY <1>3, <2>1, <2>3 DEF LoadFails
    <3>2. UNCHANGED <<disk, previous>> /\ config' \in {config, base.disk}
      BY <1>1
    <3> QED
      BY <2>2, <3>1, <3>2, TornForOwner
  <2>4. CASE mut[m].stage = "load"
    <3>1. UNCHANGED <<base, torn>>
      BY <1>3, <2>1, <2>4 DEF LoadFails, GoTo
    <3> QED
      BY <2>2, <3>1, OwnerWaits
  <2> QED
    BY <2>2, <2>3, <2>4
<1> QED
  BY <1>2, <1>3

LEMMA PublishForOwner ==
    ASSUME FileInv, FileInv', NothingWhenDown, NEW ready \in BOOLEAN, Publish(ready)
    PROVE  OwnerStep
<1>1. config' = disk /\ UNCHANGED <<disk, previous>> /\ phase # "down"
  BY PublishCases
<1>2. CASE ~InMutation /\ UNCHANGED <<mut, queue, base>> /\ torn' = FALSE
  <2>1. ~InMutation'
    BY <1>2 DEF InMutation
  <2>2. config # None
    BY <1>1 DEF FileInv, FileType
  <2>3. OStored = disk /\ OUndo = previous /\ OLive = config
    BY <1>2 DEF OStored, OUndo, OLive
  <2>4. OStored' = disk' /\ OUndo' = previous' /\ OLive' = config'
    BY <2>1 DEF OStored, OUndo, OLive
  <2> QED
    BY <1>1, <1>2, <2>2, <2>3, <2>4, OwnerReloads
<1>3. ASSUME NEW m \in Mutations, Running(m), Progress(m), mut[m].stage = "reload",
             EndAs(m, ~ready)
      PROVE  OwnerStep
  <2>1. disk = base.disk /\ previous = base.previous
    BY <1>3 DEF Progress, Kept, Target
  <2>2. CASE ready
    <3>1. OStored' = disk' /\ OUndo' = previous' /\ OLive' = config' /\ torn' = FALSE
      BY <1>3, <2>2, OwnerAfter
    <3>2. OStored = base.disk /\ OUndo = base.previous /\ OLive # None
      BY <1>3, OwnerFacts
    <3> QED
      BY <1>1, <2>1, <3>1, <3>2, OwnerReloads
  <2>3. CASE ~ready
    <3>1. EndAs(m, TRUE)
      BY <1>3, <2>3
    <3> QED
      BY <1>1, <1>3, <2>1, <3>1, TornForOwner
  <2> QED
    BY <2>2, <2>3
<1>4. ASSUME NEW m \in Mutations, Running(m), Progress(m), mut[m].stage = "load",
             EndAs(m, FALSE)
      PROVE  OwnerStep
  <2> DEFINE f == Target(mut[m].kind)
             c == mut[m].next
  <2>1. disk = Candidate(m)
        /\ previous = IF f = "policy" THEN base.disk["policy"] ELSE base.previous
    BY <1>4 DEF Progress, Kept
  <2>2. OStored' = disk' /\ OUndo' = previous' /\ OLive' = config' /\ torn' = FALSE
    BY <1>4, OwnerAfter
  <2>3. /\ f \in Files /\ c \in Contents /\ OLive # None
        /\ OStored = base.disk /\ OUndo = base.previous
        /\ Candidate(m) = [OStored EXCEPT ![f] = c]
    BY <1>4, OwnerFacts
  <2> HIDE DEF f, c
  <2> QED
    BY <1>1, <2>1, <2>2, <2>3, OwnerCommits
<1>5. ASSUME NEW m \in Mutations, InMutation, UNCHANGED <<queue, base, torn>>
      PROVE  OwnerStep
  BY <1>5, OwnerWaits
<1> QED
  BY <1>2, <1>3, <1>4, <1>5, PublishCases

LEMMA ExitForOwner ==
    ASSUME FileInv, NothingWhenDown, Exit
    PROVE  OwnerStep
<1>1. /\ queue' = <<>> /\ config' = None /\ torn' = FALSE /\ UNCHANGED <<disk, previous>>
      /\ phase # "down"
  BY DEF Exit
<1>2. OStored' = disk /\ OUndo' = previous /\ OLive' = None
  BY <1>1 DEF OStored, OUndo, OLive, InMutation
<1>3. CASE InMutation
  <2>1. PICK m \in Mutations : m = Head(queue)
    BY <1>3, HeadFacts DEF InMutation
  <2>2. Running(m)
    BY <1>3, <2>1 DEF InMutation, Running
  <2> DEFINE f == Target(mut[m].kind)
             c == mut[m].next
  <2>3. /\ f \in Files /\ c \in Contents /\ OLive # None
        /\ Candidate(m) = [OStored EXCEPT ![f] = c]
        /\ disk \in {OStored, Candidate(m)} /\ previous \in {OUndo, OStored["policy"]}
    BY <2>2, OwnerFacts
  <2> HIDE DEF f, c
  <2> QED
    BY <1>1, <1>2, <2>3, OwnerCrashes
<1>4. CASE ~InMutation
  <2>1. OStored = disk /\ OUndo = previous /\ OLive = config
    BY <1>4 DEF OStored, OUndo, OLive
  <2>2. config # None /\ disk["policy"] \in Contents /\ "policy" \in Files
    BY <1>1 DEF FileInv, FileType, Configs, Files
  <2> QED
    BY <1>1, <1>2, <2>1, <2>2, OwnerCrashes
<1> QED
  BY <1>3, <1>4

LEMMA StartForOwner ==
    ASSUME FileInv, NothingWhenDown, Start
    PROVE  OwnerStep
<1>1. /\ phase = "down" /\ config' = disk /\ UNCHANGED <<disk, previous, queue, mut, base, torn>>
  BY DEF Start
<1>2. ~InMutation /\ ~InMutation' /\ config = None
  BY <1>1 DEF InMutation, NothingWhenDown, FileInv, FileType
<1> QED
  BY <1>1, <1>2, OwnerBoots DEF OStored, OUndo, OLive

(* Steps the owner does not see. *)
LEMMA OthersForOwner ==
    ASSUME UNCHANGED <<disk, previous, config, base, torn>>, InMutation' <=> InMutation
    PROVE  OwnerStep
  BY OwnerStutters DEF OStored, OUndo, OLive

LEMMA NextForOwner == IInv /\ IInv' /\ [Next]_vars => OwnerStep
<1> SUFFICES ASSUME FileInv, FileInv', NothingWhenDown, [Next]_vars PROVE OwnerStep
  BY DEF IInv
<1>1. ASSUME NEW r \in Requests, CaptureLease(r) \/ Release(r) PROVE OwnerStep
  BY <1>1, OthersForOwner DEF CaptureLease, Release, InMutation
<1>2. ASSUME NEW m \in Mutations, NEW kind \in Kinds, Submit(m, kind) PROVE OwnerStep
  <2>1. InMutation' <=> InMutation
    BY <1>2, SubmitKeeps
  <2> QED
    BY <1>2, <2>1, OthersForOwner DEF Submit
<1>3. ASSUME NEW m \in Mutations, MutationStep(m) PROVE OwnerStep
  BY <1>3, MutationForOwner
<1>4. CASE DirectReload \/ ReadFile
  BY <1>4, OthersForOwner DEF DirectReload, ReadFile, InMutation
<1>5. CASE LoadFails
  BY <1>5, LoadFailsForOwner
<1>6. ASSUME NEW ready \in BOOLEAN, Publish(ready) PROVE OwnerStep
  BY <1>6, PublishForOwner
<1>7. CASE Shutdown \/ StopProviders
  BY <1>7, OthersForOwner DEF Shutdown, StopProviders, InMutation
<1>8. CASE Exit
  BY <1>8, ExitForOwner
<1>9. CASE Start
  BY <1>9, StartForOwner
<1>10. CASE UNCHANGED vars
  BY <1>10, OthersForOwner DEF vars, InMutation
<1> QED
  BY <1>1, <1>2, <1>3, <1>4, <1>5, <1>6, <1>7, <1>8, <1>9, <1>10 DEF Next, LoadStep

LEMMA InitForOwner == Init => Owner!CInit
<1> SUFFICES ASSUME Init PROVE Owner!CInit
  OBVIOUS
<1>1. ~InMutation /\ disk \in Configs /\ previous = None /\ config = disk /\ torn = FALSE
  BY PolicyAssumption DEF Init, InMutation, PolicyAssumption
<1> QED
  BY <1>1 DEF Owner!CInit, Owner!Configs, Configs

(* Every owner mutation, reload, crash and start is one of the steps         *)
(* TransactionalConfig allows, whatever fails and wherever it stops: a       *)
(* change is committed with the generation that loaded it, is undone, or is  *)
(* reported as torn.                                                         *)
THEOREM MutationsAreTransactional == Spec => MutationsAreTransactions
<1>1. IInv /\ IInv' /\ [Next]_vars => [Owner!CNext]_(Owner!cvars)
  BY NextForOwner DEF OwnerStep
<1> QED
  BY <1>1, InitIInv, NextIInv, InitForOwner, PTL
  DEF Spec, MutationsAreTransactions, Owner!CSpec

=============================================================================
