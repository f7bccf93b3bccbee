-------------------------- MODULE Segments_proofs --------------------------
(***************************************************************************)
(* Proofs about shared memory segments, for any number of processes,       *)
(* objects, segments and chunks and every width of the ids: an offset      *)
(* leads back to its chunk, a segment keeps its name as long as its owner  *)
(* has it, and nothing is left behind but what a crash or a failed create  *)
(* left.                                                                   *)
(***************************************************************************)
EXTENDS Segments, TLAPS

-----------------------------------------------------------------------------
(* PointerOffset *)

(* Quotient and remainder. *)
LEMMA Division ==
    ASSUME NEW m \in Nat \ {0}, NEW x \in Nat
    PROVE  x = m * (x \div m) + (x % m) /\ x \div m \in Nat /\ x % m \in 0 .. m - 1
OBVIOUS

(* Dividing by m gives back what was multiplied by it. *)
LEMMA DivMod ==
    ASSUME NEW m \in Nat \ {0}, NEW q \in Nat, NEW r \in 0 .. m - 1
    PROVE  (q * m + r) \div m = q /\ (q * m + r) % m = r
<1> DEFINE x == q * m + r
<1>1. x \in Nat
  OBVIOUS
<1>2. x = m * (x \div m) + (x % m) /\ x \div m \in Nat /\ x % m \in 0 .. m - 1
  BY <1>1, Division
<1>3. PICK d \in Int, e \in 0 .. m - 1 : d = x \div m /\ e = x % m
  BY <1>2
<1>4. m * (d - q) = r - e
  BY <1>2, <1>3
<1>5. d = q
  <2>1. CASE d - q >= 1
    <3>1. m * (d - q) >= m
      BY <2>1
    <3> QED
      BY <1>4, <3>1
  <2>2. CASE d - q <= -1
    <3>1. m * (d - q) <= -m
      BY <2>2
    <3> QED
      BY <1>4, <3>1
  <2> QED
    BY <2>1, <2>2
<1> QED
  BY <1>3, <1>4, <1>5

(* The sizes of a segment. *)
LEMMA Sizes ==
    /\ AlignedChunkSize \in Nat \ {0} /\ TotalSize \in Nat /\ OffMod \in Nat \ {0}
    /\ \A c \in Chunk : /\ HEADER_SIZE + c * AlignedChunkSize \in 0 .. OffMod - 1
                        /\ HEADER_SIZE + (c + 1) * AlignedChunkSize <= TotalSize
<1>1. AlignedChunkSize \in Nat \ {0}
  BY SizeAssumption DEF AlignedChunkSize
<1> HIDE DEF AlignedChunkSize
<1>2. PICK a \in Nat \ {0} : a = AlignedChunkSize
  BY <1>1
<1>3. ASSUME NEW c \in Chunk
      PROVE  /\ HEADER_SIZE + (c + 1) * a <= HEADER_SIZE + a * ChunkCount
             /\ HEADER_SIZE + c * a < HEADER_SIZE + (c + 1) * a
             /\ HEADER_SIZE + c * a \in Nat
  <2>1. c \in Nat /\ c + 1 <= ChunkCount
    BY SizeAssumption DEF Chunk
  <2>2. (c + 1) * a <= ChunkCount * a
    <3>1. PICK d \in Nat : ChunkCount = c + 1 + d
      BY <2>1, SizeAssumption
    <3>2. ChunkCount * a = (c + 1) * a + d * a /\ d * a >= 0
      BY <2>1, <3>1
    <3> QED
      BY <2>1, <3>2, SizeAssumption
  <2> QED
    BY <2>1, <2>2, SizeAssumption
<1>4. TotalSize = HEADER_SIZE + a * ChunkCount /\ TotalSize \in Nat
  BY <1>2, SizeAssumption DEF TotalSize
<1>5. 0 \in Chunk
  BY SizeAssumption DEF Chunk
<1>6. OffMod \in Nat \ {0}
  BY <1>3, <1>4, <1>5, OffsetAssumption, SizeAssumption
<1>7. ASSUME NEW c \in Chunk
      PROVE  /\ HEADER_SIZE + c * a \in 0 .. OffMod - 1
             /\ HEADER_SIZE + (c + 1) * a <= TotalSize
  <2>1. PICK x \in Nat : x = HEADER_SIZE + c * a
    BY <1>3
  <2>2. c \in Nat /\ HEADER_SIZE + (c + 1) * a \in Nat
    BY SizeAssumption DEF Chunk
  <2>3. x < TotalSize
    BY <1>3, <1>4, <2>1, <2>2
  <2> QED
    BY <1>3, <1>4, <1>6, <2>1, <2>3, OffsetAssumption
<1> QED
  BY <1>1, <1>2, <1>4, <1>6, <1>7

(* An offset fits its word, and tells its segment and its chunk. *)
LEMMA Offsets ==
    ASSUME NEW n \in Name, NEW c \in Chunk
    PROVE  /\ ChunkOffset(n, c) \in 0 .. SegMod * OffMod - 1
           /\ SegmentId(ChunkOffset(n, c)) = n
           /\ ChunkOf(ChunkOffset(n, c)) = c
<1> DEFINE o == HEADER_SIZE + c * AlignedChunkSize
<1>1. o \in 0 .. OffMod - 1 /\ OffMod \in Nat \ {0} /\ AlignedChunkSize \in Nat \ {0}
  BY Sizes
<1>2. n \in Nat /\ n + 1 <= SegMod /\ SegMod \in Nat /\ c \in Nat
  BY SizeAssumption DEF Name, Chunk
<1>3. o % OffMod = o
  BY <1>1
<1>4. ChunkOffset(n, c) = n * OffMod + o
  BY <1>3 DEF ChunkOffset, PointerOffset
<1>5. SegmentId(ChunkOffset(n, c)) = n /\ Offset(ChunkOffset(n, c)) = o
  BY <1>1, <1>2, <1>4, DivMod DEF SegmentId, Offset
<1>6. ChunkOf(ChunkOffset(n, c)) = c
  <2>1. o - HEADER_SIZE = c * AlignedChunkSize + 0
    BY <1>1, <1>2, SizeAssumption
  <2>2. (c * AlignedChunkSize + 0) \div AlignedChunkSize = c
    BY <1>1, <1>2, DivMod
  <2> QED
    BY <1>5, <2>1, <2>2 DEF ChunkOf
<1>7. n * OffMod + o \in 0 .. SegMod * OffMod - 1
  <2>1. PICK d \in Nat : SegMod = n + 1 + d
    BY <1>2
  <2>2. SegMod * OffMod = n * OffMod + OffMod + d * OffMod /\ d * OffMod >= 0
    BY <1>1, <1>2, <2>1
  <2>3. n * OffMod \in Nat
    BY <1>1, <1>2
  <2> QED
    BY <1>1, <1>2, <2>2, <2>3
<1> QED
  BY <1>4, <1>5, <1>6, <1>7

-----------------------------------------------------------------------------
(* Steps that leave the claims alone *)

(* The parts of the invariant that these proofs start from. *)
LEMMA Parts ==
    ASSUME IndInv
    PROVE  /\ link \in [Name -> Object \union {NoObject}]
           /\ stage \in [Object -> {"new", "sized", "built"}]
           /\ pc \in [Process -> {"idle", "excl", "drop", "open", "stat", "read"} \union Creating]
           /\ name \in [Process -> Name] /\ obj \in [Process -> Object \union {NoObject}]
           /\ segs \in [Process -> Seq([obj : Object, id : Name, used : SUBSET Chunk])]
           /\ held \in [Process -> SUBSET (0 .. SegMod * OffMod - 1)]
           /\ view \in [Process -> Object \union {NoObject}]
           /\ orphans \subseteq Object /\ pulled \subseteq Name /\ NoObject \notin Object
BY ObjectAssumption DEF IndInv, TypeOK

(* Ids and names. *)
LEMMA Names == /\ 0 \in Name /\ \A k \in Nat : k % SegMod \in Name /\ (k < SegMod => k % SegMod = k)
BY SizeAssumption, Division DEF Name

(* A segment of a process has an object, an id and chunks. *)
LEMMA Segment ==
    ASSUME IndInv, NEW p \in Process
    PROVE  /\ DOMAIN segs[p] = 1 .. Len(segs[p]) /\ Len(segs[p]) \in Nat
           /\ \A i \in DOMAIN segs[p] :
                 /\ segs[p][i] \in [obj : Object, id : Name, used : SUBSET Chunk]
                 /\ segs[p][i].obj \in Object /\ segs[p][i].id \in Name
                 /\ segs[p][i].used \subseteq Chunk
<1> DEFINE R == [obj : Object, id : Name, used : SUBSET Chunk]
<1>1. segs[p] \in Seq(R)
  BY Parts
<1>2. \A r \in R : r.obj \in Object /\ r.id \in Name /\ r.used \subseteq Chunk
  OBVIOUS
<1> HIDE DEF R
<1>3. DOMAIN segs[p] = 1 .. Len(segs[p]) /\ Len(segs[p]) \in Nat /\ \A i \in DOMAIN segs[p] : segs[p][i] \in R
  BY <1>1
<1> QED
  BY <1>2, <1>3 DEF R

\* What is said of names and objects.
Ownership == ClaimedOnce /\ ClaimedIsLinked /\ LinkedIsClaimed /\ SegmentsBuilt

\* The step leaves process p the objects it has.
KeepsClaims(p) ==
    /\ DOMAIN segs'[p] = DOMAIN segs[p]
    /\ \A i \in DOMAIN segs[p] : segs'[p][i].obj = segs[p][i].obj /\ segs'[p][i].id = segs[p][i].id
    /\ pc'[p] \in Creating <=> pc[p] \in Creating
    /\ pc[p] \in Creating => obj'[p] = obj[p] /\ name'[p] = name[p]

SameClaims == \A p \in Process : KeepsClaims(p)

LEMMA ClaimsSame ==
    ASSUME NEW p \in Process, KeepsClaims(p)
    PROVE  /\ Index(p)' = Index(p)
           /\ \A i \in Index(p), o \in Object, n \in Name : Claim(p, i, o, n)' <=> Claim(p, i, o, n)
BY DEF KeepsClaims, Index, Claim

(* A step that moves neither claims nor names, and changes no object that is a segment,
   keeps all that. *)
LEMMA OwnershipKept ==
    ASSUME IndInv, SameClaims, UNCHANGED <<link, orphans, pulled>>,
           \A p \in Process : \A i \in DOMAIN segs[p] :
               stage'[segs[p][i].obj] = stage[segs[p][i].obj]
    PROVE  Ownership'
<1>1. \A p \in Process : /\ Index(p)' = Index(p)
                          /\ \A i \in Index(p), o \in Object, n \in Name :
                                Claim(p, i, o, n)' <=> Claim(p, i, o, n)
  BY ClaimsSame DEF SameClaims
<1>2. ClaimedOnce'
  BY <1>1 DEF IndInv, ClaimedOnce
<1>3. ClaimedIsLinked'
  BY <1>1 DEF IndInv, ClaimedIsLinked
<1>4. LinkedIsClaimed'
  BY <1>1 DEF IndInv, LinkedIsClaimed
<1>5. SegmentsBuilt'
  BY DEF IndInv, SegmentsBuilt, SameClaims, KeepsClaims
<1> QED
  BY <1>2, <1>3, <1>4, <1>5 DEF Ownership

(* A step that moves no chunk keeps what is said of offsets. *)
LEMMA OffsetsKept ==
    ASSUME IndInv, UNCHANGED <<segs, held, pulled>>,
           \A p \in Process : pc'[p] # "drop" => pc[p] # "drop"
    PROVE  HeldOffsets' /\ OffsetsResolve'
<1>1. HeldOffsets'
  BY DEF IndInv, HeldOffsets
<1>2. OffsetsResolve'
  BY DEF IndInv, OffsetsResolve
<1> QED
  BY <1>1, <1>2

(* The object that a process is creating is no segment yet. *)
LEMMA CreatingIsNew ==
    ASSUME IndInv, NEW p \in Process, pc[p] \in Creating
    PROVE  /\ obj[p] \in Object /\ name[p] \in Name /\ Claim(p, 0, obj[p], name[p])
           /\ \A q \in Process : \A i \in DOMAIN segs[q] : segs[q][i].obj # obj[p]
           /\ \A q \in Process \ {p} : pc[q] \in Creating => obj[q] # obj[p]
<1>1. obj[p] \in Object /\ name[p] \in Name
  BY Parts DEF IndInv, CallsKnow
<1>2. Claim(p, 0, obj[p], name[p]) /\ 0 \in Index(p)
  BY DEF Claim, Index
<1>3. ASSUME NEW q \in Process, NEW i \in DOMAIN segs[q] PROVE segs[q][i].obj # obj[p]
  <2> SUFFICES ASSUME segs[q][i].obj = obj[p] PROVE FALSE
    OBVIOUS
  <2>1. segs[q][i].id \in Name /\ i # 0
    BY <1>3, Segment
  <2>2. Claim(q, i, obj[p], segs[q][i].id) /\ i \in Index(q)
    BY DEF Claim, Index
  <2> QED
    BY <1>1, <1>2, <2>1, <2>2 DEF IndInv, ClaimedOnce
<1>4. ASSUME NEW q \in Process \ {p}, pc[q] \in Creating PROVE obj[q] # obj[p]
  <2> SUFFICES ASSUME obj[q] = obj[p] PROVE FALSE
    OBVIOUS
  <2>1. Claim(q, 0, obj[p], name[q]) /\ 0 \in Index(q) /\ name[q] \in Name
    BY <1>4, Parts DEF Claim, Index
  <2> QED
    BY <1>1, <1>2, <2>1 DEF IndInv, ClaimedOnce
<1> QED
  BY <1>1, <1>2, <1>3, <1>4

(* Calls that start, that return without an object, and those of DataSegment::open; the
   steps of a create that nobody else sees. *)
LEMMA CallInv ==
    ASSUME IndInv, NEW p \in Process,
           \/ ManagerCreate(p) \/ AllocateGrows(p) \/ ShmExists(p) \/ Truncate(p) \/ MapCreated(p)
           \/ DropManager(p) \/ ShmOpen(p) \/ MapOpened(p) \/ ReadHeader(p) \/ Close(p)
           \/ \E n \in Name : OpenCall(p, n)
    PROVE  IndInv'
<1> USE Parts
<1>1. /\ UNCHANGED <<link, segs, held, orphans, pulled>>
      /\ \A q \in Process \ {p} : pc'[q] = pc[q] /\ name'[q] = name[q] /\ obj'[q] = obj[q]
      /\ pc[p] # "drop" /\ (pc'[p] \in Creating <=> pc[p] \in Creating)
      /\ pc[p] \in Creating => obj'[p] = obj[p] /\ name'[p] = name[p]
  BY DEF ManagerCreate, AllocateGrows, ShmExists, Truncate, MapCreated, DropManager, ShmOpen,
         MapOpened, ReadHeader, Close, OpenCall, Call, Return, Goto, Creating, calls
<1>2. SameClaims
  BY <1>1 DEF SameClaims, KeepsClaims
<1>3. /\ stage' \in [Object -> {"new", "sized", "built"}]
      /\ \A q \in Process : \A i \in DOMAIN segs[q] : stage'[segs[q][i].obj] = stage[segs[q][i].obj]
  <2>1. CASE Truncate(p)
    <3>1. pc[p] \in Creating /\ stage' = [stage EXCEPT ![obj[p]] = "sized"]
      BY <2>1 DEF Truncate, Creating
    <3> QED
      BY <3>1, CreatingIsNew, Segment
  <2>2. CASE ~Truncate(p)
    <3>1. UNCHANGED stage
      BY <2>2 DEF ManagerCreate, AllocateGrows, ShmExists, MapCreated, DropManager, ShmOpen,
                  MapOpened, ReadHeader, Close, OpenCall
    <3> QED
      BY <3>1
  <2> QED
    BY <2>1, <2>2
<1>4. Ownership'
  BY <1>1, <1>2, <1>3, OwnershipKept
<1>5. HeldOffsets' /\ OffsetsResolve'
  BY <1>1, OffsetsKept
<1>6. /\ pc' \in [Process -> {"idle", "excl", "drop", "open", "stat", "read"} \union Creating]
      /\ name' \in [Process -> Name] /\ obj' \in [Process -> Object \union {NoObject}]
      /\ view' \in [Process -> Object \union {NoObject}]
      /\ CallsKnow'
  <2> DEFINE Good == /\ pc' \in [Process -> {"idle", "excl", "drop", "open", "stat", "read"} \union Creating]
                     /\ name' \in [Process -> Name] /\ obj' \in [Process -> Object \union {NoObject}]
                     /\ view' \in [Process -> Object \union {NoObject}]
                     /\ CallsKnow'
  <2>1. \A q \in Process : Len(segs[q]) \in Nat
    BY Segment
  <2> USE <1>1, <2>1, Names DEF IndInv, CallsKnow, Call, Return, Goto, Creating, calls
  <2>2. CASE ManagerCreate(p)
    <3>1. segs[p] = <<>> /\ Len(segs[p]) % SegMod = 0
      BY <2>2, SizeAssumption DEF ManagerCreate
    <3> QED
      BY <2>2, <3>1 DEF ManagerCreate
  <2>3. CASE AllocateGrows(p)
    BY <2>3 DEF AllocateGrows
  <2>4. CASE ShmExists(p)
    BY <2>4 DEF ShmExists
  <2>5. CASE Truncate(p) \/ MapCreated(p)
    BY <2>5 DEF Truncate, MapCreated
  <2>6. CASE DropManager(p)
    BY <2>6 DEF DropManager
  <2>7. CASE ShmOpen(p)
    <3>1. CASE link[name[p]] = NoObject
      <4>1. pc[p] = "open" /\ Return(p) /\ UNCHANGED view
        BY <2>7, <3>1 DEF ShmOpen
      <4> QED
        BY <4>1
    <3>2. CASE link[name[p]] # NoObject
      <4>1. /\ pc[p] = "open" /\ pc' = [pc EXCEPT ![p] = "stat"] /\ UNCHANGED <<name, view>>
            /\ obj' = [obj EXCEPT ![p] = link[name[p]]] /\ link[name[p]] \in Object
        BY <2>7, <3>2 DEF ShmOpen
      <4> QED
        BY <4>1
    <3> QED
      BY <3>1, <3>2
  <2>8. CASE MapOpened(p)
    <3>1. CASE stage[obj[p]] = "new"
      <4>1. pc[p] = "stat" /\ Return(p) /\ UNCHANGED view
        BY <2>8, <3>1 DEF MapOpened
      <4> QED
        BY <4>1
    <3>2. CASE stage[obj[p]] # "new"
      <4>1. pc[p] = "stat" /\ Goto(p, "read") /\ UNCHANGED view
        BY <2>8, <3>2 DEF MapOpened
      <4> QED
        BY <4>1
    <3> QED
      BY <3>1, <3>2
  <2>9. CASE ReadHeader(p)
    BY <2>9 DEF ReadHeader
  <2>10. CASE Close(p)
    BY <2>10 DEF Close
  <2>11. CASE \E n \in Name : OpenCall(p, n)
    BY <2>11 DEF OpenCall
  <2> QED
    BY <2>2, <2>3, <2>4, <2>5, <2>6, <2>7, <2>8, <2>9, <2>10, <2>11
<1>7. TypeOK'
  BY <1>1, <1>3, <1>6 DEF TypeOK
<1> QED
  BY <1>4, <1>5, <1>6, <1>7 DEF IndInv, Ownership

-----------------------------------------------------------------------------
(* Allocating and freeing chunks *)

\* The step makes U the chunks that are used of p's i-th segment.
SetsUsed(p, i, U) ==
    segs' = [segs EXCEPT ![p] = [segs[p] EXCEPT ![i] = [segs[p][i] EXCEPT !.used = U]]]

\* What that changes.
UsedIs(p, i, U) ==
    /\ segs' \in [Process -> Seq([obj : Object, id : Name, used : SUBSET Chunk])]
    /\ \A q \in Process \ {p} : segs'[q] = segs[q]
    /\ DOMAIN segs'[p] = DOMAIN segs[p] /\ Len(segs'[p]) = Len(segs[p])
    /\ \A j \in DOMAIN segs[p] :
          /\ segs'[p][j].obj = segs[p][j].obj /\ segs'[p][j].id = segs[p][j].id
          /\ segs'[p][j].used = IF j = i THEN U ELSE segs[p][j].used

(* And it does. *)
LEMMA UsedChanged ==
    ASSUME IndInv, NEW p \in Process, NEW i \in DOMAIN segs[p], NEW U \in SUBSET Chunk,
           SetsUsed(p, i, U)
    PROVE  UsedIs(p, i, U)
<1> DEFINE R == [obj : Object, id : Name, used : SUBSET Chunk]
           t == [segs[p][i] EXCEPT !.used = U]
<1>1. /\ DOMAIN segs[p] = 1 .. Len(segs[p]) /\ Len(segs[p]) \in Nat
      /\ \A j \in DOMAIN segs[p] : segs[p][j] \in R
  BY Segment
<1>2. t \in R /\ t.obj = segs[p][i].obj /\ t.id = segs[p][i].id /\ t.used = U
  BY <1>1
<1>3. segs \in [Process -> Seq(R)] /\ segs' = [segs EXCEPT ![p] = [segs[p] EXCEPT ![i] = t]]
  BY Parts DEF SetsUsed
<1> HIDE DEF t, R
<1>4. segs'[p] = [segs[p] EXCEPT ![i] = t] /\ \A q \in Process \ {p} : segs'[q] = segs[q]
  BY <1>3
<1>5. /\ DOMAIN segs'[p] = 1 .. Len(segs[p])
      /\ \A j \in 1 .. Len(segs[p]) : segs'[p][j] = IF j = i THEN t ELSE segs[p][j]
  BY <1>1, <1>3, <1>4
<1>6. segs'[p] \in [1 .. Len(segs[p]) -> R]
  <2>1. segs[p] \in [1 .. Len(segs[p]) -> R]
    BY <1>1, <1>3
  <2> QED
    BY <1>2, <1>4, <2>1
<1>7. segs'[p] \in Seq(R) /\ Len(segs'[p]) = Len(segs[p])
  BY <1>1, <1>6
<1>8. segs' \in [Process -> Seq(R)]
  BY <1>3, <1>4, <1>7
<1> QED
  BY <1>1, <1>2, <1>4, <1>5, <1>7, <1>8 DEF R, UsedIs

\* The step does that, and makes H what the application has, in keeping with it.
MovesChunk(p, i, U, H) ==
    /\ SetsUsed(p, i, U) /\ held' = [held EXCEPT ![p] = H]
    /\ UNCHANGED <<link, stage, calls, view, orphans, pulled>>
    /\ \A x \in H : \E n \in Name, c \in Chunk : x = ChunkOffset(n, c)
    /\ pulled = {} =>
          /\ \A x \in H : SegmentId(x) < Len(segs[p])
          /\ U = {ChunkOf(x) : x \in {y \in H : SegmentId(y) = i - 1}}
          /\ \A j \in DOMAIN segs[p] \ {i} :
                {y \in H : SegmentId(y) = j - 1} = {y \in held[p] : SegmentId(y) = j - 1}

(* It moves no object, and keeps the rest. *)
LEMMA ChunkMoved ==
    ASSUME IndInv, NEW p \in Process, pc[p] = "idle", NEW i \in DOMAIN segs[p], NEW U \in SUBSET Chunk,
           NEW H \in SUBSET (0 .. SegMod * OffMod - 1), MovesChunk(p, i, U, H)
    PROVE  IndInv'
<1> USE Parts DEF MovesChunk
<1>u. UsedIs(p, i, U)
  BY UsedChanged
<1>1. /\ segs' \in [Process -> Seq([obj : Object, id : Name, used : SUBSET Chunk])]
      /\ \A q \in Process \ {p} : segs'[q] = segs[q]
      /\ DOMAIN segs'[p] = DOMAIN segs[p] /\ Len(segs'[p]) = Len(segs[p])
      /\ \A j \in DOMAIN segs[p] :
            /\ segs'[p][j].obj = segs[p][j].obj /\ segs'[p][j].id = segs[p][j].id
            /\ segs'[p][j].used = IF j = i THEN U ELSE segs[p][j].used
  BY <1>u DEF UsedIs
<1>2. /\ UNCHANGED <<link, stage, pc, name, obj, view, orphans, pulled>>
      /\ held'[p] = H /\ \A q \in Process \ {p} : held'[q] = held[q]
  BY DEF calls
<1>3. SameClaims
  BY <1>1, <1>2 DEF SameClaims, KeepsClaims
<1>4. Ownership'
  BY <1>2, <1>3, OwnershipKept
<1>5. TypeOK'
  BY <1>1, <1>2 DEF IndInv, TypeOK
<1>6. CallsKnow'
  BY <1>1, <1>2 DEF IndInv, CallsKnow, Creating
<1>7. HeldOffsets'
  BY <1>1, <1>2 DEF IndInv, HeldOffsets
<1>8. OffsetsResolve'
  <2> SUFFICES ASSUME pulled = {}, NEW q \in Process, pc[q] # "drop", NEW j \in DOMAIN segs'[q]
               PROVE  /\ segs'[q][j].id = j - 1
                      /\ segs'[q][j].used = {ChunkOf(x) : x \in {y \in held'[q] : SegmentId(y) = j - 1}}
                      /\ \A c \in segs'[q][j].used :
                            HEADER_SIZE + (c + 1) * AlignedChunkSize <= TotalSize
    BY <1>2 DEF OffsetsResolve
  <2>1. \A c \in Chunk : HEADER_SIZE + (c + 1) * AlignedChunkSize <= TotalSize
    BY Sizes
  <2>2. CASE q # p
    BY <1>1, <1>2, <2>2 DEF IndInv, OffsetsResolve
  <2>3. CASE q = p /\ j = i
    <3>1. segs[p][i].id = i - 1
      BY <2>3 DEF IndInv, OffsetsResolve
    <3> QED
      BY <1>1, <1>2, <2>1, <2>3, <3>1
  <2>4. CASE q = p /\ j # i
    <3>1. /\ segs[p][j].id = j - 1 /\ segs[p][j].used \subseteq Chunk
          /\ segs[p][j].used = {ChunkOf(x) : x \in {y \in held[p] : SegmentId(y) = j - 1}}
      BY <1>1, <2>4, Segment DEF IndInv, OffsetsResolve
    <3>2. {y \in H : SegmentId(y) = j - 1} = {y \in held[p] : SegmentId(y) = j - 1}
      BY <1>1, <2>4
    <3> QED
      BY <1>1, <1>2, <2>1, <2>4, <3>1, <3>2
  <2> QED
    BY <2>2, <2>3, <2>4
<1> QED
  BY <1>4, <1>5, <1>6, <1>7, <1>8 DEF IndInv, Ownership

(* SegmentManager::allocate from a segment with room. *)
LEMMA AllocateInv == ASSUME IndInv, NEW p \in Process, AllocateChunk(p) PROVE IndInv'
<1> USE Parts
<1>1. PICK i \in DOMAIN segs[p], c \in Chunk :
         /\ segs' = [segs EXCEPT ![p][i].used = @ \union {c}]
         /\ held' = [held EXCEPT ![p] = @ \union {ChunkOffset(segs[p][i].id, c)}]
  BY DEF AllocateChunk
<1>2. pc[p] = "idle" /\ UNCHANGED <<link, stage, calls, view, orphans, pulled>>
  BY DEF AllocateChunk
<1>3. segs[p][i].id \in Name /\ segs[p][i].used \subseteq Chunk /\ i \in Nat
  BY Segment
<1>4. PICK n \in Name : n = segs[p][i].id
  BY <1>3
<1> DEFINE x == ChunkOffset(n, c)
<1>5. x \in 0 .. SegMod * OffMod - 1 /\ SegmentId(x) = n /\ ChunkOf(x) = c
  BY Offsets
<1>u. PICK U \in SUBSET Chunk : U = segs[p][i].used \union {c}
  BY <1>3
<1>h. PICK H \in SUBSET (0 .. SegMod * OffMod - 1) : H = held[p] \union {x}
  BY <1>5
<1>6. held' = [held EXCEPT ![p] = H] /\ SetsUsed(p, i, U)
  BY <1>1, <1>4, <1>u, <1>h DEF SetsUsed
<1>7. \A y \in H : \E m \in Name, d \in Chunk : y = ChunkOffset(m, d)
  BY <1>h DEF IndInv, HeldOffsets
<1> HIDE DEF x
<1>8. ASSUME pulled = {}
      PROVE  /\ \A y \in H : SegmentId(y) < Len(segs[p])
             /\ U = {ChunkOf(y) : y \in {z \in H : SegmentId(z) = i - 1}}
             /\ \A j \in DOMAIN segs[p] \ {i} :
                   {y \in H : SegmentId(y) = j - 1} = {y \in held[p] : SegmentId(y) = j - 1}
  <2>1. /\ n = i - 1 /\ DOMAIN segs[p] = 1 .. Len(segs[p])
        /\ segs[p][i].used = {ChunkOf(y) : y \in {z \in held[p] : SegmentId(z) = i - 1}}
    BY <1>2, <1>4, <1>8, Segment DEF IndInv, OffsetsResolve
  <2>2. \A y \in held[p] : SegmentId(y) < Len(segs[p])
    BY <1>8 DEF IndInv, HeldOffsets
  <2>3. {z \in H : SegmentId(z) = i - 1} = {z \in held[p] : SegmentId(z) = i - 1} \union {x}
    BY <1>5, <1>h, <2>1
  <2>4. U = {ChunkOf(y) : y \in {z \in H : SegmentId(z) = i - 1}}
    BY <1>5, <1>u, <2>1, <2>3
  <2>5. \A j \in DOMAIN segs[p] \ {i} :
           {y \in H : SegmentId(y) = j - 1} = {y \in held[p] : SegmentId(y) = j - 1}
    BY <1>3, <1>5, <1>h, <2>1
  <2> QED
    BY <1>5, <1>h, <2>1, <2>2, <2>4, <2>5
<1>9. MovesChunk(p, i, U, H)
  BY <1>2, <1>6, <1>7, <1>8 DEF MovesChunk
<1> QED
  BY <1>2, <1>9, ChunkMoved

(* SegmentManager::deallocate: it finds the segment and the chunk of the offset. *)
LEMMA DeallocateInv ==
    ASSUME IndInv, NEW p \in Process, NEW x \in held[p], Deallocate(p, x)
    PROVE  IndInv'
<1> USE Parts
<1>1. PICK n \in Name, c \in Chunk : x = ChunkOffset(n, c)
  BY DEF IndInv, HeldOffsets
<1>2. SegmentId(x) = n /\ ChunkOf(x) = c /\ n \in Nat
  BY <1>1, Offsets, SizeAssumption DEF Name
<1>h. PICK H \in SUBSET (0 .. SegMod * OffMod - 1) : H = held[p] \ {x}
  OBVIOUS
<1>3. /\ pc[p] = "idle" /\ UNCHANGED <<link, stage, calls, view, orphans, pulled>>
      /\ held' = [held EXCEPT ![p] = H]
      /\ segs' = IF n + 1 \in DOMAIN segs[p]
                 THEN [segs EXCEPT ![p][n + 1].used = @ \ {c}] ELSE segs
  BY <1>2, <1>h DEF Deallocate
<1>4. \A y \in H : \E m \in Name, d \in Chunk : y = ChunkOffset(m, d)
  BY <1>h DEF IndInv, HeldOffsets
<1>5. CASE n + 1 \in DOMAIN segs[p]
  <2>1. PICK i \in DOMAIN segs[p] : i = n + 1
    BY <1>5
  <2>2. segs[p][i].used \subseteq Chunk /\ DOMAIN segs[p] \subseteq Nat
    BY Segment
  <2>3. PICK U \in SUBSET Chunk : U = segs[p][i].used \ {c}
    BY <2>2
  <2>4. SetsUsed(p, i, U)
    BY <1>3, <1>5, <2>1, <2>3 DEF SetsUsed
  <2>5. ASSUME pulled = {}
        PROVE  /\ \A y \in H : SegmentId(y) < Len(segs[p])
               /\ U = {ChunkOf(y) : y \in {z \in H : SegmentId(z) = i - 1}}
               /\ \A j \in DOMAIN segs[p] \ {i} :
                     {y \in H : SegmentId(y) = j - 1} = {y \in held[p] : SegmentId(y) = j - 1}
    <3>1. /\ i - 1 = n
          /\ segs[p][i].used = {ChunkOf(y) : y \in {z \in held[p] : SegmentId(z) = i - 1}}
      <4>1. pc[p] # "drop"
        BY <1>3
      <4>2. segs[p][i].used = {ChunkOf(y) : y \in {z \in held[p] : SegmentId(z) = i - 1}}
        BY <2>5, <4>1 DEF IndInv, OffsetsResolve
      <4> QED
        BY <1>2, <2>1, <4>2
    <3>2. \A y \in held[p] : SegmentId(y) < Len(segs[p])
      BY <2>5 DEF IndInv, HeldOffsets
    <3>3. ASSUME NEW y \in held[p], SegmentId(y) = n, ChunkOf(y) = c PROVE y = x
      <4>1. PICK m \in Name, d \in Chunk : y = ChunkOffset(m, d)
        BY DEF IndInv, HeldOffsets
      <4> QED
        BY <1>1, <3>3, <4>1, Offsets
    <3>4. U = {ChunkOf(y) : y \in {z \in H : SegmentId(z) = i - 1}}
      BY <1>2, <1>h, <2>3, <3>1, <3>3
    <3>5. \A j \in DOMAIN segs[p] \ {i} :
             {y \in H : SegmentId(y) = j - 1} = {y \in held[p] : SegmentId(y) = j - 1}
      BY <1>2, <1>h, <2>1, <2>2
    <3> QED
      BY <1>h, <3>2, <3>4, <3>5
  <2>6. MovesChunk(p, i, U, H)
    BY <1>3, <1>4, <2>4, <2>5 DEF MovesChunk
  <2> QED
    BY <1>3, <2>6, ChunkMoved
<1>6. CASE n + 1 \notin DOMAIN segs[p]
  <2>1. pulled # {}
    <3>1. DOMAIN segs[p] = 1 .. Len(segs[p]) /\ Len(segs[p]) \in Nat
      BY Segment
    <3>2. pulled = {} => n < Len(segs[p])
      BY <1>2 DEF IndInv, HeldOffsets
    <3> QED
      BY <1>2, <1>6, <3>1, <3>2
  <2>2. /\ UNCHANGED <<link, stage, segs, pc, name, obj, view, orphans, pulled>>
        /\ held'[p] = H /\ \A q \in Process \ {p} : held'[q] = held[q]
    BY <1>3, <1>6 DEF calls
  <2>3. SameClaims
    BY <2>2 DEF SameClaims, KeepsClaims
  <2>4. Ownership'
    BY <2>2, <2>3, OwnershipKept
  <2>5. HeldOffsets'
    <3> SUFFICES ASSUME NEW q \in Process, NEW y \in held'[q]
                 PROVE  \E m \in Name, d \in Chunk : y = ChunkOffset(m, d)
      BY <2>1, <2>2 DEF HeldOffsets
    <3>1. CASE q = p
      BY <1>4, <2>2, <3>1
    <3>2. CASE q # p
      BY <2>2, <3>2 DEF IndInv, HeldOffsets
    <3> QED
      BY <3>1, <3>2
  <2>6. OffsetsResolve'
    BY <2>1, <2>2 DEF OffsetsResolve
  <2>7. TypeOK'
    BY <1>3, <2>2 DEF IndInv, TypeOK
  <2>8. CallsKnow'
    BY <1>h, <2>2 DEF IndInv, CallsKnow, Creating
  <2> QED
    BY <2>4, <2>5, <2>6, <2>7, <2>8 DEF IndInv, Ownership
<1> QED
  BY <1>5, <1>6

-----------------------------------------------------------------------------
(* Steps that make, move or end a claim *)

(* A claim says what it claims. *)
LEMMA Claims ==
    ASSUME IndInv, NEW p \in Process, NEW o \in Object, NEW n \in Name, NEW i \in Index(p),
           Claim(p, i, o, n)
    PROVE  /\ o \notin orphans /\ (n \notin pulled => link[n] = o)
           /\ \A m \in Name : link[m] = o => m = n
           /\ \A q \in Process, m \in Name : \A j \in Index(q) : Claim(q, j, o, m) => q = p /\ j = i
<1>1. /\ o \notin orphans /\ (n \notin pulled => link[n] = o)
      /\ \A m \in Name : link[m] = o => m = n
  BY DEF IndInv, ClaimedIsLinked
<1>2. ASSUME NEW q \in Process, NEW m \in Name, NEW j \in Index(q), Claim(q, j, o, m)
      PROVE  q = p /\ j = i
  BY <1>2 DEF IndInv, ClaimedOnce
<1> QED
  BY <1>1, <1>2

(* Where a claim comes from: nobody else's changes, and p's are among those it had, if
   under another index. *)
LEMMA ClaimedOnceKept ==
    ASSUME IndInv, NEW p \in Process, \A q \in Process \ {p} : KeepsClaims(q), NEW f,
           \A i \in Index(p)', o \in Object, n \in Name :
               Claim(p, i, o, n)' => f[i] \in Index(p) /\ Claim(p, f[i], o, n),
           \A i, j \in Index(p)' : \A o \in Object, m, n \in Name :
               Claim(p, i, o, m)' /\ Claim(p, j, o, n)' /\ f[i] = f[j] => i = j
    PROVE  ClaimedOnce'
<1>1. \A q \in Process \ {p} :
         /\ Index(q)' = Index(q)
         /\ \A i \in Index(q), o \in Object, n \in Name : Claim(q, i, o, n)' <=> Claim(q, i, o, n)
  BY ClaimsSame
<1> SUFFICES ASSUME NEW q \in Process, NEW r \in Process, NEW o \in Object,
                    NEW i \in Index(q)', NEW j \in Index(r)', NEW m \in Name, NEW n \in Name,
                    Claim(q, i, o, m)', Claim(r, j, o, n)'
             PROVE  q = r /\ i = j
  BY DEF ClaimedOnce
<1>2. CASE q # p /\ r # p
  BY <1>1, <1>2, Claims
<1>3. CASE q = p /\ r # p
  <2>1. f[i] \in Index(p) /\ Claim(p, f[i], o, m) /\ j \in Index(r) /\ Claim(r, j, o, n)
    BY <1>1, <1>3
  <2> QED
    BY <1>3, <2>1, Claims
<1>4. CASE q # p /\ r = p
  <2>1. f[j] \in Index(p) /\ Claim(p, f[j], o, n) /\ i \in Index(q) /\ Claim(q, i, o, m)
    BY <1>1, <1>4
  <2> QED
    BY <1>4, <2>1, Claims
<1>5. CASE q = p /\ r = p
  <2>1. /\ f[j] \in Index(p) /\ Claim(p, f[j], o, n)
        /\ f[i] \in Index(p) /\ Claim(p, f[i], o, m)
    BY <1>5
  <2>2. f[i] = f[j]
    BY <2>1, Claims
  <2> QED
    BY <1>5, <2>2
<1> QED
  BY <1>2, <1>3, <1>4, <1>5

(* A process that gives up some of its objects leaves those that have a name. *)
LEMMA Leaves ==
    ASSUME IndInv, NEW p \in Process, \A q \in Process \ {p} : KeepsClaims(q),
           UNCHANGED <<link, pulled>>, NEW L \in SUBSET Object,
           orphans' = orphans \union (L \intersect {link[n] : n \in Name}),
           \A o \in L : \E n \in Name : \E i \in Index(p) : Claim(p, i, o, n),
           \A i \in Index(p), o \in Object, n \in Name :
               Claim(p, i, o, n) => o \in L \/ (i \in Index(p)' /\ Claim(p, i, o, n)'),
           \A i \in Index(p)', o \in Object, n \in Name :
               Claim(p, i, o, n)' => i \in Index(p) /\ Claim(p, i, o, n) /\ o \notin L
    PROVE  ClaimedOnce' /\ ClaimedIsLinked' /\ LinkedIsClaimed'
<1> USE Parts
<1>1. \A q \in Process \ {p} :
         /\ Index(q)' = Index(q)
         /\ \A i \in Index(q), o \in Object, n \in Name : Claim(q, i, o, n)' <=> Claim(q, i, o, n)
  BY ClaimsSame
<1>2. \A q \in Process : \A i \in Index(q)', o \in Object, n \in Name :
         Claim(q, i, o, n)' => i \in Index(q) /\ Claim(q, i, o, n)
  <2> SUFFICES ASSUME NEW q \in Process, NEW i \in Index(q)', NEW o \in Object, NEW n \in Name,
                      Claim(q, i, o, n)'
               PROVE  i \in Index(q) /\ Claim(q, i, o, n)
    OBVIOUS
  <2>1. CASE q = p
    BY <2>1
  <2>2. CASE q # p
    BY <1>1, <2>2
  <2> QED
    BY <2>1, <2>2
<1>3. ClaimedOnce'
  BY <1>2 DEF IndInv, ClaimedOnce
<1>4. ClaimedIsLinked'
  <2> SUFFICES ASSUME NEW q \in Process, NEW o \in Object, NEW n \in Name, NEW i \in Index(q)',
                      Claim(q, i, o, n)'
               PROVE  o \notin orphans' /\ (n \notin pulled => link[n] = o)
                      /\ \A m \in Name : link[m] = o => m = n
    BY DEF ClaimedIsLinked
  <2>1. i \in Index(q) /\ Claim(q, i, o, n)
    BY <1>2
  <2>2. o \notin L
    <3>1. CASE q = p
      BY <3>1
    <3>2. CASE q # p
      <4> SUFFICES ASSUME o \in L PROVE FALSE
        OBVIOUS
      <4>1. PICK m \in Name, j \in Index(p) : Claim(p, j, o, m)
        OBVIOUS
      <4> QED
        BY <2>1, <3>2, <4>1, Claims
    <3> QED
      BY <3>1, <3>2
  <2> QED
    BY <2>1, <2>2, Claims
<1>5. LinkedIsClaimed'
  <2>1. ASSUME NEW n \in Name, link[n] \in Object \ orphans'
        PROVE  \E q \in Process : \E i \in Index(q)' : Claim(q, i, link[n], n)'
    <3>1. PICK o \in Object : o = link[n] /\ o \notin orphans /\ o \notin L
      BY <2>1
    <3>c. \E q \in Process : \E i \in Index(q) : Claim(q, i, link[n], n)
      BY <3>1 DEF IndInv, LinkedIsClaimed
    <3>d. PICK q \in Process : \E i \in Index(q) : Claim(q, i, o, n)
      BY <3>1, <3>c
    <3>2. PICK i \in Index(q) : Claim(q, i, o, n)
      BY <3>d
    <3>3. i \in Index(q)' /\ Claim(q, i, o, n)'
      <4>1. CASE q = p
        BY <3>1, <3>2, <4>1
      <4>2. CASE q # p
        BY <1>1, <3>2, <4>2
      <4> QED
        BY <4>1, <4>2
    <3> QED
      BY <3>1, <3>3
  <2>2. \A m, n \in Name : link[m] = link[n] /\ link[n] # NoObject => m = n
    BY DEF IndInv, LinkedIsClaimed
  <2>3. \A o \in orphans' : \E n \in Name : link[n] = o
    BY DEF IndInv, LinkedIsClaimed
  <2> QED
    BY <2>1, <2>2, <2>3 DEF LinkedIsClaimed
<1> QED
  BY <1>3, <1>4, <1>5

(* Removing a name, of an object that nobody will have under it. *)
LEMMA UnlinkKeeps ==
    ASSUME IndInv, NEW p \in Process, \A q \in Process \ {p} : KeepsClaims(q),
           NEW n \in Name, Unlinked(n), pulled \subseteq pulled', NEW f,
           \A i \in Index(p)', o \in Object, m \in Name :
               Claim(p, i, o, m)' => f[i] \in Index(p) /\ Claim(p, f[i], o, m),
           \A i \in Index(p), o \in Object, m \in Name \ {n} :
               Claim(p, i, o, m) => \E j \in Index(p)' : Claim(p, j, o, m)',
           n \notin pulled' => \A q \in Process : \A i \in Index(q)', o \in Object :
                                   o = link[n] => ~Claim(q, i, o, n)'
    PROVE  ClaimedIsLinked' /\ LinkedIsClaimed'
<1> USE Parts
<1>1. \A q \in Process \ {p} :
         /\ Index(q)' = Index(q)
         /\ \A i \in Index(q), o \in Object, m \in Name : Claim(q, i, o, m)' <=> Claim(q, i, o, m)
  BY ClaimsSame
<1>2. /\ link' = [link EXCEPT ![n] = NoObject] /\ orphans' = orphans \ {link[n]}
      /\ link'[n] = NoObject /\ \A m \in Name \ {n} : link'[m] = link[m]
  BY DEF Unlinked
<1>3. ClaimedIsLinked'
  <2> SUFFICES ASSUME NEW q \in Process, NEW o \in Object, NEW m \in Name, NEW i \in Index(q)',
                      Claim(q, i, o, m)'
               PROVE  o \notin orphans' /\ (m \notin pulled' => link'[m] = o)
                      /\ \A k \in Name : link'[k] = o => k = m
    BY DEF ClaimedIsLinked
  <2>1. PICK j \in Index(q) : Claim(q, j, o, m)
    <3>1. CASE q = p
      BY <3>1
    <3>2. CASE q # p
      BY <1>1, <3>2
    <3> QED
      BY <3>1, <3>2
  <2>2. /\ o \notin orphans /\ (m \notin pulled => link[m] = o)
        /\ \A k \in Name : link[k] = o => k = m
    BY <2>1, Claims
  <2>3. ASSUME m \notin pulled' PROVE link'[m] = o
    <3>1. link[m] = o
      BY <2>2, <2>3
    <3>2. m # n
      BY <2>3, <3>1
    <3> QED
      BY <1>2, <3>1, <3>2
  <2> QED
    BY <1>2, <2>2, <2>3
<1>4. LinkedIsClaimed'
  <2>1. ASSUME NEW m \in Name, link'[m] \in Object \ orphans'
        PROVE  \E q \in Process : \E i \in Index(q)' : Claim(q, i, link[m], m)'
    <3>1. m # n /\ link'[m] = link[m]
      BY <1>2, <2>1
    <3>2. link[m] # link[n]
      BY <2>1, <3>1 DEF IndInv, LinkedIsClaimed
    <3>3. PICK o \in Object : o = link[m] /\ o \notin orphans
      BY <1>2, <2>1, <3>1, <3>2
    <3>c. PICK q \in Process : \E i \in Index(q) : Claim(q, i, o, m)
      BY <3>3 DEF IndInv, LinkedIsClaimed
    <3>4. PICK i \in Index(q) : Claim(q, i, o, m)
      BY <3>c
    <3>5. \E j \in Index(q)' : Claim(q, j, o, m)'
      <4>1. CASE q = p
        BY <3>1, <3>4, <4>1
      <4>2. CASE q # p
        BY <1>1, <3>4, <4>2
      <4> QED
        BY <4>1, <4>2
    <3> QED
      BY <3>1, <3>3, <3>5
  <2>2. \A m, k \in Name : link'[m] = link'[k] /\ link'[k] # NoObject => m = k
    BY <1>2 DEF IndInv, LinkedIsClaimed
  <2>3. \A o \in orphans' : \E m \in Name : link'[m] = o
    BY <1>2 DEF IndInv, LinkedIsClaimed
  <2> QED
    BY <2>1, <2>2, <2>3 DEF LinkedIsClaimed
<1> QED
  BY <1>3, <1>4

(* SharedMemory::unlink. *)
LEMMA UnlinkInv ==
    ASSUME IndInv, NEW p \in Process, NEW n \in Name, Unlink(p, n)
    PROVE  IndInv'
<1> USE Parts
<1>1. /\ Unlinked(n) /\ pulled' = pulled \union {n}
      /\ UNCHANGED <<stage, pc, name, obj, segs, held, view>>
  BY DEF Unlink, calls
<1>2. SameClaims
  BY <1>1 DEF SameClaims, KeepsClaims
<1>3. \A q \in Process :
         /\ Index(q)' = Index(q)
         /\ \A i \in Index(q), o \in Object, m \in Name : Claim(q, i, o, m)' <=> Claim(q, i, o, m)
  BY <1>2, ClaimsSame DEF SameClaims
<1>4. ClaimedOnce'
  BY <1>3 DEF IndInv, ClaimedOnce
<1>5. ClaimedIsLinked' /\ LinkedIsClaimed'
  <2> DEFINE f == [i \in Index(p) |-> i]
  <2>1. \A i \in Index(p)', o \in Object, m \in Name :
           Claim(p, i, o, m)' => f[i] \in Index(p) /\ Claim(p, f[i], o, m)
    BY <1>3
  <2> HIDE DEF f
  <2>2. \A q \in Process \ {p} : KeepsClaims(q)
    BY <1>2 DEF SameClaims
  <2>3. n \in pulled' /\ pulled \subseteq pulled'
    BY <1>1
  <2>4. \A i \in Index(p), o \in Object, m \in Name \ {n} :
           Claim(p, i, o, m) => \E j \in Index(p)' : Claim(p, j, o, m)'
    BY <1>3
  <2> QED
    BY <1>1, <2>1, <2>2, <2>3, <2>4, UnlinkKeeps
<1>6. TypeOK'
  BY <1>1 DEF IndInv, TypeOK, Unlinked
<1>7. CallsKnow' /\ HeldOffsets' /\ OffsetsResolve' /\ SegmentsBuilt'
  BY <1>1 DEF IndInv, CallsKnow, HeldOffsets, OffsetsResolve, SegmentsBuilt
<1> QED
  BY <1>4, <1>5, <1>6, <1>7 DEF IndInv

(* A create that fails half-way leaves its name. *)
LEMMA CreateFailsInv == ASSUME IndInv, NEW p \in Process, CreateFails(p) PROVE IndInv'
<1> USE Parts
<1>1. /\ pc[p] \in Creating /\ UNCHANGED <<link, stage, segs, held, view, pulled>>
      /\ orphans' = orphans \union ({obj[p]} \intersect {link[n] : n \in Name})
      /\ pc' = [pc EXCEPT ![p] = "idle"] /\ name' = [name EXCEPT ![p] = 0]
      /\ obj' = [obj EXCEPT ![p] = NoObject]
  BY DEF CreateFails, Return, Creating
<1>2. obj[p] \in Object /\ name[p] \in Name /\ Claim(p, 0, obj[p], name[p])
  BY <1>1, CreatingIsNew
<1>3. \A q \in Process \ {p} : KeepsClaims(q)
  BY <1>1 DEF KeepsClaims
<1>4. Index(p)' = Index(p) /\ 0 \in Index(p) /\ pc'[p] \notin Creating
  BY <1>1 DEF Index, Creating
<1>5. PICK L \in SUBSET Object : L = {obj[p]}
  BY <1>2
<1>6. ASSUME NEW i \in Index(p), NEW o \in Object, NEW n \in Name, Claim(p, i, o, n)
      PROVE  o \in L \/ (i \in Index(p)' /\ Claim(p, i, o, n)')
  BY <1>1, <1>4, <1>5, <1>6 DEF Claim
<1>7. ASSUME NEW i \in Index(p)', NEW o \in Object, NEW n \in Name, Claim(p, i, o, n)'
      PROVE  i \in Index(p) /\ Claim(p, i, o, n) /\ o \notin L
  <2>1. i \in DOMAIN segs[p] /\ o = segs[p][i].obj /\ n = segs[p][i].id
    BY <1>1, <1>4, <1>7 DEF Claim
  <2>2. o # obj[p]
    BY <1>1, <2>1, CreatingIsNew
  <2> QED
    BY <1>4, <1>5, <2>1, <2>2 DEF Claim
<1>8. \A o \in L : \E n \in Name : \E i \in Index(p) : Claim(p, i, o, n)
  BY <1>2, <1>4, <1>5
<1>9. ClaimedOnce' /\ ClaimedIsLinked' /\ LinkedIsClaimed'
  <2>1. UNCHANGED <<link, pulled>> /\ orphans' = orphans \union (L \intersect {link[n] : n \in Name})
    BY <1>1, <1>5
  <2> QED
    BY <1>3, <1>6, <1>7, <1>8, <2>1, Leaves
<1>10. TypeOK'
  <2>1. orphans' \subseteq Object
    BY <1>1, <1>2
  <2> QED
    BY <1>1, <2>1, Names DEF IndInv, TypeOK
<1>11. CallsKnow'
  BY <1>1 DEF IndInv, CallsKnow, Creating
<1>12. HeldOffsets' /\ OffsetsResolve'
  <2>1. \A q \in Process : pc'[q] # "drop" => pc[q] # "drop"
    BY <1>1 DEF Creating
  <2> QED
    BY <1>1, <2>1, OffsetsKept
<1>13. SegmentsBuilt'
  BY <1>1 DEF IndInv, SegmentsBuilt
<1> QED
  BY <1>9, <1>10, <1>11, <1>12, <1>13 DEF IndInv

(* A process that dies leaves all its names. *)
LEMMA CrashInv == ASSUME IndInv, NEW p \in Process, Crash(p) PROVE IndInv'
<1> USE Parts
<1> DEFINE M == Owned(p) \union (IF pc[p] \in Creating THEN {obj[p]} ELSE {})
<1>1. /\ UNCHANGED <<link, stage, pulled>>
      /\ orphans' = orphans \union (M \intersect {link[n] : n \in Name})
      /\ pc' = [pc EXCEPT ![p] = "idle"] /\ name' = [name EXCEPT ![p] = 0]
      /\ obj' = [obj EXCEPT ![p] = NoObject] /\ segs' = [segs EXCEPT ![p] = <<>>]
      /\ held' = [held EXCEPT ![p] = {}] /\ view' = [view EXCEPT ![p] = NoObject]
  BY DEF Crash, Return
<1>2. \A o \in M : o \in Object /\ \E n \in Name : \E i \in Index(p) : Claim(p, i, o, n)
  <2> SUFFICES ASSUME NEW o \in M
               PROVE  o \in Object /\ \E n \in Name : \E i \in Index(p) : Claim(p, i, o, n)
    OBVIOUS
  <2>1. CASE pc[p] \in Creating /\ o = obj[p]
    BY <2>1, CreatingIsNew DEF Index
  <2>2. CASE o \in Owned(p)
    <3>1. PICK i \in DOMAIN segs[p] : o = segs[p][i].obj
      BY <2>2 DEF Owned
    <3>2. segs[p][i].id \in Name /\ o \in Object
      BY <3>1, Segment
    <3>3. Claim(p, i, o, segs[p][i].id) /\ i \in Index(p)
      BY <3>1 DEF Claim, Index
    <3> QED
      BY <3>2, <3>3
  <2> QED
    BY <2>1, <2>2
<1>3. \A i \in Index(p), o \in Object, n \in Name : Claim(p, i, o, n) => o \in M
  BY DEF Claim, Owned
<1> HIDE DEF M
<1>4. PICK L \in SUBSET Object : L = M
  BY <1>2
<1>5. \A q \in Process \ {p} : KeepsClaims(q)
  BY <1>1 DEF KeepsClaims
<1>6. \A i \in Index(p)', o \in Object, n \in Name : ~Claim(p, i, o, n)'
  <2>1. segs'[p] = <<>> /\ pc'[p] = "idle" /\ DOMAIN segs'[p] = {}
    BY <1>1
  <2> QED
    BY <2>1 DEF Claim, Creating
<1>7. ClaimedOnce' /\ ClaimedIsLinked' /\ LinkedIsClaimed'
  <2>1. UNCHANGED <<link, pulled>> /\ orphans' = orphans \union (L \intersect {link[n] : n \in Name})
    BY <1>1, <1>4
  <2>2. \A o \in L : \E n \in Name : \E i \in Index(p) : Claim(p, i, o, n)
    BY <1>2, <1>4
  <2>3. \A i \in Index(p), o \in Object, n \in Name :
           Claim(p, i, o, n) => o \in L \/ (i \in Index(p)' /\ Claim(p, i, o, n)')
    BY <1>3, <1>4
  <2>4. \A i \in Index(p)', o \in Object, n \in Name :
           Claim(p, i, o, n)' => i \in Index(p) /\ Claim(p, i, o, n) /\ o \notin L
    BY <1>6
  <2> QED
    BY <1>5, <2>1, <2>2, <2>3, <2>4, Leaves
<1>8. TypeOK'
  <2>1. orphans' \subseteq Object
    BY <1>1, <1>2
  <2> DEFINE R == [obj : Object, id : Name, used : SUBSET Chunk]
  <2>a. segs \in [Process -> Seq(R)]
    OBVIOUS
  <2> HIDE DEF R
  <2>b. segs' \in [Process -> Seq(R)]
    BY <1>1, <2>a
  <2>2. segs' \in [Process -> Seq([obj : Object, id : Name, used : SUBSET Chunk])]
    BY <2>b DEF R
  <2> QED
    BY <1>1, <2>1, <2>2, Names DEF IndInv, TypeOK
<1>9. CallsKnow'
  BY <1>1 DEF IndInv, CallsKnow, Creating
<1>10. HeldOffsets' /\ OffsetsResolve' /\ SegmentsBuilt'
  <2>1. /\ held'[p] = {} /\ segs'[p] = <<>> /\ UNCHANGED <<pulled, stage>>
        /\ \A q \in Process \ {p} : held'[q] = held[q] /\ segs'[q] = segs[q] /\ pc'[q] = pc[q]
    BY <1>1
  <2>2. HeldOffsets'
    BY <2>1 DEF IndInv, HeldOffsets
  <2>3. DOMAIN segs'[p] = {}
    BY <2>1
  <2>4. OffsetsResolve'
    <3> SUFFICES ASSUME pulled = {}, NEW q \in Process, pc'[q] # "drop", NEW i \in DOMAIN segs'[q]
                 PROVE  /\ segs'[q][i].id = i - 1
                        /\ segs'[q][i].used = {ChunkOf(x) : x \in {y \in held'[q] : SegmentId(y) = i - 1}}
                        /\ \A c \in segs'[q][i].used :
                              HEADER_SIZE + (c + 1) * AlignedChunkSize <= TotalSize
      BY <2>1 DEF OffsetsResolve
    <3>1. q # p
      BY <2>3
    <3> QED
      BY <2>1, <3>1 DEF IndInv, OffsetsResolve
  <2>5. SegmentsBuilt'
    <3> SUFFICES ASSUME NEW q \in Process, NEW i \in DOMAIN segs'[q]
                 PROVE  stage[segs'[q][i].obj] = "built"
      BY <2>1 DEF SegmentsBuilt
    <3>1. q # p
      BY <2>3
    <3> QED
      BY <2>1, <3>1 DEF IndInv, SegmentsBuilt
  <2> QED
    BY <2>2, <2>4, <2>5
<1> QED
  BY <1>7, <1>8, <1>9, <1>10 DEF IndInv

(* shm_open with O_EXCL makes an object that nobody has, under a name that nothing has. *)
LEMMA ShmCreateInv == ASSUME IndInv, NEW p \in Process, ShmCreate(p) PROVE IndInv'
<1> USE Parts
<1>1. PICK o \in Object : /\ ~InUse(o) /\ link' = [link EXCEPT ![name[p]] = o]
                          /\ stage' = [stage EXCEPT ![o] = "new"] /\ obj' = [obj EXCEPT ![p] = o]
  BY DEF ShmCreate
<1>2. /\ pc[p] = "excl" /\ link[name[p]] = NoObject /\ pc' = [pc EXCEPT ![p] = "truncate"]
      /\ UNCHANGED <<name, segs, held, view, orphans, pulled>>
  BY DEF ShmCreate
<1>3. PICK n \in Name : n = name[p]
  OBVIOUS
<1>4. /\ link'[n] = o /\ \A m \in Name \ {n} : link'[m] = link[m]
      /\ link[n] = NoObject /\ \A m \in Name : link[m] # o
  BY <1>1, <1>2, <1>3 DEF InUse
<1>5. /\ \A q \in Process \ {p} : KeepsClaims(q)
      /\ \A q \in Process : Index(q)' = Index(q) /\ 0 \in Index(q)
  BY <1>1, <1>2 DEF KeepsClaims, Index
<1>6. \A q \in Process, m \in Name : \A i \in Index(q) : ~Claim(q, i, o, m)
  BY <1>1 DEF Claim, InUse, Owned
<1>7. \A i \in Index(p), u \in Object, m \in Name :
         /\ Claim(p, i, u, m) => Claim(p, i, u, m)'
         /\ Claim(p, i, u, m)' => (i = 0 /\ u = o /\ m = n) \/ Claim(p, i, u, m)
  BY <1>1, <1>2, <1>3 DEF Claim, Creating
<1>8. Claim(p, 0, o, n)'
  BY <1>1, <1>2, <1>3 DEF Claim, Creating
<1>9. \A q \in Process \ {p} : \A i \in Index(q), u \in Object, m \in Name :
         Claim(q, i, u, m)' <=> Claim(q, i, u, m)
  BY <1>5, ClaimsSame
<1>10. ASSUME NEW q \in Process, NEW i \in Index(q), NEW u \in Object, NEW m \in Name, Claim(q, i, u, m)'
       PROVE  (q = p /\ i = 0 /\ u = o /\ m = n) \/ (u # o /\ Claim(q, i, u, m))
  <2>1. CASE q = p
    BY <1>6, <1>7, <1>10, <2>1
  <2>2. CASE q # p
    BY <1>6, <1>9, <1>10, <2>2
  <2> QED
    BY <2>1, <2>2
<1>11. ClaimedOnce'
  <2> SUFFICES ASSUME NEW q \in Process, NEW r \in Process, NEW u \in Object,
                      NEW i \in Index(q), NEW j \in Index(r), NEW m \in Name, NEW k \in Name,
                      Claim(q, i, u, m)', Claim(r, j, u, k)'
               PROVE  q = r /\ i = j
    BY <1>5 DEF ClaimedOnce
  <2>1. CASE u = o
    BY <1>10, <2>1
  <2>2. CASE u # o
    <3>1. Claim(q, i, u, m) /\ Claim(r, j, u, k)
      BY <1>10, <2>2
    <3> QED
      BY <3>1, Claims
  <2> QED
    BY <2>1, <2>2
<1>12. o \notin orphans
  BY <1>4 DEF IndInv, LinkedIsClaimed
<1>13. ClaimedIsLinked'
  <2> SUFFICES ASSUME NEW q \in Process, NEW u \in Object, NEW m \in Name, NEW i \in Index(q),
                      Claim(q, i, u, m)'
               PROVE  u \notin orphans /\ (m \notin pulled => link'[m] = u)
                      /\ \A k \in Name : link'[k] = u => k = m
    BY <1>2, <1>5 DEF ClaimedIsLinked
  <2>1. CASE u = o
    BY <1>4, <1>10, <1>12, <2>1
  <2>2. CASE u # o
    <3>1. Claim(q, i, u, m)
      BY <1>10, <2>2
    <3>2. /\ u \notin orphans /\ (m \notin pulled => link[m] = u)
          /\ \A k \in Name : link[k] = u => k = m
      BY <3>1, Claims
    <3> QED
      BY <1>4, <2>2, <3>2
  <2> QED
    BY <2>1, <2>2
<1>14. LinkedIsClaimed'
  <2>1. ASSUME NEW m \in Name, link'[m] \in Object \ orphans
        PROVE  \E q \in Process : \E i \in Index(q) : Claim(q, i, link[m], m)'
    <3>1. CASE m = n
      BY <1>4, <1>5, <1>8, <3>1
    <3>2. CASE m # n
      <4>1. PICK u \in Object : u = link[m] /\ u = link'[m] /\ u \notin orphans
        BY <1>4, <2>1, <3>2
      <4>c. \E q \in Process : \E i \in Index(q) : Claim(q, i, link[m], m)
        BY <4>1 DEF IndInv, LinkedIsClaimed
      <4>2. PICK q \in Process : \E i \in Index(q) : Claim(q, i, u, m)
        BY <4>1, <4>c
      <4>3. PICK i \in Index(q) : Claim(q, i, u, m)
        BY <4>2
      <4>4. Claim(q, i, u, m)'
        <5>1. CASE q = p
          BY <1>7, <4>3, <5>1
        <5>2. CASE q # p
          BY <1>9, <4>3, <5>2
        <5> QED
          BY <5>1, <5>2
      <4> QED
        BY <4>1, <4>4
    <3> QED
      BY <3>1, <3>2
  <2>2. \A m, k \in Name : link'[m] = link'[k] /\ link'[k] # NoObject => m = k
    <3>1. \A m, k \in Name : link[m] = link[k] /\ link[k] # NoObject => m = k
      BY DEF IndInv, LinkedIsClaimed
    <3> QED
      BY <1>4, <3>1
  <2>3. \A u \in orphans : \E m \in Name : link'[m] = u
    BY <1>4, <1>12 DEF IndInv, LinkedIsClaimed
  <2> QED
    BY <1>2, <1>5, <2>1, <2>2, <2>3 DEF LinkedIsClaimed
<1>15. TypeOK'
  BY <1>1, <1>2 DEF IndInv, TypeOK, Creating
<1>16. CallsKnow'
  BY <1>1, <1>2 DEF IndInv, CallsKnow, Creating
<1>17. HeldOffsets' /\ OffsetsResolve'
  BY <1>2, OffsetsKept
<1>18. SegmentsBuilt'
  <2> SUFFICES ASSUME NEW q \in Process, NEW i \in DOMAIN segs[q]
               PROVE  stage'[segs[q][i].obj] = "built"
    BY <1>2 DEF SegmentsBuilt
  <2>1. segs[q][i].obj # o /\ segs[q][i].obj \in Object
    BY <1>1, Segment DEF InUse, Owned
  <2> QED
    BY <1>1, <2>1 DEF IndInv, SegmentsBuilt
<1> QED
  BY <1>11, <1>13, <1>14, <1>15, <1>16, <1>17, <1>18 DEF IndInv

(* SegmentManager::drop removes the names of its own segments: nobody else has them. *)
LEMMA DropSegmentInv == ASSUME IndInv, NEW p \in Process, DropSegment(p) PROVE IndInv'
<1> USE Parts
<1> DEFINE R == [obj : Object, id : Name, used : SUBSET Chunk]
<1>1. /\ pc[p] = "drop" /\ Unlinked(Head(segs[p]).id) /\ segs' = [segs EXCEPT ![p] = Tail(segs[p])]
      /\ UNCHANGED <<stage, held, view, pulled>>
  BY DEF DropSegment
<1>2. segs[p] # <<>> /\ held[p] = {} /\ obj[p] = NoObject
  BY <1>1 DEF IndInv, CallsKnow, Creating
<1>3. segs \in [Process -> Seq(R)]
  OBVIOUS
<1> HIDE DEF R
<1>4. /\ DOMAIN segs[p] = 1 .. Len(segs[p]) /\ Len(segs[p]) \in Nat \ {0} /\ 1 \in DOMAIN segs[p]
      /\ segs'[p] \in Seq(R) /\ Len(segs'[p]) = Len(segs[p]) - 1
      /\ DOMAIN segs'[p] = 1 .. Len(segs[p]) - 1
      /\ \A i \in DOMAIN segs'[p] : segs'[p][i] = segs[p][i + 1]
      /\ \A q \in Process \ {p} : segs'[q] = segs[q]
      /\ segs' \in [Process -> Seq(R)]
  BY <1>1, <1>2, <1>3
<1>5. PICK n \in Name, u \in Object : n = segs[p][1].id /\ u = segs[p][1].obj
  BY <1>4, Segment
<1>6. Unlinked(n) /\ Claim(p, 1, u, n) /\ 1 \in Index(p)
  BY <1>1, <1>2, <1>3, <1>4, <1>5 DEF Claim, Index
<1>7. \/ /\ Len(segs[p]) = 1 /\ pc' = [pc EXCEPT ![p] = "idle"] /\ name' = [name EXCEPT ![p] = 0]
         /\ obj' = [obj EXCEPT ![p] = NoObject]
      \/ Len(segs[p]) # 1 /\ UNCHANGED <<pc, name, obj>>
  BY DEF DropSegment, Return, calls
<1>8. /\ pc'[p] \in {"idle", "drop"} /\ (pc'[p] = "idle" <=> Len(segs[p]) = 1)
      /\ \A q \in Process \ {p} : pc'[q] = pc[q] /\ name'[q] = name[q] /\ obj'[q] = obj[q]
  BY <1>1, <1>7
<1>9. \A q \in Process \ {p} : KeepsClaims(q)
  BY <1>4, <1>8 DEF KeepsClaims
<1> DEFINE f == [i \in Nat |-> IF i = 0 THEN 0 ELSE i + 1]
<1>10. /\ \A i \in Index(p)', o \in Object, m \in Name :
             Claim(p, i, o, m)' => f[i] \in Index(p) \ {1} /\ Claim(p, f[i], o, m)
       /\ \A i, j \in Index(p)' : f[i] = f[j] => i = j
  <2>1. ASSUME NEW i \in Index(p)', NEW o \in Object, NEW m \in Name, Claim(p, i, o, m)'
        PROVE  f[i] \in Index(p) \ {1} /\ Claim(p, f[i], o, m)
    <3>1. i \in DOMAIN segs'[p] /\ o = segs'[p][i].obj /\ m = segs'[p][i].id
      BY <1>8, <2>1 DEF Claim, Creating
    <3>2. i + 1 \in DOMAIN segs[p] /\ i \in Nat /\ i # 0
      BY <1>4, <3>1
    <3>3. f[i] = i + 1 /\ i + 1 # 1
      BY <3>2
    <3> HIDE DEF f
    <3>4. segs'[p][i] = segs[p][i + 1]
      BY <1>4, <3>1
    <3>5. Claim(p, i + 1, o, m) /\ i + 1 \in Index(p)
      BY <3>1, <3>2, <3>4 DEF Claim, Index
    <3> QED
      BY <3>3, <3>5
  <2>2. ASSUME NEW i \in Index(p)', NEW j \in Index(p)', f[i] = f[j] PROVE i = j
    <3>1. i \in Nat /\ j \in Nat
      BY <1>4 DEF Index
    <3> QED
      BY <2>2, <3>1
  <2> QED
    BY <2>1, <2>2
<1>11. \A i \in Index(p), o \in Object, m \in Name \ {n} :
          Claim(p, i, o, m) => \E j \in Index(p)' : Claim(p, j, o, m)'
  <2> SUFFICES ASSUME NEW i \in Index(p), NEW o \in Object, NEW m \in Name \ {n}, Claim(p, i, o, m)
               PROVE  \E j \in Index(p)' : Claim(p, j, o, m)'
    OBVIOUS
  <2>1. i \in DOMAIN segs[p] /\ o = segs[p][i].obj /\ m = segs[p][i].id /\ i # 1
    BY <1>1, <1>5 DEF Claim, Creating
  <2>2. i - 1 \in DOMAIN segs'[p] /\ segs'[p][i - 1] = segs[p][i]
    BY <1>4, <2>1
  <2>3. i - 1 \in Index(p)' /\ Claim(p, i - 1, o, m)'
    BY <2>1, <2>2 DEF Claim, Index
  <2> QED
    BY <2>3
<1> HIDE DEF f
<1>12. ClaimedOnce'
  BY <1>9, <1>10, ClaimedOnceKept
<1>13. ASSUME n \notin pulled, NEW q \in Process, NEW i \in Index(q)', NEW o \in Object,
              o = link[n], Claim(q, i, o, n)'
       PROVE  FALSE
  <2>1. o = u
    BY <1>5, <1>6, <1>13, Claims
  <2>2. CASE q = p
    <3>1. f[i] \in Index(p) \ {1} /\ Claim(p, f[i], u, n)
      BY <1>10, <1>13, <2>1, <2>2
    <3> QED
      BY <1>5, <1>6, <3>1, Claims
  <2>3. CASE q # p
    <3>1. i \in Index(q) /\ Claim(q, i, u, n)
      BY <1>9, <1>13, <2>1, <2>3, ClaimsSame
    <3> QED
      BY <1>5, <1>6, <2>3, <3>1, Claims
  <2> QED
    BY <2>2, <2>3
<1>14. ClaimedIsLinked' /\ LinkedIsClaimed'
  <2>1. pulled \subseteq pulled' /\
        (n \notin pulled' => \A q \in Process : \A i \in Index(q)', o \in Object :
                                o = link[n] => ~Claim(q, i, o, n)')
    BY <1>1, <1>13
  <2>2. \A i \in Index(p)', o \in Object, m \in Name :
           Claim(p, i, o, m)' => f[i] \in Index(p) /\ Claim(p, f[i], o, m)
    BY <1>10
  <2> QED
    BY <1>6, <1>9, <1>11, <2>1, <2>2, UnlinkKeeps
<1>15. TypeOK'
  <2>1. segs' \in [Process -> Seq([obj : Object, id : Name, used : SUBSET Chunk])]
    BY <1>4 DEF R
  <2>2. link' \in [Name -> Object \union {NoObject}] /\ orphans' \subseteq Object
    BY <1>6 DEF Unlinked
  <2>3. /\ pc' \in [Process -> {"idle", "excl", "drop", "open", "stat", "read"} \union Creating]
        /\ name' \in [Process -> Name] /\ obj' \in [Process -> Object \union {NoObject}]
    BY <1>7, Names
  <2> QED
    BY <1>1, <2>1, <2>2, <2>3 DEF TypeOK
<1>16. CallsKnow'
  <2> SUFFICES ASSUME NEW q \in Process
               PROVE  /\ obj'[q] # NoObject <=> pc'[q] \in Creating \union {"stat", "read"}
                      /\ pc'[q] \in {"excl"} \union Creating => name'[q] = Len(segs'[q]) % SegMod
                      /\ pc'[q] = "drop" => segs'[q] # <<>> /\ held'[q] = {}
    BY DEF CallsKnow, Creating
  <2>1. CASE q # p
    BY <1>1, <1>4, <1>8, <2>1 DEF IndInv, CallsKnow, Creating
  <2>2. CASE q = p
    <3>1. obj'[p] = NoObject /\ held'[p] = {}
      BY <1>1, <1>2, <1>7
    <3>2. pc'[p] = "drop" => segs'[p] # <<>>
      BY <1>4, <1>8
    <3> QED
      BY <1>8, <2>2, <3>1, <3>2 DEF Creating
  <2> QED
    BY <2>1, <2>2
<1>17. HeldOffsets'
  BY <1>1, <1>2, <1>4 DEF IndInv, HeldOffsets
<1>18. OffsetsResolve'
  <2> SUFFICES ASSUME pulled = {}, NEW q \in Process, pc'[q] # "drop", NEW i \in DOMAIN segs'[q]
               PROVE  /\ segs'[q][i].id = i - 1
                      /\ segs'[q][i].used = {ChunkOf(x) : x \in {y \in held'[q] : SegmentId(y) = i - 1}}
                      /\ \A c \in segs'[q][i].used :
                            HEADER_SIZE + (c + 1) * AlignedChunkSize <= TotalSize
    BY <1>1 DEF OffsetsResolve
  <2>1. q # p
    <3> SUFFICES ASSUME q = p PROVE FALSE
      OBVIOUS
    <3>1. Len(segs[p]) = 1
      BY <1>8
    <3> QED
      BY <1>4, <3>1
  <2> QED
    BY <1>1, <1>4, <1>8, <2>1 DEF IndInv, OffsetsResolve
<1>19. SegmentsBuilt'
  <2> SUFFICES ASSUME NEW q \in Process, NEW i \in DOMAIN segs'[q]
               PROVE  stage[segs'[q][i].obj] = "built"
    BY <1>1 DEF SegmentsBuilt
  <2>1. CASE q # p
    BY <1>4, <2>1 DEF IndInv, SegmentsBuilt
  <2>2. CASE q = p
    <3>1. i + 1 \in DOMAIN segs[p] /\ segs'[p][i] = segs[p][i + 1]
      BY <1>4, <2>2
    <3> QED
      BY <2>2, <3>1 DEF IndInv, SegmentsBuilt
  <2> QED
    BY <2>1, <2>2
<1> QED
  BY <1>12, <1>14, <1>15, <1>16, <1>17, <1>18, <1>19 DEF IndInv

(* DataSegment::create is done: what was being created is the next segment.  Its id is its
   position, for the names of the earlier ones are taken. *)
LEMMA WriteHeaderInv == ASSUME IndInv, NEW p \in Process, WriteHeader(p) PROVE IndInv'
<1> USE Parts
<1> DEFINE R == [obj : Object, id : Name, used : SUBSET Chunk]
           len == Len(segs[p])
<1>1. /\ pc[p] = "header" /\ pc[p] \in Creating /\ stage' = [stage EXCEPT ![obj[p]] = "built"]
      /\ pc' = [pc EXCEPT ![p] = "idle"] /\ name' = [name EXCEPT ![p] = 0]
      /\ obj' = [obj EXCEPT ![p] = NoObject] /\ UNCHANGED <<link, view, orphans, pulled>>
  BY DEF WriteHeader, Return, Creating
<1>2. obj[p] \in Object /\ name[p] \in Name /\ Claim(p, 0, obj[p], name[p]) /\ 0 \in Index(p)
  BY <1>1, CreatingIsNew DEF Index
<1>3. PICK o \in Object, n \in Name : o = obj[p] /\ n = name[p]
  BY <1>2
<1>4. /\ segs \in [Process -> Seq(R)] /\ segs[p] \in Seq(R)
      /\ DOMAIN segs[p] = 1 .. len /\ len \in Nat
  BY Segment
<1>5. \E U \in SUBSET Chunk, H \in SUBSET (0 .. SegMod * OffMod - 1) :
         /\ segs' = [segs EXCEPT ![p] = Append(segs[p], [obj |-> o, id |-> n, used |-> U])]
         /\ held' = [held EXCEPT ![p] = held[p] \union H]
         /\ \/ U = {} /\ H = {} /\ len = 0
            \/ \E c \in Chunk : U = {c} /\ H = {ChunkOffset(n, c)} /\ len # 0
  <2>1. CASE segs[p] = <<>>
    <3>1. segs' = [segs EXCEPT ![p] = <<[obj |-> o, id |-> n, used |-> {}]>>] /\ held' = held
      BY <1>3, <2>1 DEF WriteHeader
    <3>2. <<[obj |-> o, id |-> n, used |-> {}]>> = Append(segs[p], [obj |-> o, id |-> n, used |-> {}])
      BY <2>1
    <3>3. held' = [held EXCEPT ![p] = held[p] \union {}] /\ len = 0
      BY <2>1, <3>1
    <3> QED
      BY <3>1, <3>2, <3>3
  <2>2. CASE segs[p] # <<>>
    <3>1. PICK c \in Chunk :
             /\ segs' = [segs EXCEPT ![p] = Append(segs[p], [obj |-> o, id |-> n, used |-> {c}])]
             /\ held' = [held EXCEPT ![p] = held[p] \union {ChunkOffset(n, c)}]
      BY <1>3, <2>2 DEF WriteHeader
    <3>2. {ChunkOffset(n, c)} \in SUBSET (0 .. SegMod * OffMod - 1) /\ {c} \in SUBSET Chunk
      BY Offsets
    <3>3. len # 0
      BY <1>4, <2>2
    <3> QED
      BY <3>1, <3>2, <3>3
  <2> QED
    BY <2>1, <2>2
<1>6. PICK U \in SUBSET Chunk, H \in SUBSET (0 .. SegMod * OffMod - 1) :
         /\ segs' = [segs EXCEPT ![p] = Append(segs[p], [obj |-> o, id |-> n, used |-> U])]
         /\ held' = [held EXCEPT ![p] = held[p] \union H]
         /\ \/ U = {} /\ H = {} /\ len = 0
            \/ \E c \in Chunk : U = {c} /\ H = {ChunkOffset(n, c)} /\ len # 0
  BY <1>5
<1> DEFINE t == [obj |-> o, id |-> n, used |-> U]
<1>7. t \in R /\ t.obj = o /\ t.id = n /\ t.used = U
  OBVIOUS
<1>8. segs' = [segs EXCEPT ![p] = Append(segs[p], t)]
  BY <1>6
<1> HIDE DEF R, t
<1>9. /\ segs' \in [Process -> Seq(R)] /\ Len(segs'[p]) = len + 1
      /\ DOMAIN segs'[p] = 1 .. len + 1 /\ segs'[p][len + 1] = t
      /\ \A i \in 1 .. len : segs'[p][i] = segs[p][i]
      /\ \A q \in Process \ {p} : segs'[q] = segs[q]
  BY <1>4, <1>7, <1>8
<1> HIDE DEF len
<1>10. /\ held'[p] = held[p] \union H
       /\ \A q \in Process \ {p} : /\ held'[q] = held[q] /\ pc'[q] = pc[q] /\ name'[q] = name[q]
                                   /\ obj'[q] = obj[q]
       /\ pc'[p] = "idle" /\ pc'[p] \notin Creating
  BY <1>1, <1>6 DEF Creating
<1>11. \A q \in Process \ {p} : KeepsClaims(q)
  BY <1>9, <1>10 DEF KeepsClaims
<1>12. \A q \in Process \ {p} :
         /\ Index(q)' = Index(q)
         /\ \A i \in Index(q), u \in Object, m \in Name : Claim(q, i, u, m)' <=> Claim(q, i, u, m)
  BY <1>11, ClaimsSame
<1> DEFINE f == [i \in Nat |-> IF i = len + 1 THEN 0 ELSE i]
<1>13. ASSUME NEW i \in Index(p)', NEW u \in Object, NEW m \in Name, Claim(p, i, u, m)'
       PROVE  f[i] \in Index(p) /\ Claim(p, f[i], u, m) /\ i \in Nat \ {0}
  <2>1. i \in 1 .. len + 1 /\ u = segs'[p][i].obj /\ m = segs'[p][i].id /\ i \in Nat \ {0}
    BY <1>4, <1>9, <1>10, <1>13 DEF Claim
  <2>2. CASE i = len + 1
    <3>1. f[i] = 0
      BY <2>1, <2>2
    <3>2. u = o /\ m = n
      BY <1>7, <1>9, <2>1, <2>2
    <3> HIDE DEF f
    <3> QED
      BY <1>2, <1>3, <2>1, <3>1, <3>2
  <2>3. CASE i # len + 1
    <3>1. f[i] = i /\ i \in 1 .. len
      BY <1>4, <2>1, <2>3
    <3> HIDE DEF f
    <3>2. Claim(p, i, u, m) /\ i \in Index(p)
      BY <1>4, <1>9, <2>1, <3>1 DEF Claim, Index
    <3> QED
      BY <2>1, <3>1, <3>2
  <2> QED
    BY <2>2, <2>3
<1>14. ASSUME NEW i \in Nat \ {0}, NEW j \in Nat \ {0}, f[i] = f[j] PROVE i = j
  BY <1>4, <1>14
<1>15. ASSUME NEW i \in Index(p), NEW u \in Object, NEW m \in Name, Claim(p, i, u, m)
       PROVE  \E j \in Index(p)' : Claim(p, j, u, m)'
  <2>1. CASE i \in DOMAIN segs[p] /\ u = segs[p][i].obj /\ m = segs[p][i].id
    <3>1. i \in DOMAIN segs'[p] /\ segs'[p][i] = segs[p][i]
      BY <1>4, <1>9, <2>1
    <3>2. Claim(p, i, u, m)' /\ i \in Index(p)'
      BY <2>1, <3>1 DEF Claim, Index
    <3> QED
      BY <3>2
  <2>2. CASE u = o /\ m = n
    <3>1. PICK j \in Nat : j = len + 1
      BY <1>4
    <3>2. j \in DOMAIN segs'[p] /\ u = segs'[p][j].obj /\ m = segs'[p][j].id
      BY <1>4, <1>7, <1>9, <2>2, <3>1
    <3>3. Claim(p, j, u, m)' /\ j \in Index(p)'
      BY <3>2 DEF Claim, Index
    <3> QED
      BY <3>3
  <2> QED
    BY <1>3, <1>15, <2>1, <2>2 DEF Claim
<1> HIDE DEF f
<1>16. ClaimedOnce'
  <2>1. \A i \in Index(p)', u \in Object, m \in Name :
           Claim(p, i, u, m)' => f[i] \in Index(p) /\ Claim(p, f[i], u, m)
    BY <1>13
  <2>2. \A i, j \in Index(p)' : \A u \in Object, m, k \in Name :
           Claim(p, i, u, m)' /\ Claim(p, j, u, k)' /\ f[i] = f[j] => i = j
    BY <1>13, <1>14
  <2> QED
    BY <1>11, <2>1, <2>2, ClaimedOnceKept
<1>17. ClaimedIsLinked'
  <2> SUFFICES ASSUME NEW q \in Process, NEW u \in Object, NEW m \in Name, NEW i \in Index(q)',
                      Claim(q, i, u, m)'
               PROVE  u \notin orphans /\ (m \notin pulled => link[m] = u)
                      /\ \A k \in Name : link[k] = u => k = m
    BY <1>1 DEF ClaimedIsLinked
  <2>1. PICK j \in Index(q) : Claim(q, j, u, m)
    <3>1. CASE q = p
      BY <1>13, <3>1
    <3>2. CASE q # p
      BY <1>12, <3>2
    <3> QED
      BY <3>1, <3>2
  <2> QED
    BY <2>1, Claims
<1>18. LinkedIsClaimed'
  <2>1. ASSUME NEW m \in Name, link[m] \in Object \ orphans
        PROVE  \E q \in Process : \E i \in Index(q)' : Claim(q, i, link[m], m)'
    <3>1. PICK u \in Object : u = link[m] /\ u \notin orphans
      BY <2>1
    <3>2. \E q \in Process : \E i \in Index(q) : Claim(q, i, link[m], m)
      BY <3>1 DEF IndInv, LinkedIsClaimed
    <3>3. PICK q \in Process : \E i \in Index(q) : Claim(q, i, u, m)
      BY <3>1, <3>2
    <3>4. \E i \in Index(q)' : Claim(q, i, u, m)'
      <4>1. CASE q = p
        BY <1>15, <3>3, <4>1
      <4>2. CASE q # p
        BY <1>12, <3>3, <4>2
      <4> QED
        BY <4>1, <4>2
    <3> QED
      BY <1>1, <3>1, <3>4
  <2>2. /\ \A m, k \in Name : link[m] = link[k] /\ link[k] # NoObject => m = k
        /\ \A u \in orphans : \E m \in Name : link[m] = u
    BY DEF IndInv, LinkedIsClaimed
  <2> QED
    BY <1>1, <2>1, <2>2 DEF LinkedIsClaimed
<1>19. TypeOK'
  <2>1. segs' \in [Process -> Seq([obj : Object, id : Name, used : SUBSET Chunk])]
    BY <1>9 DEF R
  <2>2. held' \in [Process -> SUBSET (0 .. SegMod * OffMod - 1)]
    BY <1>6
  <2>3. /\ pc' \in [Process -> {"idle", "excl", "drop", "open", "stat", "read"} \union Creating]
        /\ name' \in [Process -> Name] /\ obj' \in [Process -> Object \union {NoObject}]
        /\ stage' \in [Object -> {"new", "sized", "built"}]
    BY <1>1, <1>2, Names
  <2> QED
    BY <1>1, <2>1, <2>2, <2>3 DEF TypeOK
<1>20. CallsKnow'
  <2> SUFFICES ASSUME NEW q \in Process
               PROVE  /\ obj'[q] # NoObject <=> pc'[q] \in Creating \union {"stat", "read"}
                      /\ pc'[q] \in {"excl"} \union Creating => name'[q] = Len(segs'[q]) % SegMod
                      /\ pc'[q] = "drop" => segs'[q] # <<>> /\ held'[q] = {}
    BY DEF CallsKnow, Creating
  <2>1. CASE q # p
    BY <1>9, <1>10, <2>1 DEF IndInv, CallsKnow, Creating
  <2>2. CASE q = p
    BY <1>1, <1>10, <2>2 DEF Creating
  <2> QED
    BY <2>1, <2>2
<1>21. ASSUME pulled = {} PROVE n = len
  <2>1. n = len % SegMod
    BY <1>1, <1>3 DEF IndInv, CallsKnow, len
  <2> SUFFICES ASSUME ~(len < SegMod) PROVE FALSE
    BY <1>4, <2>1, Names
  <2>2. n \in Nat /\ n + 1 \in 1 .. len
    BY <1>4, SizeAssumption DEF Name
  <2>3. PICK i \in DOMAIN segs[p] : i = n + 1
    BY <1>4, <2>2
  <2>4. pc[p] # "drop"
    BY <1>1
  <2>5. segs[p][i].id = n /\ segs[p][i].obj \in Object
    <3>1. segs[p][i].id = i - 1
      BY <1>21, <2>4 DEF IndInv, OffsetsResolve
    <3> QED
      BY <2>2, <2>3, <3>1, Segment
  <2>6. link[n] = segs[p][i].obj
    <3>1. Claim(p, i, segs[p][i].obj, n) /\ i \in Index(p)
      BY <2>5 DEF Claim, Index
    <3> QED
      BY <1>21, <2>5, <3>1, Claims
  <2>7. link[n] = o
    BY <1>2, <1>3, <1>21, Claims
  <2> QED
    BY <1>1, <1>3, <2>6, <2>7, CreatingIsNew
<1>22. /\ \A x \in H : /\ \E m \in Name, c \in Chunk : x = ChunkOffset(m, c)
                       /\ SegmentId(x) = n
       /\ U = {ChunkOf(x) : x \in H}
  <2>1. CASE U = {} /\ H = {}
    BY <2>1
  <2>2. CASE \E c \in Chunk : U = {c} /\ H = {ChunkOffset(n, c)}
    <3>1. PICK c \in Chunk : U = {c} /\ H = {ChunkOffset(n, c)}
      BY <2>2
    <3>2. SegmentId(ChunkOffset(n, c)) = n /\ ChunkOf(ChunkOffset(n, c)) = c
      BY Offsets
    <3>3. {ChunkOf(x) : x \in H} = {ChunkOf(ChunkOffset(n, c))}
      BY <3>1
    <3> QED
      BY <3>1, <3>2, <3>3
  <2> QED
    BY <1>6, <2>1, <2>2
<1>23. HeldOffsets'
  <2> SUFFICES ASSUME NEW q \in Process, NEW x \in held'[q]
               PROVE  /\ \E m \in Name, c \in Chunk : x = ChunkOffset(m, c)
                      /\ pulled = {} => SegmentId(x) < Len(segs'[q])
    BY <1>1 DEF HeldOffsets
  <2>1. CASE q # p
    BY <1>9, <1>10, <2>1 DEF IndInv, HeldOffsets
  <2>2. CASE q = p /\ x \in H
    BY <1>4, <1>9, <1>21, <1>22, <2>2
  <2>3. CASE q = p /\ x \in held[p]
    <3>1. PICK m \in Name, c \in Chunk : x = ChunkOffset(m, c)
      BY <2>3 DEF IndInv, HeldOffsets
    <3>2. SegmentId(x) \in Nat
      BY <3>1, Offsets, SizeAssumption DEF Name
    <3>3. pulled = {} => SegmentId(x) < len
      BY <2>3 DEF IndInv, HeldOffsets, len
    <3> QED
      BY <1>4, <1>9, <2>3, <3>1, <3>2, <3>3
  <2> QED
    BY <1>10, <2>1, <2>2, <2>3
<1>24. OffsetsResolve'
  <2> SUFFICES ASSUME pulled = {}, NEW q \in Process, pc'[q] # "drop", NEW j \in DOMAIN segs'[q]
               PROVE  /\ segs'[q][j].id = j - 1
                      /\ segs'[q][j].used = {ChunkOf(x) : x \in {y \in held'[q] : SegmentId(y) = j - 1}}
                      /\ \A c \in segs'[q][j].used :
                            HEADER_SIZE + (c + 1) * AlignedChunkSize <= TotalSize
    BY <1>1 DEF OffsetsResolve
  <2>1. CASE q # p
    BY <1>9, <1>10, <2>1 DEF IndInv, OffsetsResolve
  <2>2. n = len /\ \A y \in held[p] : SegmentId(y) < len
    BY <1>21 DEF IndInv, HeldOffsets, len
  <2>3. \A c \in Chunk : HEADER_SIZE + (c + 1) * AlignedChunkSize <= TotalSize
    BY Sizes
  <2>4. CASE q = p /\ j = len + 1
    <3>1. segs'[p][j].id = j - 1 /\ segs'[p][j].used = U
      BY <1>4, <1>7, <1>9, <2>2, <2>4
    <3>2. {y \in held'[p] : SegmentId(y) = j - 1} = H
      BY <1>4, <1>10, <1>22, <2>2, <2>4
    <3> QED
      BY <1>22, <2>3, <2>4, <3>1, <3>2
  <2>5. CASE q = p /\ j # len + 1
    <3>1. j \in 1 .. len /\ j \in DOMAIN segs[p] /\ segs'[p][j] = segs[p][j]
      BY <1>4, <1>9, <2>5
    <3>2. pc[p] # "drop"
      BY <1>1
    <3>3. /\ segs[p][j].id = j - 1
          /\ segs[p][j].used = {ChunkOf(x) : x \in {y \in held[p] : SegmentId(y) = j - 1}}
          /\ \A c \in segs[p][j].used : HEADER_SIZE + (c + 1) * AlignedChunkSize <= TotalSize
      BY <3>1, <3>2 DEF IndInv, OffsetsResolve
    <3>4. {y \in held'[p] : SegmentId(y) = j - 1} = {y \in held[p] : SegmentId(y) = j - 1}
      <4>1. \A y \in H : SegmentId(y) # j - 1
        BY <1>4, <1>22, <2>2, <3>1
      <4> QED
        BY <1>10, <4>1
    <3> QED
      BY <2>5, <3>1, <3>3, <3>4
  <2> QED
    BY <2>1, <2>4, <2>5
<1>25. SegmentsBuilt'
  <2> SUFFICES ASSUME NEW q \in Process, NEW i \in DOMAIN segs'[q]
               PROVE  stage'[segs'[q][i].obj] = "built"
    BY DEF SegmentsBuilt
  <2>1. \A r \in Process : \A j \in DOMAIN segs[r] : stage'[segs[r][j].obj] = "built"
    BY <1>1, Segment DEF IndInv, SegmentsBuilt
  <2>2. CASE q # p
    BY <1>9, <2>1, <2>2
  <2>3. CASE q = p /\ i = len + 1
    BY <1>1, <1>2, <1>3, <1>7, <1>9, <2>3
  <2>4. CASE q = p /\ i # len + 1
    <3>1. i \in DOMAIN segs[p] /\ segs'[p][i] = segs[p][i]
      BY <1>4, <1>9, <2>4
    <3> QED
      BY <2>1, <2>4, <3>1
  <2> QED
    BY <2>2, <2>3, <2>4
<1> QED
  BY <1>16, <1>17, <1>18, <1>19, <1>20, <1>23, <1>24, <1>25 DEF IndInv

-----------------------------------------------------------------------------
(* The theorems *)

(* Nothing is there at first. *)
LEMMA InitInv == ASSUME Init PROVE IndInv
<1>1. TypeOK
  BY Names DEF Init, TypeOK
<1>2. \A p \in Process : DOMAIN segs[p] = {} /\ held[p] = {} /\ pc[p] = "idle" /\ obj[p] = NoObject
  BY DEF Init
<1>3. CallsKnow /\ HeldOffsets /\ OffsetsResolve /\ SegmentsBuilt
  BY <1>2 DEF CallsKnow, HeldOffsets, OffsetsResolve, SegmentsBuilt, Creating
<1>4. \A p \in Process, i \in {0}, o \in Object, n \in Name : ~Claim(p, i, o, n)
  BY <1>2 DEF Claim, Creating
<1>5. \A p \in Process : Index(p) = {0}
  BY <1>2 DEF Index
<1>6. ClaimedOnce /\ ClaimedIsLinked
  BY <1>4, <1>5 DEF ClaimedOnce, ClaimedIsLinked
<1>7. LinkedIsClaimed
  BY ObjectAssumption DEF Init, LinkedIsClaimed
<1> QED
  BY <1>1, <1>3, <1>6, <1>7 DEF IndInv

(* Every step of every process keeps the invariant. *)
LEMMA NextInv == ASSUME IndInv, [Next]_vars PROVE IndInv'
<1>1. CASE UNCHANGED vars
  <2>1. UNCHANGED <<link, stage, pc, name, obj, segs, held, view, orphans, pulled>>
    BY <1>1 DEF vars, calls
  <2>2. SameClaims
    BY <2>1 DEF SameClaims, KeepsClaims
  <2>3. Ownership'
    BY <2>1, <2>2, OwnershipKept
  <2>4. HeldOffsets' /\ OffsetsResolve'
    BY <2>1, OffsetsKept
  <2>5. TypeOK' /\ CallsKnow'
    BY <2>1 DEF IndInv, TypeOK, CallsKnow
  <2> QED
    BY <2>3, <2>4, <2>5 DEF IndInv, Ownership
<1>2. ASSUME NEW p \in Process,
             \/ ManagerCreate(p) \/ AllocateGrows(p) \/ ShmExists(p) \/ Truncate(p) \/ MapCreated(p)
             \/ DropManager(p) \/ ShmOpen(p) \/ MapOpened(p) \/ ReadHeader(p) \/ Close(p)
             \/ \E n \in Name : OpenCall(p, n)
      PROVE  IndInv'
  BY <1>2, CallInv
<1>3. ASSUME NEW p \in Process,
             \/ AllocateChunk(p) \/ ShmCreate(p) \/ CreateFails(p) \/ WriteHeader(p)
             \/ DropSegment(p) \/ Crash(p)
      PROVE  IndInv'
  BY <1>3, AllocateInv, ShmCreateInv, CreateFailsInv, WriteHeaderInv, DropSegmentInv, CrashInv
<1>4. ASSUME NEW p \in Process,
             (\E x \in held[p] : Deallocate(p, x)) \/ (\E n \in Name : Unlink(p, n))
      PROVE  IndInv'
  BY <1>4, DeallocateInv, UnlinkInv
<1> QED
  BY <1>1, <1>2, <1>3, <1>4 DEF Next

(* The invariant holds of every behaviour of the processes that use a name prefix. *)
THEOREM SegmentsInvariant == Spec => []IndInv
<1>1. Init => IndInv
  BY InitInv
<1>2. IndInv /\ [Next]_vars => IndInv'
  BY NextInv
<1> QED
  BY <1>1, <1>2, PTL DEF Spec

(* Segment ids stay in 16 bits and PointerOffsets in a word, however often allocate grows
   the manager (segment_mgr.rs:35-64, contracts.rs:6-33). *)
THEOREM SegmentTypes == Spec => []TypeOK
<1>1. IndInv => TypeOK
  BY DEF IndInv
<1> QED
  BY <1>1, SegmentsInvariant, PTL

(* A PointerOffset leads deallocate back to the segment and the chunk it was made for,
   inside the mapping, for every number of segments and width of the id
   (segment_mgr.rs:35-64, pool_alloc.rs:34-49). *)
THEOREM OffsetsLeadBack == Spec => []OffsetsResolve
<1>1. IndInv => OffsetsResolve
  BY DEF IndInv
<1> QED
  BY <1>1, SegmentsInvariant, PTL

(* What has a name is a finished segment that its owner will drop, or is being created, or
   was left by a crash or a failed create (shm.rs create and drop, segment_mgr.rs). *)
THEOREM NamesHaveOwners == Spec => []LinkedIsOwned
<1>1. ASSUME IndInv PROVE LinkedIsOwned
  <2> SUFFICES ASSUME NEW n \in Name, link[n] \in Object \ orphans
               PROVE  \E p \in Process :
                         \/ pc[p] \in Creating /\ obj[p] = link[n] /\ name[p] = n
                         \/ \E i \in DOMAIN segs[p] :
                               segs[p][i].obj = link[n] /\ segs[p][i].id = n /\ stage[link[n]] = "built"
    BY DEF LinkedIsOwned
  <2>1. PICK p \in Process : \E i \in Index(p) : Claim(p, i, link[n], n)
    BY <1>1 DEF IndInv, LinkedIsClaimed
  <2>2. \A i \in DOMAIN segs[p] : stage[segs[p][i].obj] = "built"
    BY <1>1 DEF IndInv, SegmentsBuilt
  <2> QED
    BY <2>1, <2>2 DEF Claim
<1> QED
  BY <1>1, SegmentsInvariant, PTL

(* Whoever knows the name of a segment can open it until its owner drops it, unless
   somebody has unlinked that name (shm.rs drop, segment_mgr.rs:35-64). *)
THEOREM SegmentsKeepNames == Spec => []OwnedIsLinked
<1>1. ASSUME IndInv PROVE OwnedIsLinked
  <2> SUFFICES ASSUME NEW p \in Process, NEW i \in DOMAIN segs[p], segs[p][i].id \notin pulled
               PROVE  link[segs[p][i].id] = segs[p][i].obj
    BY DEF OwnedIsLinked
  <2>1. PICK o \in Object, n \in Name : o = segs[p][i].obj /\ n = segs[p][i].id
    BY <1>1, Segment
  <2>2. Claim(p, i, o, n) /\ i \in Index(p)
    BY <2>1 DEF Claim, Index
  <2> QED
    BY <1>1, <2>1, <2>2, Claims
<1> QED
  BY <1>1, SegmentsInvariant, PTL

=============================================================================
