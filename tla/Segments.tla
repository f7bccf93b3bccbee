----------------------------- MODULE Segments -----------------------------
(***************************************************************************)
(* Shared memory and what is built on it: entangle-platform/src/shm.rs,    *)
(* entangle-transport/src/{data_segment,segment_mgr,pool_alloc}.rs and the *)
(* PointerOffset of entangle-transport/src/contracts.rs.                   *)
(*                                                                         *)
(* Processes that use one name prefix create SegmentManagers, which grow   *)
(* by a segment when all are full, open a segment of another process by    *)
(* its name, unlink names, and die.  Every system call is a step of its    *)
(* own.  An object is what shm_open creates; it outlives its name as long  *)
(* as it is mapped, and the number of one that is gone is used again.      *)
(*                                                                         *)
(* A pool is IndexPool, which UniqueIndexSet implements.  The pool of a    *)
(* DataSegment that was opened is not used by anything in the repository   *)
(* and is left out.                                                        *)
(*                                                                         *)
(* History variables: `orphans`, the objects with a name whose creator     *)
(* died or failed half-way, and `pulled`, the names somebody has called    *)
(* SharedMemory::unlink on.                                                *)
(***************************************************************************)
EXTENDS Integers, Sequences, FiniteSets

CONSTANTS
    Process,
    Object,       \* bound: objects in use at a time
    NoObject,
    ChunkSize,    \* what the caller asks for
    ChunkCount,   \* chunks_per_segment
    SegMod,       \* segment ids, 2^16
    OffMod,       \* offsets in a PointerOffset, 2^48
    HEADER_SIZE

ASSUME ObjectAssumption == NoObject \notin Object
ASSUME SizeAssumption ==
    /\ ChunkSize \in Nat \ {0} /\ ChunkCount \in Nat \ {0} /\ SegMod \in Nat \ {0}
    /\ HEADER_SIZE \in Nat /\ OffMod \in Nat

\* (chunk_size + 7) & !7
AlignedChunkSize == 8 * ((ChunkSize + 7) \div 8)
TotalSize == HEADER_SIZE + AlignedChunkSize * ChunkCount

ASSUME OffsetAssumption == TotalSize <= OffMod

\* name_prefix_seg_0, name_prefix_seg_1, ...: an id and its name are one to one.
Name == 0 .. SegMod - 1
Chunk == 0 .. ChunkCount - 1

VARIABLES
    link,   \* the object each name has
    stage,  \* what has been done to each object: "new", "sized", "built"
    pc,     \* where each process is
    name, obj,  \* the name and the object its call is about
    segs,   \* SegmentManager.segments
    held,   \* the PointerOffsets its application has
    view,   \* the object of the DataSegment it has opened
    orphans, pulled

calls == <<pc, name, obj>>
vars == <<link, stage, calls, segs, held, view, orphans, pulled>>

Init ==
    /\ link = [n \in Name |-> NoObject]
    /\ stage = [o \in Object |-> "new"]
    /\ pc = [p \in Process |-> "idle"]
    /\ name = [p \in Process |-> 0] /\ obj = [p \in Process |-> NoObject]
    /\ segs = [p \in Process |-> <<>>]
    /\ held = [p \in Process |-> {}]
    /\ view = [p \in Process |-> NoObject]
    /\ orphans = {} /\ pulled = {}

-----------------------------------------------------------------------------
(* PointerOffset and PoolAllocator *)

\* [segment_id:16][offset:48]
PointerOffset(id, offset) == (id * OffMod) + (offset % OffMod)
SegmentId(x) == x \div OffMod
Offset(x) == x % OffMod

ChunkOffset(id, c) == PointerOffset(id, HEADER_SIZE + c * AlignedChunkSize)

\* The index deallocate() releases.
ChunkOf(x) == (Offset(x) - HEADER_SIZE) \div AlignedChunkSize

-----------------------------------------------------------------------------
(* Calls and objects *)

Call(p, n, label) ==
    /\ pc[p] = "idle"
    /\ pc' = [pc EXCEPT ![p] = label]
    /\ name' = [name EXCEPT ![p] = n]
    /\ UNCHANGED obj

Goto(p, label) == pc' = [pc EXCEPT ![p] = label] /\ UNCHANGED <<name, obj>>

Return(p) ==
    /\ pc' = [pc EXCEPT ![p] = "idle"]
    /\ name' = [name EXCEPT ![p] = 0]
    /\ obj' = [obj EXCEPT ![p] = NoObject]

Creating == {"truncate", "map", "header"}
Owned(p) == {segs[p][i].obj : i \in DOMAIN segs[p]}

InUse(o) ==
    \/ \E n \in Name : link[n] = o
    \/ \E p \in Process : o \in Owned(p) \union {obj[p], view[p]}

\* shm_unlink(n), whatever object has the name.
Unlinked(n) ==
    /\ link' = [link EXCEPT ![n] = NoObject]
    /\ orphans' = orphans \ {link[n]}

-----------------------------------------------------------------------------
(* DataSegment::create, called by SegmentManager::create and by allocate *)

ManagerCreate(p) ==
    /\ segs[p] = <<>>
    /\ Call(p, 0, "excl")
    /\ UNCHANGED <<link, stage, segs, held, view, orphans, pulled>>

HasRoom(s) == s.used # Chunk

\* The first segment with a free chunk.
AllocateChunk(p) ==
    /\ pc[p] = "idle"
    /\ \E i \in DOMAIN segs[p], c \in Chunk :
          /\ HasRoom(segs[p][i]) /\ \A j \in 1 .. i - 1 : ~HasRoom(segs[p][j])
          /\ c \notin segs[p][i].used
          /\ segs' = [segs EXCEPT ![p][i].used = @ \union {c}]
          /\ held' = [held EXCEPT ![p] = @ \union {ChunkOffset(segs[p][i].id, c)}]
    /\ UNCHANGED <<link, stage, calls, view, orphans, pulled>>

\* An id that is not cut to its width.
AllocateGrowsWide(p) ==
    /\ segs[p] # <<>> /\ \A i \in DOMAIN segs[p] : ~HasRoom(segs[p][i])
    /\ Call(p, Len(segs[p]), "excl")
    /\ UNCHANGED <<link, stage, segs, held, view, orphans, pulled>>

\* All are full: a new segment, with segments.len() as u16 for its id.
AllocateGrows(p) ==
    /\ segs[p] # <<>> /\ \A i \in DOMAIN segs[p] : ~HasRoom(segs[p][i])
    /\ Call(p, Len(segs[p]) % SegMod, "excl")
    /\ UNCHANGED <<link, stage, segs, held, view, orphans, pulled>>

\* shm_open without O_EXCL.
ShmCreateShares(p) ==
    /\ pc[p] = "excl"
    /\ \E o \in Object :
          /\ IF link[name[p]] = NoObject THEN ~InUse(o) ELSE o = link[name[p]]
          /\ link' = [link EXCEPT ![name[p]] = o]
          /\ stage' = [stage EXCEPT ![o] = "new"]
          /\ obj' = [obj EXCEPT ![p] = o]
    /\ pc' = [pc EXCEPT ![p] = "truncate"]
    /\ UNCHANGED <<name, segs, held, view, orphans, pulled>>

ShmCreate(p) ==
    /\ pc[p] = "excl" /\ link[name[p]] = NoObject
    /\ \E o \in Object :
          /\ ~InUse(o)
          /\ link' = [link EXCEPT ![name[p]] = o]
          /\ stage' = [stage EXCEPT ![o] = "new"]
          /\ obj' = [obj EXCEPT ![p] = o]
    /\ pc' = [pc EXCEPT ![p] = "truncate"]
    /\ UNCHANGED <<name, segs, held, view, orphans, pulled>>

\* SharedMemoryCreate, or OutOfMemory from allocate.
ShmExists(p) ==
    /\ pc[p] = "excl" /\ link[name[p]] # NoObject
    /\ Return(p)
    /\ UNCHANGED <<link, stage, segs, held, view, orphans, pulled>>

Truncate(p) ==
    /\ pc[p] = "truncate"
    /\ stage' = [stage EXCEPT ![obj[p]] = "sized"]
    /\ Goto(p, "map")
    /\ UNCHANGED <<link, segs, held, view, orphans, pulled>>

MapCreated(p) ==
    /\ pc[p] = "map"
    /\ Goto(p, "header")
    /\ UNCHANGED <<link, stage, segs, held, view, orphans, pulled>>

\* ftruncate or mmap fails: there is no SharedMemory to drop yet, so the name stays.
CreateFails(p) ==
    /\ pc[p] \in {"truncate", "map"}
    /\ orphans' = orphans \union ({obj[p]} \intersect {link[n] : n \in Name})
    /\ Return(p)
    /\ UNCHANGED <<link, stage, segs, held, view, pulled>>

\* The header is written, the segment pushed, and the pending allocate served from it.
WriteHeader(p) ==
    /\ pc[p] = "header"
    /\ stage' = [stage EXCEPT ![obj[p]] = "built"]
    /\ IF segs[p] = <<>>
       THEN /\ segs' = [segs EXCEPT ![p] = <<[obj |-> obj[p], id |-> name[p], used |-> {}]>>]
            /\ UNCHANGED held
       ELSE \E c \in Chunk :
            /\ segs' = [segs EXCEPT ![p] = Append(@, [obj |-> obj[p], id |-> name[p], used |-> {c}])]
            /\ held' = [held EXCEPT ![p] = @ \union {ChunkOffset(name[p], c)}]
    /\ Return(p)
    /\ UNCHANGED <<link, view, orphans, pulled>>

-----------------------------------------------------------------------------
(* SegmentManager::deallocate, and drop: munmap, then shm_unlink by name *)

Deallocate(p, x) ==
    /\ pc[p] = "idle" /\ x \in held[p]
    /\ held' = [held EXCEPT ![p] = @ \ {x}]
    /\ LET i == SegmentId(x) + 1 IN
          segs' = IF i \in DOMAIN segs[p]
                  THEN [segs EXCEPT ![p][i].used = @ \ {ChunkOf(x)}]
                  ELSE segs
    /\ UNCHANGED <<link, stage, calls, view, orphans, pulled>>

DropManager(p) ==
    /\ segs[p] # <<>> /\ held[p] = {}
    /\ Call(p, 0, "drop")
    /\ UNCHANGED <<link, stage, segs, held, view, orphans, pulled>>

\* A drop that unmaps and leaves the name.
DropKeepsName(p) ==
    /\ pc[p] = "drop"
    /\ segs' = [segs EXCEPT ![p] = Tail(@)]
    /\ IF Len(segs[p]) = 1 THEN Return(p) ELSE UNCHANGED calls
    /\ UNCHANGED <<link, stage, held, view, orphans, pulled>>

DropSegment(p) ==
    /\ pc[p] = "drop"
    /\ Unlinked(Head(segs[p]).id)
    /\ segs' = [segs EXCEPT ![p] = Tail(@)]
    /\ IF Len(segs[p]) = 1 THEN Return(p) ELSE UNCHANGED calls
    /\ UNCHANGED <<stage, held, view, pulled>>

-----------------------------------------------------------------------------
(* DataSegment::open *)

OpenCall(p, n) ==
    /\ view[p] = NoObject
    /\ Call(p, n, "open")
    /\ UNCHANGED <<link, stage, segs, held, view, orphans, pulled>>

ShmOpen(p) ==
    /\ pc[p] = "open"
    /\ IF link[name[p]] = NoObject
       THEN Return(p)                                      \* SharedMemoryOpen
       ELSE /\ obj' = [obj EXCEPT ![p] = link[name[p]]]
            /\ pc' = [pc EXCEPT ![p] = "stat"]
            /\ UNCHANGED name
    /\ UNCHANGED <<link, stage, segs, held, view, orphans, pulled>>

\* fstat and mmap: a file of size zero is refused.
MapOpened(p) ==
    /\ pc[p] = "stat"
    /\ IF stage[obj[p]] = "new" THEN Return(p) ELSE Goto(p, "read")
    /\ UNCHANGED <<link, stage, segs, held, view, orphans, pulled>>

\* A header that is still zero makes PoolAllocator::new panic, which unmaps.
ReadHeader(p) ==
    /\ pc[p] = "read"
    /\ view' = [view EXCEPT ![p] = IF stage[obj[p]] = "built" THEN obj[p] ELSE NoObject]
    /\ Return(p)
    /\ UNCHANGED <<link, stage, segs, held, orphans, pulled>>

\* The opener unlinks too.
CloseUnlinks(p) ==
    /\ pc[p] = "idle" /\ view[p] # NoObject
    /\ view' = [view EXCEPT ![p] = NoObject]
    /\ \E n \in Name : link[n] = view[p] /\ Unlinked(n)
    /\ UNCHANGED <<stage, calls, segs, held, pulled>>

Close(p) ==
    /\ pc[p] = "idle" /\ view[p] # NoObject
    /\ view' = [view EXCEPT ![p] = NoObject]
    /\ UNCHANGED <<link, stage, calls, segs, held, orphans, pulled>>

-----------------------------------------------------------------------------
\* SharedMemory::unlink
Unlink(p, n) ==
    /\ pc[p] = "idle" /\ link[n] # NoObject
    /\ Unlinked(n)
    /\ pulled' = pulled \union {n}
    /\ UNCHANGED <<stage, calls, segs, held, view>>

\* The process dies, and one like it starts.  Nothing removes the names.
Crash(p) ==
    /\ orphans' = orphans \union ((Owned(p) \union (IF pc[p] \in Creating THEN {obj[p]} ELSE {}))
                                      \intersect {link[n] : n \in Name})
    /\ Return(p)
    /\ segs' = [segs EXCEPT ![p] = <<>>]
    /\ held' = [held EXCEPT ![p] = {}]
    /\ view' = [view EXCEPT ![p] = NoObject]
    /\ UNCHANGED <<link, stage, pulled>>

Next ==
    \E p \in Process :
        \/ ManagerCreate(p) \/ AllocateChunk(p) \/ AllocateGrows(p)
        \/ ShmCreate(p) \/ ShmExists(p) \/ Truncate(p) \/ MapCreated(p) \/ CreateFails(p)
        \/ WriteHeader(p)
        \/ \E x \in held[p] : Deallocate(p, x)
        \/ DropManager(p) \/ DropSegment(p)
        \/ ShmOpen(p) \/ MapOpened(p) \/ ReadHeader(p) \/ Close(p)
        \/ \E n \in Name : OpenCall(p, n) \/ Unlink(p, n)
        \/ Crash(p)

Spec == Init /\ [][Next]_vars

-----------------------------------------------------------------------------
(* Properties *)

(* Type invariant: ids fit their 16 bits and offsets their word (segment_mgr.rs:35-61,
   contracts.rs:6-33). *)
TypeOK ==
    /\ link \in [Name -> Object \union {NoObject}]
    /\ stage \in [Object -> {"new", "sized", "built"}]
    /\ pc \in [Process -> {"idle", "excl", "drop", "open", "stat", "read"} \union Creating]
    /\ name \in [Process -> Name] /\ obj \in [Process -> Object \union {NoObject}]
    /\ segs \in [Process -> Seq([obj : Object, id : Name, used : SUBSET Chunk])]
    /\ held \in [Process -> SUBSET (0 .. SegMod * OffMod - 1)]
    /\ view \in [Process -> Object \union {NoObject}]
    /\ orphans \subseteq Object /\ pulled \subseteq Name

(* An offset leads back to the chunk it was made for, and no two chunks have one
   offset, however many segments there are: the ids of the segments are their positions
   even when segments.len() no longer fits an u16, because the name of the first segment
   with that id is still there and the new one is refused, which is so unless somebody
   unlinked it. *)
OffsetsResolve ==
    \A p \in Process : pulled = {} /\ pc[p] # "drop" =>
        \A i \in DOMAIN segs[p] :
            /\ segs[p][i].id = i - 1
            /\ segs[p][i].used = {ChunkOf(x) : x \in {y \in held[p] : SegmentId(y) = i - 1}}
            /\ \A c \in segs[p][i].used :
                  HEADER_SIZE + (c + 1) * AlignedChunkSize <= TotalSize

(* Whatever has a name in shared memory is a finished segment of a process that will
   drop it, or one under construction, or was left by a process that died or failed in
   the middle of its create: the drops of several owners, openers and unlinks leave
   nothing else behind.  Only the orphans never go away by themselves, and only a
   segment of the second or third kind makes DataSegment::open panic. *)
LinkedIsOwned ==
    \A n \in Name : link[n] \in Object \ orphans =>
        \E p \in Process :
            \/ pc[p] \in Creating /\ obj[p] = link[n] /\ name[p] = n
            \/ \E i \in DOMAIN segs[p] :
                  segs[p][i].obj = link[n] /\ segs[p][i].id = n /\ stage[link[n]] = "built"

(* A segment can be opened by its name as long as its owner has it: the name is removed
   by the owner's drop, which removes no other owner's, unless it was pulled away. *)
OwnedIsLinked ==
    \A p \in Process : \A i \in DOMAIN segs[p] :
        segs[p][i].id \notin pulled => link[segs[p][i].id] = segs[p][i].obj

-----------------------------------------------------------------------------
(* The inductive invariant of the proofs *)

\* A call has an object where it has opened or created one.  A new segment gets the next
\* id, and drop is not called while the application has chunks.
CallsKnow ==
    \A p \in Process :
        /\ obj[p] # NoObject <=> pc[p] \in Creating \union {"stat", "read"}
        /\ pc[p] \in {"excl"} \union Creating => name[p] = Len(segs[p]) % SegMod
        /\ pc[p] = "drop" => segs[p] # <<>> /\ held[p] = {}

\* What the application has are offsets of chunks, of segments there are.
HeldOffsets ==
    \A p \in Process : \A x \in held[p] :
        /\ \E n \in Name, c \in Chunk : x = ChunkOffset(n, c)
        /\ pulled = {} => SegmentId(x) < Len(segs[p])

\* Process p has object o under name n: it is creating it, or it is its i-th segment.
Claim(p, i, o, n) ==
    \/ i = 0 /\ pc[p] \in Creating /\ o = obj[p] /\ n = name[p]
    \/ i \in DOMAIN segs[p] /\ o = segs[p][i].obj /\ n = segs[p][i].id

Index(p) == {0} \union DOMAIN segs[p]

\* No two have the same object ...
ClaimedOnce ==
    \A p, q \in Process, o \in Object : \A i \in Index(p), j \in Index(q) :
        (\E n \in Name : Claim(p, i, o, n)) /\ (\E n \in Name : Claim(q, j, o, n))
            => p = q /\ i = j

\* ... which has no other name than the one it was created under, and that one unless it
\* was pulled away ...
ClaimedIsLinked ==
    \A p \in Process, o \in Object, n \in Name : \A i \in Index(p) :
        Claim(p, i, o, n) =>
            /\ o \notin orphans
            /\ n \notin pulled => link[n] = o
            /\ \A m \in Name : link[m] = o => m = n

\* ... and whatever has a name has no other, and somebody has it, or has left it.
LinkedIsClaimed ==
    /\ \A m, n \in Name : link[m] = link[n] /\ link[n] # NoObject => m = n
    /\ \A n \in Name : link[n] \in Object \ orphans =>
          \E p \in Process : \E i \in Index(p) : Claim(p, i, link[n], n)
    /\ \A o \in orphans : \E n \in Name : link[n] = o

SegmentsBuilt ==
    \A p \in Process : \A i \in DOMAIN segs[p] : stage[segs[p][i].obj] = "built"

IndInv ==
    /\ TypeOK /\ CallsKnow /\ HeldOffsets /\ OffsetsResolve
    /\ ClaimedOnce /\ ClaimedIsLinked /\ LinkedIsClaimed /\ SegmentsBuilt
=============================================================================
