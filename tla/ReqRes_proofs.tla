--------------------------- MODULE ReqRes_proofs ---------------------------
(***************************************************************************)
(* Proofs about request-response, for any number of clients, chunks and    *)
(* pending requests: every chunk of the shared pool is in one place, each  *)
(* request is answered to its own client and at most once, the segment is  *)
(* large enough for clients that keep to max_pending_requests, and a       *)
(* client that waits for each answer gets the answer to what it asked.     *)
(***************************************************************************)
EXTENDS ReqRes, FiniteSetTheorems, TLAPS

-----------------------------------------------------------------------------
(* Queues without duplicates *)

(* Pushing what is not in a queue keeps it free of duplicates. *)
LEMMA PushOnce ==
    ASSUME NEW S, NEW q \in Seq(S), NEW c \in S
    PROVE  /\ Append(q, c) \in Seq(S)
           /\ Range(Append(q, c)) = Range(q) \union {c}
           /\ IsInjective(q) /\ c \notin Range(q) => IsInjective(Append(q, c))
<1>1. /\ Append(q, c) \in Seq(S) /\ Len(q) \in Nat
      /\ DOMAIN Append(q, c) = 1 .. Len(q) + 1 /\ DOMAIN q = 1 .. Len(q)
      /\ \A i \in 1 .. Len(q) : Append(q, c)[i] = q[i]
      /\ Append(q, c)[Len(q) + 1] = c
  OBVIOUS
<1>2. \A x : x \in Range(Append(q, c)) <=> x \in Range(q) \union {c}
  BY <1>1 DEF Range
<1>3. IsInjective(q) /\ c \notin Range(q) => IsInjective(Append(q, c))
  BY <1>1 DEF Range, IsInjective
<1> QED
  BY <1>1, <1>2, <1>3

(* Popping takes the head out of a queue without duplicates, and only it. *)
LEMMA PopOnce ==
    ASSUME NEW S, NEW q \in Seq(S), q # <<>>, IsInjective(q)
    PROVE  /\ Head(q) \in S /\ Head(q) \in Range(q)
           /\ Tail(q) \in Seq(S) /\ IsInjective(Tail(q))
           /\ Range(Tail(q)) = Range(q) \ {Head(q)}
<1>1. /\ Tail(q) \in Seq(S) /\ Len(q) \in Nat \ {0}
      /\ DOMAIN Tail(q) = 1 .. Len(q) - 1 /\ DOMAIN q = 1 .. Len(q)
      /\ \A i \in 1 .. Len(q) - 1 : Tail(q)[i] = q[i + 1]
      /\ Head(q) = q[1] /\ q[1] \in S
  OBVIOUS
<1>2. Head(q) \in Range(q)
  BY <1>1 DEF Range
<1>3. IsInjective(Tail(q))
  BY <1>1 DEF IsInjective
<1>4. ASSUME NEW x \in Range(Tail(q)) PROVE x \in Range(q) \ {Head(q)}
  BY <1>1 DEF IsInjective, Range
<1>5. ASSUME NEW x \in Range(q) \ {Head(q)} PROVE x \in Range(Tail(q))
  <2>1. PICK i \in 1 .. Len(q) : q[i] = x
    BY <1>1 DEF Range
  <2>2. i - 1 \in 1 .. Len(q) - 1 /\ Tail(q)[i - 1] = x
    BY <1>1, <1>5, <2>1
  <2> QED
    BY <1>1, <2>2 DEF Range
<1> QED
  BY <1>1, <1>2, <1>3, <1>4, <1>5

(* A queue without duplicates is no longer than the set its items are from. *)
LEMMA OnceIsShort ==
    ASSUME NEW S, IsFiniteSet(S), NEW q \in Seq(S), IsInjective(q)
    PROVE  Len(q) <= Cardinality(S)
<1>1. Len(q) \in Nat /\ q \in [1 .. Len(q) -> S]
  OBVIOUS
<1>2. \A i, j \in 1 .. Len(q) : q[i] = q[j] => i = j
  BY <1>1 DEF IsInjective
<1>3. IsFiniteSet(1 .. Len(q)) /\ Cardinality(1 .. Len(q)) = Len(q)
  BY <1>1, FS_Interval
<1>4. ~ Cardinality(S) < Cardinality(1 .. Len(q))
  BY <1>1, <1>2, <1>3, FS_PigeonHole
<1> QED
  BY <1>1, <1>3, <1>4, FS_CardinalityType

-----------------------------------------------------------------------------
(* Requests *)

(* A request has an owner, and is not what a free chunk holds. *)
LEMMA Requests ==
    /\ Blank \notin Request
    /\ \A q \in Request : Owner(q) \in Client
BY ClientAssumption DEF Request, Blank, Owner

LEMMA FiniteRequests ==
    ASSUME NEW S \in SUBSET Request PROVE IsFiniteSet(S) /\ Cardinality(S) \in Nat
<1>1. IsFiniteSet(Request)
  <2>1. IsFiniteSet(Client) /\ IsFiniteSet(1 .. MaxNumber)
    BY ClientAssumption, BoundAssumption, FS_Interval
  <2> QED
    BY <2>1, FS_Product DEF Request
<1>2. IsFiniteSet(S)
  BY <1>1, FS_Subset
<1> QED
  BY <1>2, FS_CardinalityType

-----------------------------------------------------------------------------
(* Moving a chunk *)

\* The step takes chunk k to place a of client c, and moves no other.
MovesTo(k, a, c) ==
    \A l \in Chunk, b \in Kind, d \in Whose :
        At(l, b, d)' <=> IF l = k THEN b = a /\ d = c ELSE At(l, b, d)

(* A chunk that leaves one place for another, all others staying, keeps every chunk in one. *)
LEMMA Moved ==
    ASSUME OneKind, NEW k \in Chunk, NEW a \in Kind, NEW c \in Whose, MovesTo(k, a, c)
    PROVE  OneKind'
<1> SUFFICES ASSUME NEW l \in Chunk
             PROVE  \E b \in Kind, d \in Whose : OnlyAt(l, b, d)'
  BY DEF OneKind
<1>1. CASE l = k
  BY <1>1 DEF MovesTo, OnlyAt
<1>2. CASE l # k
  <2>1. PICK b \in Kind, d \in Whose : OnlyAt(l, b, d)
    BY DEF OneKind
  <2>2. OnlyAt(l, b, d)'
    BY <1>2, <2>1 DEF MovesTo, OnlyAt
  <2> QED
    BY <2>2
<1> QED
  BY <1>1, <1>2

(* A step that leaves all of them where they are does too. *)
LEMMA Unmoved ==
    ASSUME OneKind, UNCHANGED <<free, lost, schunk, chunk, requests, responses>>
    PROVE  /\ OneKind'
           /\ \A k \in Chunk, a \in Kind, c \in Whose : At(k, a, c)' <=> At(k, a, c)
<1>1. \A k \in Chunk, a \in Kind, c \in Whose : At(k, a, c)' <=> At(k, a, c)
  BY DEF At
<1>2. \A k \in Chunk, a \in Kind, c \in Whose : OnlyAt(k, a, c)' <=> OnlyAt(k, a, c)
  BY <1>1 DEF OnlyAt
<1> QED
  BY <1>1, <1>2 DEF OneKind

(* What a chunk's one place excludes. *)
LEMMA OnlyThere ==
    ASSUME OneKind, NEW k \in Chunk, NEW a \in Kind, NEW c \in Whose, At(k, a, c)
    PROVE  OnlyAt(k, a, c)
BY DEF OneKind, OnlyAt

-----------------------------------------------------------------------------
(* Steps that move no chunk *)

(* Such a step keeps what is said of the segment, and brings no request back to life. *)
LEMMA StillInv ==
    ASSUME IndInv, UNCHANGED <<segment, queues, chunk, schunk, lost>>, active' \subseteq active
    PROVE  /\ OneKind' /\ QueuedOnce' /\ Contents'
           /\ \A q \in Request : Alive(q)' => Alive(q)
<1>1. /\ OneKind' /\ \A k \in Chunk, a \in Kind, c \in Whose : At(k, a, c)' <=> At(k, a, c)
  BY Unmoved DEF IndInv, segment, queues
<1>2. QueuedOnce'
  BY DEF IndInv, QueuedOnce, queues
<1>3. Contents'
  BY <1>1 DEF IndInv, Contents, Whose, segment
<1>4. \A q \in Request : Alive(q)' => Alive(q)
  BY DEF Alive, segment
<1> QED
  BY <1>1, <1>2, <1>3, <1>4

(* A step that brings no request to life and leaves the handles alone keeps within them. *)
LEMMA FewerAlive ==
    ASSUME IndInv, UNCHANGED <<handles, chunk, misused>>, lost' = lost \/ misused # {},
           \A q \in Request : Alive(q)' => Alive(q),
           \A c \in Client : cpc'[c] = "send" => cpc[c] = "send",
           \A c \in Client : cpc[c] = "send" =>
                               cpc'[c] = "send" /\ content'[chunk[c]] = content[chunk[c]]
    PROVE  WithinPending' /\ InTurn'
<1>1. \A c \in Client : Outstanding(c)' \subseteq Outstanding(c)
  BY DEF Outstanding
<1>2. ASSUME NEW c \in Client
      PROVE  /\ Cardinality(Outstanding(c)) \in Nat /\ Cardinality(Outstanding(c)') \in Nat
             /\ Cardinality(Outstanding(c)') <= Cardinality(Outstanding(c))
  <2>1. Outstanding(c) \in SUBSET Request /\ Outstanding(c)' \in SUBSET Outstanding(c)
    BY <1>1 DEF Outstanding
  <2>2. IsFiniteSet(Outstanding(c)) /\ IsFiniteSet(Outstanding(c)')
    BY <2>1, FiniteRequests, FS_Subset
  <2> QED
    BY <2>1, <2>2, FS_Subset, FS_CardinalityType
<1>3. \A c \in Client : handles[c] \in SUBSET Request
  BY DEF IndInv, TypeOK, ClientsTypeOK
<1>4. \A c \in Client : Cardinality(handles[c]) \in Nat /\ Busy(c) \in Nat /\ Busy(c)' = Busy(c)
  <2>1. \A c \in Client : Busy(c) \in Nat /\ Busy(c)' = Busy(c)
    BY DEF Busy
  <2> QED
    BY <1>3, <2>1, FiniteRequests
<1>5. ASSUME NEW c \in Client, Within(c) PROVE Within(c)'
  BY <1>2, <1>4, <1>5 DEF Within
<1>6. ASSUME NEW c \in Client, HasHandles(c) PROVE HasHandles(c)'
  BY <1>1, <1>6 DEF HasHandles
<1> QED
  BY <1>5, <1>6 DEF IndInv, WithinPending, InTurn

\* A step of client c changes nothing for the others.
OthersKept(c) ==
    \A d \in Client \ {c} :
        /\ cpc'[d] = cpc[d] /\ chunk'[d] = chunk[d] /\ handles'[d] = handles[d]
        /\ kept'[d] = kept[d] /\ using'[d] = using[d] /\ answer'[d] = answer[d]
        /\ d \in reused => d \in reused'
        /\ chunk[d] # NoChunk => content'[chunk[d]] = content[chunk[d]]

LEMMA OthersCalls ==
    ASSUME IndInv, NEW c \in Client, OthersKept(c), ClientCall(c)'
    PROVE  ClientCalls'
<1> SUFFICES ASSUME NEW d \in Client \ {c} PROVE ClientCall(d)'
  BY DEF ClientCalls
<1>1. ClientCall(d)
  BY DEF IndInv, ClientCalls
<1> QED
  BY <1>1 DEF ClientCall, OthersKept

LEMMA OthersPending ==
    ASSUME IndInv, NEW c \in Client, misused \subseteq misused', OthersKept(c),
           \A d \in Client \ {c} : Outstanding(d)' \subseteq Outstanding(d),
           lost' = lost \/ misused # {}, c \notin misused' => Within(c)',
           MaxPending = 1 /\ c \notin misused' => HasHandles(c)'
    PROVE  WithinPending' /\ InTurn'
<1>1. ASSUME NEW d \in Client \ {c}
      PROVE  /\ Cardinality(Outstanding(d)) \in Nat /\ Cardinality(Outstanding(d)') \in Nat
             /\ Cardinality(Outstanding(d)') <= Cardinality(Outstanding(d))
  <2>1. Outstanding(d) \in SUBSET Request /\ Outstanding(d)' \in SUBSET Outstanding(d)
    BY DEF Outstanding
  <2>2. IsFiniteSet(Outstanding(d)) /\ IsFiniteSet(Outstanding(d)')
    BY <2>1, FiniteRequests, FS_Subset
  <2> QED
    BY <2>1, <2>2, FS_Subset, FS_CardinalityType
<1>2. \A d \in Client : handles[d] \in SUBSET Request
  BY DEF IndInv, TypeOK, ClientsTypeOK
<1>3. \A d \in Client : Cardinality(handles[d]) \in Nat /\ Busy(d) \in Nat
  BY <1>2, FiniteRequests DEF Busy
<1>4. \A d \in Client \ {c} : Busy(d)' = Busy(d)
  BY DEF Busy, OthersKept
<1>5. ASSUME NEW d \in Client \ {c}, Within(d) PROVE Within(d)'
  BY <1>1, <1>3, <1>4, <1>5 DEF Within, OthersKept
<1>6. ASSUME NEW d \in Client \ {c}, HasHandles(d) PROVE HasHandles(d)'
  <2>1. chunk[d] # NoChunk <=> cpc[d] \in {"send", "copy", "free"}
    BY DEF IndInv, ClientCalls, ClientCall
  <2> QED
    BY <1>6, <2>1 DEF HasHandles, OthersKept
<1> QED
  BY <1>5, <1>6 DEF IndInv, WithinPending, InTurn

(* Creating ports. *)
LEMMA CreateInv ==
    ASSUME IndInv, CreateServer \/ \E c \in Client : CreateClient(c)
    PROVE  IndInv'
<1>1. UNCHANGED <<segment, queues, chunk, handles, kept, using, answer, srv, lost, misused, reused>>
  BY DEF CreateServer, CreateClient, client, history
<1>2. OneKind' /\ QueuedOnce' /\ Contents' /\ \A q \in Request : Alive(q)' => Alive(q)
  BY <1>1, StillInv DEF srv
<1>3. /\ cpc \in [Client -> {"absent", "idle", "send", "copy", "free"}] /\ clients \in Seq(Client)
      /\ IsInjective(clients) /\ cursor <= Len(clients) + 1 /\ cursor \in Nat
      /\ \A c \in Client : c \in Range(clients) => cpc[c] # "absent"
  BY ClientAssumption, FS_CardinalityType
  DEF IndInv, TypeOK, ClientsTypeOK, ServerTypeOK, ClientsListed
<1>4. /\ clients' \in Seq(Client) /\ cpc' \in [Client -> {"absent", "idle", "send", "copy", "free"}]
      /\ server' \in BOOLEAN /\ ClientsListed'
      /\ \A c \in Client : cpc'[c] = cpc[c] \/ (cpc[c] = "absent" /\ cpc'[c] = "idle")
  <2>1. CASE CreateServer
    BY <1>1, <1>3, <2>1 DEF CreateServer, IndInv, ClientsListed, client, srv
  <2>2. ASSUME NEW c \in Client, CreateClient(c)
        PROVE  /\ clients' \in Seq(Client)
               /\ cpc' \in [Client -> {"absent", "idle", "send", "copy", "free"}]
               /\ server' \in BOOLEAN /\ ClientsListed'
               /\ \A d \in Client : cpc'[d] = cpc[d] \/ (cpc[d] = "absent" /\ cpc'[d] = "idle")
    <3>1. /\ cpc[c] = "absent" /\ cpc' = [cpc EXCEPT ![c] = "idle"] /\ clients' = Append(clients, c)
          /\ UNCHANGED server /\ UNCHANGED cursor
      BY <1>1, <2>2 DEF CreateClient, srv
    <3>2. /\ Append(clients, c) \in Seq(Client) /\ IsInjective(Append(clients, c))
          /\ Range(Append(clients, c)) = Range(clients) \union {c}
      BY <1>3, <3>1, PushOnce
    <3>3. cursor <= Len(Append(clients, c)) + 1
      BY <1>3
    <3> QED
      BY <1>3, <3>1, <3>2, <3>3 DEF ClientsListed, IndInv, TypeOK, ServerTypeOK
  <2> QED
    BY <2>1, <2>2
<1>5. TypeOK'
  BY <1>1, <1>4
  DEF IndInv, TypeOK, SegmentTypeOK, ClientsTypeOK, ServerTypeOK, segment, queues, srv
<1>6. ClientCalls' /\ ServerCalls'
  BY <1>1, <1>4 DEF IndInv, ClientCalls, ClientCall, ServerCalls, segment, srv
<1>7. WithinPending' /\ InTurn'
  BY <1>1, <1>2, <1>4, FewerAlive DEF segment
<1> QED
  BY <1>2, <1>4, <1>5, <1>6, <1>7 DEF IndInv

(* Steps of a client that only read, or that let go of a handle. *)
LEMMA ClientStillInv ==
    ASSUME IndInv, NEW c \in Client,
           CopyResponse(c) \/ DropAnswered(c) \/ \E h \in Request : DropPending(c, h)
    PROVE  IndInv'
<1>1. UNCHANGED <<server, clients, segment, queues, chunk, using, srv, lost, reused>>
  BY DEF CopyResponse, DropAnswered, DropPending, history
<1>2. OneKind' /\ QueuedOnce' /\ Contents' /\ \A q \in Request : Alive(q)' => Alive(q)
  BY <1>1, StillInv DEF srv
<1>3. ServerTypeOK' /\ ServerCalls'
  BY <1>1 DEF IndInv, TypeOK, ServerTypeOK, ServerCalls, segment, srv
<1>4. CASE CopyResponse(c)
  <2>1. /\ cpc[c] = "copy" /\ cpc' = [cpc EXCEPT ![c] = "free"]
        /\ answer' = [answer EXCEPT ![c] = [to |-> using[c], from |-> content[chunk[c]]]]
        /\ UNCHANGED <<handles, kept, misused>>
    BY <1>4 DEF CopyResponse, history
  <2>2. /\ cpc \in [Client -> {"absent", "idle", "send", "copy", "free"}]
        /\ answer \in [Client -> [to : Request \union {Blank}, from : Request \union {Blank}]]
        /\ using[c] \in Request \union {Blank} /\ chunk[c] \in Chunk
        /\ content \in [Chunk -> Request \union {Blank}]
    BY <2>1 DEF IndInv, TypeOK, ClientsTypeOK, SegmentTypeOK, ClientCalls, ClientCall
  <2>3. SegmentTypeOK' /\ ClientsTypeOK'
    <3>1. [to |-> using[c], from |-> content[chunk[c]]]
             \in [to : Request \union {Blank}, from : Request \union {Blank}]
      BY <2>2
    <3> QED
      BY <1>1, <2>1, <2>2, <3>1
      DEF IndInv, TypeOK, ClientsTypeOK, SegmentTypeOK, segment, queues
  <2>4. ClientsListed'
    BY <1>1, <2>1, <2>2 DEF IndInv, ClientsListed, srv
  <2>5. ClientCalls'
    BY <1>1, <2>1, <2>2 DEF IndInv, ClientCalls, ClientCall, segment
  <2>6. WithinPending' /\ InTurn'
    BY <1>1, <1>2, <2>1, <2>2, FewerAlive DEF segment
  <2> QED
    BY <1>2, <1>3, <2>3, <2>4, <2>5, <2>6 DEF IndInv, TypeOK
<1>5. ASSUME NEW h \in Request, DropPending(c, h) PROVE IndInv'
  <2>1. /\ handles' = [handles EXCEPT ![c] = handles[c] \ {h}] /\ misused' = misused \union {c}
        /\ cpc[c] = "idle" /\ UNCHANGED <<cpc, kept, answer>>
    BY <1>5 DEF DropPending
  <2>2. SegmentTypeOK' /\ ClientsTypeOK'
    BY <1>1, <2>1 DEF IndInv, TypeOK, ClientsTypeOK, SegmentTypeOK, segment, queues
  <2>3. ClientsListed'
    BY <1>1, <2>1 DEF IndInv, ClientsListed, srv
  <2>4. OthersKept(c)
    BY <1>1, <2>1 DEF OthersKept, IndInv, TypeOK, ClientsTypeOK, segment
  <2>5. ClientCalls'
    <3>1. ClientCall(c) /\ ClientCall(c)'
      BY <1>1, <2>1 DEF IndInv, ClientCalls, ClientCall, segment
    <3> QED
      BY <2>4, <3>1, OthersCalls
  <2>6. \A d \in Client : Outstanding(d)' \subseteq Outstanding(d)
    BY <1>2 DEF Outstanding
  <2>7. WithinPending' /\ InTurn'
    BY <1>1, <2>1, <2>4, <2>6, OthersPending
  <2> QED
    BY <1>2, <1>3, <2>2, <2>3, <2>5, <2>7 DEF IndInv, TypeOK
<1>6. CASE DropAnswered(c)
  <2>1. /\ cpc[c] = "idle" /\ kept[c] > 0 /\ kept' = [kept EXCEPT ![c] = kept[c] - 1]
        /\ UNCHANGED <<cpc, handles, answer, misused>>
    BY <1>6 DEF DropAnswered, history
  <2>2. SegmentTypeOK' /\ ClientsTypeOK'
    <3>1. kept \in [Client -> 0 .. MaxKept] /\ MaxKept \in Nat
      BY BoundAssumption DEF IndInv, TypeOK, ClientsTypeOK
    <3>2. kept' \in [Client -> 0 .. MaxKept]
      BY <2>1, <3>1
    <3> QED
      BY <1>1, <2>1, <3>2 DEF IndInv, TypeOK, ClientsTypeOK, SegmentTypeOK, segment, queues
  <2>3. ClientsListed'
    BY <1>1, <2>1 DEF IndInv, ClientsListed, srv
  <2>4. ClientCalls'
    BY <1>1, <2>1 DEF IndInv, ClientCalls, ClientCall, TypeOK, ClientsTypeOK, segment
  <2>5. WithinPending' /\ InTurn'
    BY <1>1, <1>2, <2>1, FewerAlive DEF segment
  <2> QED
    BY <1>2, <1>3, <2>2, <2>3, <2>4, <2>5 DEF IndInv, TypeOK
<1> QED
  BY <1>4, <1>5, <1>6

(* Steps of the server that only read, or that let go of an ActiveRequest. *)
LEMMA ServerStillInv ==
    ASSUME IndInv,
           \/ ReceiveCall \/ ReceiveNone \/ CopyRequest
           \/ \E q \in Request : RespondOutOfMemory(q) \/ DropActive(q)
    PROVE  IndInv'
<1>1. UNCHANGED <<server, clients, segment, queues, client, schunk, lost, misused, reused>>
      /\ active' \subseteq active
  BY DEF ReceiveCall, ReceiveNone, CopyRequest, RespondOutOfMemory, DropActive, history
<1>2. OneKind' /\ QueuedOnce' /\ Contents' /\ \A q \in Request : Alive(q)' => Alive(q)
  BY <1>1, StillInv DEF client
<1>3. SegmentTypeOK' /\ ClientsTypeOK' /\ ClientCalls'
  BY <1>1
  DEF IndInv, TypeOK, SegmentTypeOK, ClientsTypeOK, ClientCalls, ClientCall, segment, queues, client
<1>4. WithinPending' /\ InTurn'
  BY <1>1, <1>2, FewerAlive DEF segment, client
<1>5. /\ cursor \in 1 .. Cardinality(Client) + 1 /\ Cardinality(Client) \in Nat
      /\ cursor' \in {1, cursor} /\ Len(clients) \in Nat
  BY ClientAssumption, FS_CardinalityType
  DEF IndInv, TypeOK, ServerTypeOK, ReceiveCall, ReceiveNone, CopyRequest, RespondOutOfMemory,
      DropActive
<1>6. ClientsListed'
  BY <1>1, <1>5 DEF IndInv, ClientsListed, client
<1>7. ServerTypeOK' /\ ServerCalls'
  <2>1. CASE CopyRequest
    <3>1. spc = "copy" /\ spc' = "free" /\ sreq' = content[schunk] /\ UNCHANGED <<active, content>>
      BY <1>1, <2>1 DEF CopyRequest, segment
    <3>2. schunk \in Chunk /\ content[schunk] \in Request \union {Blank}
      BY <3>1 DEF IndInv, TypeOK, ServerTypeOK, SegmentTypeOK, ServerCalls
    <3> QED
      BY <1>1, <1>5, <3>1, <3>2 DEF IndInv, TypeOK, ServerTypeOK, ServerCalls
  <2>2. CASE ~CopyRequest
    BY <1>1, <1>5, <2>2
    DEF IndInv, TypeOK, ServerTypeOK, ServerCalls, ReceiveCall, ReceiveNone, RespondOutOfMemory,
        DropActive, segment
  <2> QED
    BY <2>1, <2>2
<1> QED
  BY <1>2, <1>3, <1>4, <1>6, <1>7 DEF IndInv, TypeOK

-----------------------------------------------------------------------------
(* Steps of a client that move a chunk *)

(* What such a step leaves alone. *)
LEMMA ServerKept ==
    ASSUME IndInv, NEW c \in Client, UNCHANGED <<server, clients, srv>>,
           \A d \in Client : cpc[d] # "absent" => cpc'[d] # "absent",
           schunk # NoChunk => content'[schunk] = content[schunk]
    PROVE  ServerTypeOK' /\ ServerCalls' /\ ClientsListed'
BY DEF IndInv, TypeOK, ServerTypeOK, ServerCalls, ClientsListed, srv

(* The parts of the invariant that these proofs start from. *)
LEMMA Parts ==
    ASSUME IndInv
    PROVE  /\ free \subseteq Chunk /\ content \in [Chunk -> Request \union {Blank}]
           /\ requests \in [Client -> Seq(Chunk)] /\ responses \in [Client -> Seq(Chunk)]
           /\ lost \subseteq Chunk /\ misused \subseteq Client /\ reused \subseteq Client
           /\ cpc \in [Client -> {"absent", "idle", "send", "copy", "free"}]
           /\ chunk \in [Client -> Chunk \union {NoChunk}]
           /\ handles \in [Client -> SUBSET Request]
           /\ using \in [Client -> Request \union {Blank}]
           /\ schunk \in Chunk \union {NoChunk} /\ active \subseteq Request
           /\ NoChunk \notin Chunk /\ NoClient \notin Client
BY ClientAssumption, ChunkAssumption
DEF IndInv, TypeOK, SegmentTypeOK, ClientsTypeOK, ServerTypeOK

(* Client::send takes a chunk from the pool and writes a new request to it ... *)
LEMMA SendAllocateInv ==
    ASSUME IndInv, NEW c \in Client, SendAllocate(c)
    PROVE  IndInv'
<1>1. PICK k \in Chunk, q \in Request :
         /\ Owner(q) = c /\ ~InUse(q) /\ Allocate(k, q)
         /\ chunk' = [chunk EXCEPT ![c] = k]
  BY DEF SendAllocate
<1>2. /\ cpc[c] = "idle" /\ cpc' = [cpc EXCEPT ![c] = "send"]
      /\ misused' = misused \union (IF Cardinality(handles[c]) < MaxPending THEN {} ELSE {c})
      /\ UNCHANGED <<server, clients, queues, handles, kept, using, answer, srv, lost, reused>>
      /\ k \in free /\ free' = free \ {k} /\ content' = [content EXCEPT ![k] = q]
  BY <1>1 DEF SendAllocate, Allocate
<1> USE Parts
<1>3. OnlyAt(k, "free", NoClient) /\ chunk[c] = NoChunk
  <2>1. "free" \in Kind /\ NoClient \in Whose /\ At(k, "free", NoClient)
    BY <1>2 DEF Kind, Whose, At
  <2> QED
    BY <1>2, <2>1, OnlyThere DEF IndInv, ClientCalls, ClientCall
<1>4. /\ k \notin lost /\ schunk # k /\ \A d \in Client : chunk[d] # k
      /\ content[k] = Blank
      /\ \A d \in Client : k \notin Range(requests[d]) /\ k \notin Range(responses[d])
  BY <1>2, <1>3 DEF OnlyAt, At, Kind, Whose, IndInv, Contents
<1>5. /\ \A l \in Chunk \ {k} : content'[l] = content[l]
      /\ content'[k] = q /\ q # Blank
      /\ chunk'[c] = k /\ cpc'[c] = "send"
      /\ OthersKept(c)
  BY <1>1, <1>2, <1>4, Requests DEF OthersKept
<1>6. MovesTo(k, "client", c)
  <2>1. \A d \in Client, l \in Chunk : chunk'[d] = l <=> chunk[d] = l \/ (d = c /\ l = k)
    BY <1>1, <1>3
  <2> QED
    BY <1>2, <1>4, <2>1 DEF MovesTo, At, Kind, Whose, queues, srv
<1>7. OneKind'
  <2>1. "client" \in Kind /\ c \in Whose
    BY DEF Kind, Whose
  <2> QED
    BY <1>6, <2>1, Moved DEF IndInv
<1>8. QueuedOnce' /\ SegmentTypeOK' /\ ClientsTypeOK'
  BY <1>1, <1>2
  DEF IndInv, QueuedOnce, TypeOK, SegmentTypeOK, ClientsTypeOK, queues
<1>9. ServerTypeOK' /\ ServerCalls' /\ ClientsListed'
  BY <1>2, <1>4, <1>5, ServerKept
<1>10. ClientCalls'
  <2>1. q \notin handles[c]
    BY <1>1 DEF InUse
  <2>2. ClientCall(c) /\ ClientCall(c)'
    BY <1>2, <1>3, <1>5, <2>1 DEF IndInv, ClientCalls, ClientCall
  <2> QED
    BY <1>5, <2>2, OthersCalls
<1>11. Contents'
  <2>1. \A l \in Chunk : l \in free' <=> content'[l] = Blank
    BY <1>2, <1>5 DEF IndInv, Contents
  <2>2. ASSUME NEW l \in Chunk, NEW d \in Client, NEW a \in Kind, At(l, a, d)'
        PROVE  Owner(content'[l]) = d
    <3>1. CASE l = k
      BY <1>1, <1>5, <1>6, <2>2, <3>1 DEF MovesTo, Whose
    <3>2. CASE l # k
      BY <1>5, <1>6, <2>2, <3>2 DEF MovesTo, Whose, IndInv, Contents
    <3> QED
      BY <3>1, <3>2
  <2>3. q \notin active /\ \A l \in Chunk \ lost : content[l] # q
    BY <1>1 DEF InUse
  <2>4. \A l \in Chunk \ lost' : content'[l] # Blank =>
           /\ content'[l] \notin active'
           /\ \A m \in Chunk \ lost' : content'[m] = content'[l] => m = l
    BY <1>2, <1>5, <2>3 DEF IndInv, Contents, srv
  <2> QED
    BY <2>1, <2>2, <2>4 DEF Contents
<1>12. \A r \in Request : Alive(r)' <=> Alive(r) \/ r = q
  <2>1. UNCHANGED <<active, lost>>
    BY <1>2 DEF srv
  <2>2. ASSUME NEW r \in Request, Alive(r)' PROVE Alive(r) \/ r = q
    BY <1>5, <2>1, <2>2 DEF Alive
  <2>3. Alive(q)'
    BY <1>4, <1>5, <2>1 DEF Alive
  <2>4. ASSUME NEW r \in Request, Alive(r) PROVE Alive(r)'
    BY <1>4, <1>5, <2>1, <2>4, Requests DEF Alive
  <2> QED
    BY <2>2, <2>3, <2>4
<1>13. Outstanding(c)' = Outstanding(c) \union {q} /\ \A d \in Client \ {c} : Outstanding(d)' = Outstanding(d)
  BY <1>1, <1>12 DEF Outstanding
<1>14. c \notin misused' => Within(c)'
  <2> SUFFICES ASSUME c \notin misused' PROVE Within(c)'
    OBVIOUS
  <2>1. c \notin misused /\ Cardinality(handles[c]) < MaxPending
    BY <1>2
  <2>2. Cardinality(Outstanding(c)) <= Cardinality(handles[c]) + Busy(c)
    BY <2>1 DEF IndInv, WithinPending, Within
  <2>3. Busy(c) = 0 /\ Busy(c)' = 1
    BY <1>2, <1>5 DEF Busy
  <2>4. Cardinality(Outstanding(c)') <= Cardinality(Outstanding(c)) + 1
    <3>1. Outstanding(c) \in SUBSET Request
      BY DEF Outstanding
    <3>2. IsFiniteSet(Outstanding(c)) /\ Cardinality(Outstanding(c)) \in Nat
      BY <3>1, FiniteRequests
    <3>3. \/ Cardinality(Outstanding(c) \union {q}) = Cardinality(Outstanding(c))
          \/ Cardinality(Outstanding(c) \union {q}) = Cardinality(Outstanding(c)) + 1
      BY <3>2, FS_AddElement
    <3> QED
      BY <1>13, <3>2, <3>3
  <2>5. /\ Cardinality(handles[c]) \in Nat /\ Cardinality(Outstanding(c)) \in Nat
        /\ Cardinality(Outstanding(c)') \in Nat
    <3>1. /\ handles[c] \in SUBSET Request /\ Outstanding(c) \in SUBSET Request
          /\ Outstanding(c) \union {q} \in SUBSET Request
      BY DEF Outstanding
    <3> QED
      BY <1>13, <3>1, FiniteRequests
  <2> QED
    BY <1>2, <2>1, <2>2, <2>3, <2>4, <2>5, PendingAssumption DEF Within
<1>15. MaxPending = 1 /\ c \notin misused' => HasHandles(c)'
  BY <1>2, <1>3, <1>5, <1>13 DEF IndInv, InTurn, HasHandles
<1>16. misused \subseteq misused' /\ lost' = lost
  BY <1>2
<1>17. WithinPending' /\ InTurn'
  BY <1>5, <1>13, <1>14, <1>15, <1>16, OthersPending
<1> QED
  BY <1>7, <1>8, <1>9, <1>10, <1>11, <1>17 DEF IndInv, TypeOK

(* As long as its application keeps to its limit, a client's queue has room for one more
   of its chunks: what is in it is outstanding. *)
LEMMA RoomForOneMore ==
    ASSUME IndInv, NEW c \in Client \ misused, NEW Q \in Seq(Chunk), IsInjective(Q),
           NEW k \in Chunk, k \notin Range(Q),
           \A l \in Range(Q) \union {k} :
              l \notin lost /\ content[l] \in Request /\ Owner(content[l]) = c
    PROVE  HasRoom(Q)
<1> DEFINE R == Append(Q, k)
           r == [i \in 1 .. Len(Q) + 1 |-> content[R[i]]]
<1>1. Within(c)
  BY DEF IndInv, WithinPending
<1>2. /\ R \in Seq(Chunk) /\ Len(Q) \in Nat /\ Len(R) = Len(Q) + 1 /\ IsInjective(R)
      /\ Range(R) = Range(Q) \union {k}
  BY PushOnce
<1>3. \A i \in 1 .. Len(Q) + 1 : R[i] \in Chunk /\ R[i] \in Range(R)
  BY <1>2 DEF Range
<1> HIDE DEF R
<1>4. \A i \in 1 .. Len(Q) + 1 : r[i] \in Outstanding(c)
  BY <1>2, <1>3 DEF Outstanding, Alive
<1>5. r \in Seq(Outstanding(c)) /\ Len(r) = Len(Q) + 1
  BY <1>2, <1>4
<1>6. ASSUME NEW i \in 1 .. Len(Q) + 1, NEW j \in 1 .. Len(Q) + 1, r[i] = r[j] PROVE i = j
  <2>1. content[R[i]] = content[R[j]] /\ content[R[i]] # Blank
    BY <1>2, <1>3, <1>6, Requests
  <2>2. R[i] = R[j]
    BY <1>2, <1>3, <2>1 DEF IndInv, Contents
  <2> QED
    BY <1>2, <2>2 DEF IsInjective
<1>7. IsInjective(r)
  BY <1>6 DEF IsInjective
<1>8. /\ IsFiniteSet(Outstanding(c)) /\ Cardinality(Outstanding(c)) \in Nat
      /\ Cardinality(handles[c]) \in Nat /\ Busy(c) \in Nat
  <2>1. Outstanding(c) \in SUBSET Request /\ handles[c] \in SUBSET Request
    BY Parts DEF Outstanding
  <2> QED
    BY <2>1, FiniteRequests DEF Busy
<1>9. Len(Q) + 1 <= Cardinality(Outstanding(c))
  BY <1>5, <1>7, <1>8, OnceIsShort
<1> QED
  BY <1>1, <1>2, <1>8, <1>9, QueueAssumption, PendingAssumption DEF Within, HasRoom

(* The chunk of a client's call is nowhere else. *)
LEMMA InClientsHand ==
    ASSUME IndInv, NEW c \in Client, chunk[c] # NoChunk
    PROVE  /\ chunk[c] \in Chunk /\ chunk[c] \notin free /\ chunk[c] \notin lost /\ chunk[c] # schunk
           /\ \A d \in Client : /\ chunk[c] \notin Range(requests[d])
                                 /\ chunk[c] \notin Range(responses[d])
           /\ \A d \in Client \ {c} : chunk[d] # chunk[c]
           /\ content[chunk[c]] \in Request /\ Owner(content[chunk[c]]) = c
<1>1. chunk[c] \in Chunk
  BY Parts
<1>2. PICK k \in Chunk : k = chunk[c]
  BY <1>1
<1>3. "client" \in Kind /\ c \in Whose /\ At(k, "client", c)
  BY <1>2 DEF At, Kind, Whose
<1>4. OnlyAt(k, "client", c)
  BY <1>3, OnlyThere DEF IndInv
<1>5. k \notin free /\ k \notin lost /\ k # schunk
  BY <1>4, Parts DEF OnlyAt, At, Kind, Whose
<1>6. \A d \in Client : k \notin Range(requests[d]) /\ k \notin Range(responses[d])
  BY <1>4 DEF OnlyAt, At, Kind, Whose
<1>7. \A d \in Client \ {c} : chunk[d] # k
  BY <1>4 DEF OnlyAt, At, Kind, Whose
<1>8. content[k] \in Request /\ Owner(content[k]) = c
  BY <1>3, <1>5, Parts DEF IndInv, Contents
<1> QED
  BY <1>2, <1>5, <1>6, <1>7, <1>8

(* What is queued at a client is a request of its own, or the answer to one. *)
LEMMA QueuedAreOwn ==
    ASSUME IndInv, NEW c \in Client, NEW l \in Range(requests[c]) \union Range(responses[c])
    PROVE  l \in Chunk /\ l \notin lost /\ content[l] \in Request /\ Owner(content[l]) = c
<1>1. requests[c] \in Seq(Chunk) /\ responses[c] \in Seq(Chunk)
  BY Parts
<1>2. l \in Chunk
  BY <1>1 DEF Range
<1>3. PICK a \in {"request", "response"} : At(l, a, c)
  BY DEF At
<1>4. a \in Kind /\ c \in Whose /\ a # "free"
  BY <1>3 DEF Kind, Whose
<1>5. OnlyAt(l, a, c)
  BY <1>2, <1>3, <1>4, OnlyThere DEF IndInv
<1>6. l \notin free /\ l \notin lost
  BY <1>4, <1>5 DEF OnlyAt, At, Kind, Whose
<1> QED
  BY <1>2, <1>3, <1>4, <1>6, Parts DEF IndInv, Contents

(* A step that moves a chunk and keeps what the chunks hold keeps Contents. *)
LEMMA ContentsKept ==
    ASSUME IndInv, NEW k \in Chunk, NEW a \in Kind, NEW c \in Whose, MovesTo(k, a, c),
           UNCHANGED <<segment, active>>, lost \subseteq lost',
           c \in Client => Owner(content[k]) = c
    PROVE  Contents' /\ \A q \in Request : Alive(q)' => Alive(q)
<1>1. ASSUME NEW l \in Chunk, NEW d \in Client, NEW b \in Kind, At(l, b, d)'
      PROVE  Owner(content'[l]) = d
  <2>1. CASE l = k
    BY <1>1, <2>1 DEF MovesTo, Whose, segment
  <2>2. CASE l # k
    BY <1>1, <2>2 DEF MovesTo, Whose, IndInv, Contents, segment
  <2> QED
    BY <2>1, <2>2
<1>2. Contents'
  BY <1>1 DEF IndInv, Contents, segment
<1> QED
  BY <1>2 DEF Alive, segment

(* ... puts it in the request queue, or is refused, which only happens to an application
   that has not kept to its limit ... *)
LEMMA SendDoneInv ==
    ASSUME IndInv, NEW c \in Client, SendPush(c) \/ SendQueueFull(c)
    PROVE  IndInv'
<1> USE Parts
<1>1. /\ cpc[c] = "send" /\ cpc' = [cpc EXCEPT ![c] = "idle"]
      /\ chunk' = [chunk EXCEPT ![c] = NoChunk]
      /\ UNCHANGED <<server, clients, segment, responses, kept, using, answer, srv, misused, reused>>
  BY DEF SendPush, SendQueueFull, SendDone
<1>2. chunk[c] # NoChunk /\ content[chunk[c]] \notin handles[c]
  BY <1>1 DEF IndInv, ClientCalls, ClientCall
<1>3. PICK k \in Chunk : k = chunk[c]
  BY <1>2
<1>4. /\ k \notin free /\ k \notin lost /\ k # schunk
      /\ \A d \in Client : k \notin Range(requests[d]) /\ k \notin Range(responses[d])
      /\ \A d \in Client \ {c} : chunk[d] # k
      /\ content[k] \in Request /\ Owner(content[k]) = c
  BY <1>2, <1>3, InClientsHand
<1>5. ServerTypeOK' /\ ServerCalls' /\ ClientsListed'
  BY <1>1, ServerKept DEF segment
<1>6. \A d \in Client, l \in Chunk : chunk'[d] = l <=> chunk[d] = l /\ ~(d = c /\ l = k)
  BY <1>1, <1>3
<1>7. Outstanding(c) \in SUBSET Request /\ Cardinality(Outstanding(c)) \in Nat
  BY FiniteRequests DEF Outstanding
<1>8. CASE SendPush(c)
  <2>1. /\ requests' = [requests EXCEPT ![c] = Append(requests[c], k)]
        /\ handles' = [handles EXCEPT ![c] = handles[c] \union {content[k]}]
        /\ UNCHANGED lost
    BY <1>3, <1>8 DEF SendPush
  <2>2. /\ Append(requests[c], k) \in Seq(Chunk) /\ IsInjective(Append(requests[c], k))
        /\ Range(Append(requests[c], k)) = Range(requests[c]) \union {k}
    BY <1>4, PushOnce DEF IndInv, QueuedOnce
  <2>3. SegmentTypeOK' /\ ClientsTypeOK'
    BY <1>1, <1>4, <2>1, <2>2 DEF IndInv, TypeOK, SegmentTypeOK, ClientsTypeOK, segment
  <2>4. QueuedOnce'
    BY <1>1, <2>1, <2>2 DEF IndInv, QueuedOnce
  <2>5. \A d \in Client, l \in Chunk :
           l \in Range(requests'[d]) <=> l \in Range(requests[d]) \/ (d = c /\ l = k)
    BY <2>1, <2>2
  <2>6. MovesTo(k, "request", c)
    BY <1>1, <1>4, <1>6, <2>1, <2>5 DEF MovesTo, At, Kind, Whose, segment, srv
  <2>7. "request" \in Kind /\ c \in Whose
    BY DEF Kind, Whose
  <2>8. OneKind'
    BY <2>6, <2>7, Moved DEF IndInv
  <2>9. Contents' /\ \A q \in Request : Alive(q)' => Alive(q)
    BY <1>1, <1>4, <2>1, <2>6, <2>7, ContentsKept DEF srv
  <2>10. OthersKept(c)
    BY <1>1, <2>1 DEF OthersKept, segment
  <2>11. ClientCalls'
    <3>1. ClientCall(c) /\ ClientCall(c)'
      BY <1>1, <2>1 DEF IndInv, ClientCalls, ClientCall
    <3> QED
      BY <2>10, <3>1, OthersCalls
  <2>12. \A d \in Client : Outstanding(d)' \subseteq Outstanding(d)
    BY <2>9 DEF Outstanding
  <2>13. c \notin misused' => Within(c)'
    <3> SUFFICES ASSUME c \notin misused PROVE Within(c)'
      BY <1>1
    <3>1. Within(c)
      BY DEF IndInv, WithinPending
    <3>2. Busy(c) = 1 /\ Busy(c)' = 0
      BY <1>1 DEF Busy
    <3>3. Cardinality(handles'[c]) = Cardinality(handles[c]) + 1 /\ Cardinality(handles[c]) \in Nat
      <4>1. handles[c] \in SUBSET Request /\ content[k] \notin handles[c]
        BY <1>2, <1>3
      <4>2. IsFiniteSet(handles[c]) /\ Cardinality(handles[c]) \in Nat
        BY <4>1, FiniteRequests
      <4>3. Cardinality(handles[c] \union {content[k]}) = Cardinality(handles[c]) + 1
        BY <4>1, <4>2, FS_AddElement
      <4>4. handles'[c] = handles[c] \union {content[k]}
        BY <2>1
      <4> QED
        BY <4>2, <4>3, <4>4
    <3>4. Cardinality(Outstanding(c)') <= Cardinality(Outstanding(c))
      /\ Cardinality(Outstanding(c)') \in Nat
      <4>1. Outstanding(c)' \in SUBSET Outstanding(c) /\ Outstanding(c)' \in SUBSET Request
        BY <1>7, <2>12
      <4> QED
        BY <1>7, <4>1, FiniteRequests, FS_Subset
    <3> QED
      BY <1>7, <2>1, <3>1, <3>2, <3>3, <3>4, PendingAssumption DEF Within
  <2>14. MaxPending = 1 /\ c \notin misused' => HasHandles(c)'
    BY <1>1, <1>3, <2>1, <2>12 DEF IndInv, InTurn, HasHandles
  <2>15. WithinPending' /\ InTurn'
    BY <1>1, <2>1, <2>10, <2>12, <2>13, <2>14, OthersPending
  <2> QED
    BY <1>5, <2>3, <2>4, <2>8, <2>9, <2>11, <2>15 DEF IndInv, TypeOK
<1>9. CASE SendQueueFull(c)
  <2>1. /\ ~HasRoom(requests[c]) /\ lost' = lost \union {k} /\ UNCHANGED <<requests, handles>>
    BY <1>3, <1>9 DEF SendQueueFull
  <2>2. c \in misused
    <3>1. \A l \in Range(requests[c]) \union {k} :
             l \notin lost /\ content[l] \in Request /\ Owner(content[l]) = c
      BY <1>4, QueuedAreOwn
    <3>2. requests[c] \in Seq(Chunk) /\ IsInjective(requests[c]) /\ k \notin Range(requests[c])
      BY <1>4 DEF IndInv, QueuedOnce
    <3> QED
      BY <2>1, <3>1, <3>2, RoomForOneMore
  <2>3. SegmentTypeOK' /\ ClientsTypeOK' /\ QueuedOnce'
    BY <1>1, <1>4, <2>1 DEF IndInv, TypeOK, SegmentTypeOK, ClientsTypeOK, QueuedOnce, segment
  <2>4. MovesTo(k, "lost", NoClient)
    BY <1>1, <1>4, <1>6, <2>1 DEF MovesTo, At, Kind, Whose, segment, srv
  <2>5. "lost" \in Kind /\ NoClient \in Whose
    BY DEF Kind, Whose
  <2>6. OneKind'
    BY <2>4, <2>5, Moved DEF IndInv
  <2>7. Contents' /\ \A q \in Request : Alive(q)' => Alive(q)
    BY <1>1, <2>1, <2>4, <2>5, ContentsKept DEF srv
  <2>8. OthersKept(c)
    BY <1>1, <2>1 DEF OthersKept, segment
  <2>9. ClientCalls'
    <3>1. ClientCall(c) /\ ClientCall(c)'
      BY <1>1, <2>1 DEF IndInv, ClientCalls, ClientCall
    <3> QED
      BY <2>8, <3>1, OthersCalls
  <2>10. WithinPending' /\ InTurn'
    <3>1. \A d \in Client : Outstanding(d)' \subseteq Outstanding(d)
      BY <2>7 DEF Outstanding
    <3> QED
      BY <1>1, <2>2, <2>8, <3>1, OthersPending
  <2> QED
    BY <1>5, <2>3, <2>6, <2>7, <2>9, <2>10 DEF IndInv, TypeOK
<1> QED
  BY <1>8, <1>9

(* PendingResponse::try_receive pops a response of its client ... *)
LEMMA PopResponseInv ==
    ASSUME IndInv, NEW c \in Client, PopResponse(c),
           NEW u \in Request \union {Blank}, using' = [using EXCEPT ![c] = u],
           u \in handles[c] \/ (kept[c] > 0 /\ c \in reused'),
           reused \subseteq reused', reused' \subseteq Client
    PROVE  IndInv'
<1> USE Parts
<1>1. /\ cpc[c] = "idle" /\ responses[c] # <<>>
      /\ responses' = [responses EXCEPT ![c] = Tail(responses[c])]
      /\ cpc' = [cpc EXCEPT ![c] = "copy"]
      /\ UNCHANGED <<server, clients, segment, requests, handles, kept, answer, srv, lost, misused>>
  BY DEF PopResponse
<1>2. /\ Head(responses[c]) \in Chunk /\ Head(responses[c]) \in Range(responses[c])
      /\ Tail(responses[c]) \in Seq(Chunk) /\ IsInjective(Tail(responses[c]))
      /\ Range(Tail(responses[c])) = Range(responses[c]) \ {Head(responses[c])}
  BY <1>1, PopOnce DEF IndInv, QueuedOnce
<1>3. PICK k \in Chunk : k = Head(responses[c])
  BY <1>2
<1>4. chunk' = [chunk EXCEPT ![c] = k] /\ chunk[c] = NoChunk
  BY <1>1, <1>3 DEF PopResponse, IndInv, ClientCalls, ClientCall
<1>5. "response" \in Kind /\ c \in Whose /\ At(k, "response", c)
  BY <1>2, <1>3 DEF At, Kind, Whose
<1>6. OnlyAt(k, "response", c)
  BY <1>5, OnlyThere DEF IndInv
<1>7. /\ k \notin free /\ k \notin lost /\ k # schunk
      /\ \A d \in Client : k \notin Range(requests[d]) /\ chunk[d] # k
      /\ \A d \in Client \ {c} : k \notin Range(responses[d])
  BY <1>6 DEF OnlyAt, At, Kind, Whose
<1>8. Owner(content[k]) = c
  BY <1>5 DEF IndInv, Contents
<1>9. ServerTypeOK' /\ ServerCalls' /\ ClientsListed'
  BY <1>1, ServerKept DEF segment
<1>10. SegmentTypeOK' /\ ClientsTypeOK'
  BY <1>1, <1>2, <1>4 DEF IndInv, TypeOK, SegmentTypeOK, ClientsTypeOK, segment
<1>11. QueuedOnce'
  BY <1>1, <1>2 DEF IndInv, QueuedOnce
<1>12. MovesTo(k, "client", c)
  <2>1. \A d \in Client, l \in Chunk :
           l \in Range(responses'[d]) <=> l \in Range(responses[d]) /\ ~(d = c /\ l = k)
    BY <1>1, <1>2, <1>3
  <2>2. \A d \in Client, l \in Chunk : chunk'[d] = l <=> chunk[d] = l \/ (d = c /\ l = k)
    BY <1>4
  <2> QED
    BY <1>1, <1>7, <2>1, <2>2 DEF MovesTo, At, Kind, Whose, segment, srv
<1>13. "client" \in Kind
  BY DEF Kind
<1>14. OneKind'
  BY <1>5, <1>12, <1>13, Moved DEF IndInv
<1>15. Contents' /\ \A q \in Request : Alive(q)' => Alive(q)
  BY <1>1, <1>5, <1>8, <1>12, <1>13, ContentsKept DEF srv
<1>16. OthersKept(c)
  BY <1>1, <1>4 DEF OthersKept, segment
<1>17. ClientCalls'
  <2>1. ClientCall(c) /\ ClientCall(c)'
    BY <1>1, <1>4, Requests DEF IndInv, ClientCalls, ClientCall
  <2> QED
    BY <1>16, <2>1, OthersCalls
<1>18. \A d \in Client : Outstanding(d)' \subseteq Outstanding(d)
  BY <1>15 DEF Outstanding
<1>19. WithinPending' /\ InTurn'
  <2>2. Busy(c) = 0 /\ Busy(c)' = 0 /\ Cardinality(handles[c]) \in Nat
    BY <1>1, FiniteRequests DEF Busy
  <2>3. /\ Cardinality(Outstanding(c)') <= Cardinality(Outstanding(c))
        /\ Cardinality(Outstanding(c)') \in Nat /\ Cardinality(Outstanding(c)) \in Nat
    <3>1. /\ Outstanding(c)' \in SUBSET Outstanding(c) /\ Outstanding(c)' \in SUBSET Request
          /\ Outstanding(c) \in SUBSET Request
      BY <1>18 DEF Outstanding
    <3> QED
      BY <3>1, FiniteRequests, FS_Subset
  <2>4. c \notin misused' => Within(c)'
    BY <1>1, <2>2, <2>3, PendingAssumption DEF IndInv, WithinPending, Within
  <2>5. MaxPending = 1 /\ c \notin misused' => HasHandles(c)'
    BY <1>1, <1>18 DEF IndInv, InTurn, HasHandles
  <2> QED
    BY <1>1, <1>16, <1>18, <2>4, <2>5, OthersPending
<1> QED
  BY <1>9, <1>10, <1>11, <1>14, <1>15, <1>17, <1>19 DEF IndInv, TypeOK

(* ... whether or not the handle has given one before ... *)
LEMMA TryReceiveInv ==
    ASSUME IndInv, NEW c \in Client,
           TryReceiveAgain(c) \/ \E h \in Request : TryReceive(c, h)
    PROVE  IndInv'
<1> USE Parts
<1>1. ASSUME NEW h \in Request, TryReceive(c, h) PROVE IndInv'
  BY <1>1, PopResponseInv DEF TryReceive
<1>2. CASE TryReceiveAgain(c)
  <2>1. using[c] = Blank
    BY <1>2 DEF TryReceiveAgain, PopResponse, IndInv, ClientCalls, ClientCall
  <2>2. using' = [using EXCEPT ![c] = Blank]
    BY <1>2, <2>1 DEF TryReceiveAgain
  <2>3. /\ PopResponse(c) /\ kept[c] > 0 /\ c \in reused'
        /\ reused \subseteq reused' /\ reused' \subseteq Client
    BY <1>2 DEF TryReceiveAgain, IndInv, TypeOK, SegmentTypeOK
  <2> QED
    BY <2>2, <2>3, PopResponseInv
<1> QED
  BY <1>1, <1>2

(* A step that gives a chunk back to the pool keeps Contents, and the request it held lives
   on only if the server's application has been given it. *)
LEMMA ContentsFreed ==
    ASSUME IndInv, NEW k \in Chunk, MovesTo(k, "free", NoClient), UNCHANGED lost,
           k \notin lost, content[k] # Blank,
           free' = free \union {k}, content' = [content EXCEPT ![k] = Blank],
           active' \subseteq active \union {content[k]}
    PROVE  /\ Contents'
           /\ \A q \in Request : Alive(q)' => Alive(q) /\ (q = content[k] => q \in active')
<1> USE Parts
<1>1. content'[k] = Blank /\ \A l \in Chunk \ {k} : content'[l] = content[l]
  OBVIOUS
<1>2. \A l \in Chunk : l \in free' <=> content'[l] = Blank
  BY <1>1 DEF IndInv, Contents
<1>3. ASSUME NEW l \in Chunk, NEW d \in Client, NEW b \in Kind, At(l, b, d)'
      PROVE  Owner(content'[l]) = d
  <2>1. d \in Whose /\ d # NoClient
    BY ClientAssumption DEF Whose
  <2>2. l # k /\ At(l, b, d)
    BY <1>3, <2>1 DEF MovesTo
  <2> QED
    BY <1>1, <2>2 DEF IndInv, Contents
<1>4. \A l \in Chunk \ lost : content[l] = content[k] => l = k
  BY DEF IndInv, Contents
<1>5. \A l \in Chunk \ lost' : content'[l] # Blank =>
         /\ content'[l] \notin active'
         /\ \A m \in Chunk \ lost' : content'[m] = content'[l] => m = l
  BY <1>1, <1>4 DEF IndInv, Contents
<1>6. Contents'
  BY <1>2, <1>3, <1>5 DEF Contents
<1>7. \A q \in Request : Alive(q)' => Alive(q)
  BY <1>1, Requests DEF Alive
<1>8. ~(\E l \in Chunk \ lost' : content'[l] = content[k])
  BY <1>1, <1>4
<1> QED
  BY <1>6, <1>7, <1>8 DEF Alive

(* ... which goes back to the pool once it has been read: one request less is outstanding. *)
LEMMA FreeResponseInv ==
    ASSUME IndInv, NEW c \in Client, FreeResponse(c)
    PROVE  IndInv'
<1> USE Parts
<1>1. /\ cpc[c] = "free" /\ cpc' = [cpc EXCEPT ![c] = "idle"]
      /\ chunk' = [chunk EXCEPT ![c] = NoChunk] /\ using' = [using EXCEPT ![c] = Blank]
      /\ answer' = [answer EXCEPT ![c] = [to |-> Blank, from |-> Blank]]
      /\ handles' = [handles EXCEPT ![c] = handles[c] \ {using[c]}]
      /\ UNCHANGED <<server, clients, queues, srv, lost, misused, reused>>
  BY DEF FreeResponse, history
<1>2. chunk[c] # NoChunk /\ (using[c] = Blank => kept[c] > 0)
  <2>1. ClientCall(c) /\ Blank \notin handles[c]
    BY Requests DEF IndInv, ClientCalls
  <2> QED
    BY <1>1, <2>1 DEF ClientCall
<1>3. PICK k \in Chunk : k = chunk[c]
  BY <1>2
<1>4. /\ k \notin free /\ k \notin lost /\ k # schunk
      /\ \A d \in Client : k \notin Range(requests[d]) /\ k \notin Range(responses[d])
      /\ \A d \in Client \ {c} : chunk[d] # k
      /\ content[k] \in Request /\ Owner(content[k]) = c
  BY <1>2, <1>3, InClientsHand
<1>5. /\ free' = free \union {k} /\ content' = [content EXCEPT ![k] = Blank]
      /\ content'[k] = Blank /\ \A l \in Chunk \ {k} : content'[l] = content[l]
  BY <1>3 DEF FreeResponse, Deallocate
<1>6. ServerTypeOK' /\ ServerCalls' /\ ClientsListed'
  BY <1>1, <1>4, <1>5, ServerKept
<1>7. SegmentTypeOK' /\ ClientsTypeOK' /\ QueuedOnce'
  <2>1. [to |-> Blank, from |-> Blank] \in [to : Request \union {Blank}, from : Request \union {Blank}]
    OBVIOUS
  <2>2. kept' \in [Client -> 0 .. MaxKept]
    <3>1. PICK n \in {kept[c], IF using[c] = Blank THEN kept[c] - 1 ELSE kept[c] + 1} :
             n <= MaxKept /\ kept' = [kept EXCEPT ![c] = n]
      BY DEF FreeResponse
    <3>2. kept \in [Client -> 0 .. MaxKept] /\ MaxKept \in Nat
      BY BoundAssumption DEF IndInv, TypeOK, ClientsTypeOK
    <3>3. n \in 0 .. MaxKept
      BY <1>2, <3>1, <3>2
    <3> QED
      BY <3>1, <3>2, <3>3
  <2> QED
    BY <1>1, <1>5, <2>1, <2>2
    DEF IndInv, TypeOK, SegmentTypeOK, ClientsTypeOK, QueuedOnce, queues
<1>8. MovesTo(k, "free", NoClient)
  <2>1. \A d \in Client, l \in Chunk : chunk'[d] = l <=> chunk[d] = l /\ ~(d = c /\ l = k)
    BY <1>1, <1>3
  <2> QED
    BY <1>1, <1>4, <1>5, <2>1 DEF MovesTo, At, Kind, Whose, queues, srv
<1>9. OneKind'
  <2>1. "free" \in Kind /\ NoClient \in Whose
    BY DEF Kind, Whose
  <2> QED
    BY <1>8, <2>1, Moved DEF IndInv
<1>10. content[k] \notin active /\ UNCHANGED active
  BY <1>1, <1>4, Requests DEF IndInv, Contents, srv
<1>11. Contents' /\ \A q \in Request : Alive(q)' => Alive(q) /\ q # content[k]
  BY <1>1, <1>4, <1>5, <1>8, <1>10, Requests, ContentsFreed
<1>12. OthersKept(c)
  BY <1>1, <1>4, <1>5 DEF OthersKept, FreeResponse
<1>13. ClientCalls'
  <2>1. answer'[c] = [to |-> Blank, from |-> Blank]
    BY <1>1 DEF IndInv, TypeOK, ClientsTypeOK
  <2>2. ClientCall(c)'
    BY <1>1, <2>1 DEF ClientCall
  <2> QED
    BY <1>12, <2>2, OthersCalls
<1>14. /\ \A d \in Client : Outstanding(d)' \subseteq Outstanding(d)
       /\ content[k] \in Outstanding(c) /\ content[k] \notin Outstanding(c)'
  BY <1>4, <1>11 DEF Outstanding, Alive
<1>15. /\ IsFiniteSet(Outstanding(c)) /\ Cardinality(Outstanding(c)) \in Nat
       /\ Cardinality(Outstanding(c)') \in Nat
       /\ Cardinality(Outstanding(c)') <= Cardinality(Outstanding(c)) - 1
  <2>1. Outstanding(c) \in SUBSET Request
    BY DEF Outstanding
  <2>2. IsFiniteSet(Outstanding(c)) /\ Cardinality(Outstanding(c)) \in Nat
    BY <2>1, FiniteRequests
  <2>3. /\ IsFiniteSet(Outstanding(c) \ {content[k]})
        /\ Cardinality(Outstanding(c) \ {content[k]}) = Cardinality(Outstanding(c)) - 1
    BY <1>14, <2>2, FS_RemoveElement
  <2>4. Outstanding(c)' \in SUBSET (Outstanding(c) \ {content[k]})
    BY <1>14
  <2> QED
    BY <2>2, <2>3, <2>4, FS_Subset, FS_CardinalityType
<1>16. /\ Busy(c) = 0 /\ Busy(c)' = 0
       /\ Cardinality(handles[c]) \in Nat /\ Cardinality(handles'[c]) \in Nat
       /\ Cardinality(handles[c]) - 1 <= Cardinality(handles'[c])
       /\ Cardinality(handles'[c]) <= Cardinality(handles[c])
  <2>1. handles[c] \in SUBSET Request /\ handles'[c] = handles[c] \ {using[c]}
    BY <1>1
  <2>2. IsFiniteSet(handles[c]) /\ Cardinality(handles[c]) \in Nat
    BY <2>1, FiniteRequests
  <2>3. CASE using[c] \in handles[c]
    <3>1. Cardinality(handles[c] \ {using[c]}) = Cardinality(handles[c]) - 1
      <4>1. PICK S, u : S = handles[c] /\ u = using[c]
        OBVIOUS
      <4>2. IsFiniteSet(S) /\ u \in S
        BY <2>2, <2>3, <4>1
      <4>3. Cardinality(S \ {u}) = Cardinality(S) - 1
        BY <4>2, FS_RemoveElement
      <4> QED
        BY <4>1, <4>3
    <3>2. Cardinality(handles'[c]) \in Nat
      BY <2>1, FiniteRequests
    <3> QED
      BY <1>1, <2>1, <2>2, <3>1, <3>2 DEF Busy
  <2>4. CASE using[c] \notin handles[c]
    <3>1. handles'[c] = handles[c]
      BY <2>1, <2>4
    <3>2. Busy(c) = 0 /\ Busy(c)' = 0
      BY <1>1 DEF Busy
    <3> QED
      BY <2>2, <3>1, <3>2
  <2> QED
    BY <2>3, <2>4
<1>17. c \notin misused' => Within(c)'
  <2> SUFFICES ASSUME c \notin misused PROVE Within(c)'
    BY <1>1
  <2>1. Within(c)
    BY DEF IndInv, WithinPending
  <2> QED
    BY <1>15, <1>16, <2>1, PendingAssumption DEF Within
<1>18. MaxPending = 1 /\ c \notin misused' => HasHandles(c)'
  <2> SUFFICES ASSUME MaxPending = 1, c \notin misused PROVE Outstanding(c)' = {}
    BY <1>1 DEF HasHandles
  <2>1. Cardinality(Outstanding(c)) <= 1
    BY <1>15, <1>16 DEF IndInv, WithinPending, Within
  <2>2. Cardinality(Outstanding(c)') = 0
    BY <1>15, <2>1
  <2>3. IsFiniteSet(Outstanding(c)')
    BY <1>14, <1>15, FS_Subset
  <2> QED
    BY <2>2, <2>3, FS_EmptySet
<1>19. WithinPending' /\ InTurn'
  BY <1>1, <1>12, <1>14, <1>17, <1>18, OthersPending
<1> QED
  BY <1>6, <1>7, <1>9, <1>11, <1>13, <1>19 DEF IndInv, TypeOK

-----------------------------------------------------------------------------
(* Steps of the server that move a chunk *)

(* What such a step leaves alone. *)
LEMMA ClientsKept ==
    ASSUME IndInv, UNCHANGED <<client, reused>>,
           \A d \in Client : chunk[d] # NoChunk => content'[chunk[d]] = content[chunk[d]]
    PROVE  /\ ClientsTypeOK' /\ ClientCalls'
           /\ UNCHANGED <<clients, cursor>> => ClientsListed'
<1>1. ClientsTypeOK'
  BY DEF IndInv, TypeOK, ClientsTypeOK, client
<1>2. ClientCalls'
  <2> SUFFICES ASSUME NEW d \in Client PROVE ClientCall(d)'
    BY DEF ClientCalls
  <2>1. ClientCall(d)
    BY DEF IndInv, ClientCalls
  <2> QED
    BY <2>1 DEF ClientCall, client
<1> QED
  BY <1>1, <1>2 DEF IndInv, ClientsListed, client

(* The chunk of the server's call is nowhere else. *)
LEMMA InServersHand ==
    ASSUME IndInv, schunk # NoChunk
    PROVE  /\ schunk \in Chunk /\ schunk \notin free /\ schunk \notin lost
           /\ \A d \in Client : /\ schunk \notin Range(requests[d])
                                 /\ schunk \notin Range(responses[d])
                                 /\ chunk[d] # schunk
           /\ content[schunk] \in Request
<1>1. PICK k \in Chunk : k = schunk
  BY Parts
<1>2. "server" \in Kind /\ NoClient \in Whose /\ At(k, "server", NoClient)
  BY <1>1 DEF At, Kind, Whose
<1>3. OnlyAt(k, "server", NoClient)
  BY <1>2, OnlyThere DEF IndInv
<1>4. k \notin free /\ k \notin lost
  BY <1>3 DEF OnlyAt, At, Kind, Whose
<1>5. \A d \in Client : k \notin Range(requests[d]) /\ k \notin Range(responses[d]) /\ chunk[d] # k
  BY <1>3, Parts DEF OnlyAt, At, Kind, Whose
<1>6. content[k] \in Request
  BY <1>4, Parts DEF IndInv, Contents
<1> QED
  BY <1>1, <1>4, <1>5, <1>6

(* Server::receive looks at one client, and pops its request queue unless that is empty ... *)
LEMMA ReceivePollInv ==
    ASSUME IndInv, ReceivePoll
    PROVE  IndInv'
<1> USE Parts
<1>1. /\ spc = "poll" /\ cursor <= Len(clients) /\ clients \in Seq(Client)
      /\ cursor \in 1 .. Cardinality(Client) + 1 /\ Cardinality(Client) \in Nat
      /\ UNCHANGED <<server, clients, segment, responses, client, sreq, active, lost, misused, reused>>
  BY ClientAssumption, FS_CardinalityType DEF ReceivePoll, IndInv, TypeOK, ServerTypeOK, history
<1>2. PICK c \in Client : c = clients[cursor]
  BY <1>1
<1>3. ClientsTypeOK' /\ ClientCalls'
  BY <1>1, ClientsKept DEF segment
<1>4. CASE requests[c] = <<>>
  <2>1. cursor' = cursor + 1 /\ UNCHANGED <<requests, schunk, spc>>
    BY <1>2, <1>4 DEF ReceivePoll
  <2>2. OneKind' /\ QueuedOnce' /\ Contents' /\ \A q \in Request : Alive(q)' => Alive(q)
    BY <1>1, <2>1, StillInv DEF client, queues
  <2>3. WithinPending' /\ InTurn'
    BY <1>1, <2>2, FewerAlive DEF segment, client
  <2>4. Len(clients) <= Cardinality(Client)
    BY <1>1, ClientAssumption, OnceIsShort DEF IndInv, ClientsListed
  <2>5. ServerTypeOK' /\ ServerCalls' /\ ClientsListed'
    <3>1. cursor' \in 1 .. Cardinality(Client) + 1 /\ cursor' <= Len(clients) + 1
      BY <1>1, <2>1, <2>4
    <3>2. ServerTypeOK'
      BY <1>1, <2>1, <3>1 DEF IndInv, TypeOK, ServerTypeOK
    <3>3. ServerCalls'
      BY <1>1, <2>1 DEF IndInv, ServerCalls, segment
    <3>4. ClientsListed'
      BY <1>1, <3>1 DEF IndInv, ClientsListed, client
    <3> QED
      BY <3>2, <3>3, <3>4
  <2>6. SegmentTypeOK'
    BY <1>1, <2>1 DEF IndInv, TypeOK, SegmentTypeOK, segment
  <2> QED
    BY <1>3, <2>2, <2>3, <2>5, <2>6 DEF IndInv, TypeOK
<1>5. CASE requests[c] # <<>>
  <2>1. /\ schunk' = Head(requests[c]) /\ spc' = "copy" /\ cursor' = 1
        /\ requests' = [requests EXCEPT ![c] = Tail(requests[c])]
    BY <1>2, <1>5 DEF ReceivePoll
  <2>2. /\ Head(requests[c]) \in Chunk /\ Head(requests[c]) \in Range(requests[c])
        /\ Tail(requests[c]) \in Seq(Chunk) /\ IsInjective(Tail(requests[c]))
        /\ Range(Tail(requests[c])) = Range(requests[c]) \ {Head(requests[c])}
    BY <1>5, PopOnce DEF IndInv, QueuedOnce
  <2>3. PICK k \in Chunk : k = Head(requests[c])
    BY <2>2
  <2>4. "request" \in Kind /\ c \in Whose /\ At(k, "request", c)
    BY <2>2, <2>3 DEF At, Kind, Whose
  <2>5. OnlyAt(k, "request", c)
    BY <2>4, OnlyThere DEF IndInv
  <2>6. /\ k \notin free /\ k \notin lost /\ schunk = NoChunk /\ sreq = Blank
        /\ \A d \in Client : k \notin Range(responses[d]) /\ chunk[d] # k
        /\ \A d \in Client \ {c} : k \notin Range(requests[d])
    BY <1>1, <2>5 DEF OnlyAt, At, Kind, Whose, IndInv, ServerCalls
  <2>7. MovesTo(k, "server", NoClient)
    <3>1. \A d \in Client, l \in Chunk :
             l \in Range(requests'[d]) <=> l \in Range(requests[d]) /\ ~(d = c /\ l = k)
      BY <2>1, <2>2, <2>3
    <3>2. \A l \in Chunk : schunk # l /\ (schunk' = l <=> l = k)
      BY <2>1, <2>3, <2>6
    <3> QED
      BY <1>1, <2>6, <3>1, <3>2 DEF MovesTo, At, Kind, Whose, segment, client
  <2>8. "server" \in Kind /\ NoClient \in Whose
    BY DEF Kind, Whose
  <2>9. OneKind'
    BY <2>7, <2>8, Moved DEF IndInv
  <2>10. Contents' /\ \A q \in Request : Alive(q)' => Alive(q)
    BY <1>1, <2>7, <2>8, ContentsKept
  <2>11. QueuedOnce'
    BY <1>1, <2>1, <2>2 DEF IndInv, QueuedOnce
  <2>12. SegmentTypeOK' /\ ServerTypeOK' /\ ServerCalls'
    <3>1. cursor' \in 1 .. Cardinality(Client) + 1
      BY <1>1, <2>1
    <3>2. SegmentTypeOK'
      BY <1>1, <2>1, <2>2 DEF IndInv, TypeOK, SegmentTypeOK, segment
    <3>3. ServerTypeOK' /\ ServerCalls'
      BY <1>1, <2>1, <2>2, <2>6, <3>1 DEF IndInv, TypeOK, ServerTypeOK, ServerCalls, segment
    <3> QED
      BY <3>2, <3>3
  <2>13. WithinPending' /\ InTurn'
    BY <1>1, <2>10, FewerAlive DEF segment, client
  <2>14. ClientsListed'
    BY <1>1, <2>1 DEF IndInv, ClientsListed, client
  <2> QED
    BY <1>3, <2>9, <2>10, <2>11, <2>12, <2>13, <2>14 DEF IndInv, TypeOK
<1> QED
  BY <1>4, <1>5

(* ... copies the request and gives its chunk back: the request lives on as an
   ActiveRequest ... *)
LEMMA FreeRequestInv ==
    ASSUME IndInv, FreeRequest
    PROVE  IndInv'
<1> USE Parts
<1>1. /\ spc = "free" /\ spc' = "idle" /\ schunk' = NoChunk /\ sreq' = Blank
      /\ active' = active \union {sreq}
      /\ UNCHANGED <<server, clients, queues, client, cursor, lost, misused, reused>>
  BY DEF FreeRequest, history
<1>2. schunk # NoChunk /\ sreq = content[schunk]
  BY <1>1 DEF IndInv, ServerCalls
<1>3. PICK k \in Chunk : k = schunk
  BY <1>2
<1>4. /\ k \notin free /\ k \notin lost /\ content[k] \in Request
      /\ \A d \in Client : k \notin Range(requests[d]) /\ k \notin Range(responses[d]) /\ chunk[d] # k
  BY <1>2, <1>3, InServersHand
<1>5. /\ free' = free \union {k} /\ content' = [content EXCEPT ![k] = Blank]
      /\ \A l \in Chunk \ {k} : content'[l] = content[l]
  BY <1>3 DEF FreeRequest, Deallocate
<1>6. MovesTo(k, "free", NoClient)
  <2>1. \A l \in Chunk : schunk' # l /\ (schunk = l <=> l = k)
    BY <1>1, <1>3
  <2> QED
    BY <1>1, <1>4, <1>5, <2>1 DEF MovesTo, At, Kind, Whose, queues, client
<1>7. OneKind'
  <2>1. "free" \in Kind /\ NoClient \in Whose
    BY DEF Kind, Whose
  <2> QED
    BY <1>6, <2>1, Moved DEF IndInv
<1>8. Contents' /\ \A q \in Request : Alive(q)' => Alive(q)
  <2>1. active' \subseteq active \union {content[k]} /\ content[k] # Blank
    BY <1>1, <1>2, <1>3, <1>4, Requests
  <2> QED
    BY <1>1, <1>4, <1>5, <1>6, <2>1, ContentsFreed
<1>9. \A d \in Client : chunk[d] # NoChunk => content'[chunk[d]] = content[chunk[d]]
  BY <1>4, <1>5
<1>10. ClientsTypeOK' /\ ClientCalls' /\ ClientsListed'
  BY <1>1, <1>9, ClientsKept
<1>11. SegmentTypeOK' /\ QueuedOnce'
  BY <1>1, <1>5 DEF IndInv, TypeOK, SegmentTypeOK, QueuedOnce, queues
<1>12. ServerTypeOK' /\ ServerCalls'
  BY <1>1, <1>2, <1>3, <1>4 DEF IndInv, TypeOK, ServerTypeOK, ServerCalls
<1>13. WithinPending' /\ InTurn'
  <2>1. /\ \A d \in Client : cpc'[d] = "send" => cpc[d] = "send"
        /\ \A d \in Client : cpc[d] = "send" =>
                                 cpc'[d] = "send" /\ content'[chunk[d]] = content[chunk[d]]
    BY <1>1, <1>9 DEF IndInv, ClientCalls, ClientCall, client
  <2> QED
    BY <1>1, <1>8, <2>1, FewerAlive DEF client
<1> QED
  BY <1>7, <1>8, <1>10, <1>11, <1>12, <1>13 DEF IndInv, TypeOK

(* ... ActiveRequest::respond takes a chunk for the response ... *)
LEMMA RespondAllocateInv ==
    ASSUME IndInv, NEW q \in Request, RespondAllocate(q)
    PROVE  IndInv'
<1> USE Parts
<1>1. PICK k \in Chunk : Allocate(k, q) /\ schunk' = k
  BY DEF RespondAllocate
<1>2. /\ spc = "idle" /\ q \in active /\ active' = active \ {q}
      /\ spc' = "respond" /\ sreq' = q
      /\ UNCHANGED <<server, clients, queues, client, cursor, lost, misused, reused>>
  BY DEF RespondAllocate, history
<1>3. /\ k \in free /\ free' = free \ {k} /\ content' = [content EXCEPT ![k] = q]
      /\ content'[k] = q /\ \A l \in Chunk \ {k} : content'[l] = content[l]
  BY <1>1 DEF Allocate
<1>4. OnlyAt(k, "free", NoClient)
  <2>1. "free" \in Kind /\ NoClient \in Whose /\ At(k, "free", NoClient)
    BY <1>3 DEF Kind, Whose, At
  <2> QED
    BY <2>1, OnlyThere DEF IndInv
<1>5. /\ k \notin lost /\ schunk = NoChunk /\ content[k] = Blank
      /\ \A d \in Client : k \notin Range(requests[d]) /\ k \notin Range(responses[d]) /\ chunk[d] # k
  BY <1>2, <1>3, <1>4 DEF OnlyAt, At, Kind, Whose, IndInv, Contents, ServerCalls
<1>6. MovesTo(k, "server", NoClient)
  <2>1. \A l \in Chunk : schunk # l /\ (schunk' = l <=> l = k)
    BY <1>1, <1>5
  <2> QED
    BY <1>2, <1>3, <1>5, <2>1 DEF MovesTo, At, Kind, Whose, queues, client
<1>7. OneKind'
  <2>1. "server" \in Kind /\ NoClient \in Whose
    BY DEF Kind, Whose
  <2> QED
    BY <1>6, <2>1, Moved DEF IndInv
<1>8. Contents'
  <2>1. \A l \in Chunk : l \in free' <=> content'[l] = Blank
    BY <1>3, <1>5, Requests DEF IndInv, Contents
  <2>2. ASSUME NEW l \in Chunk, NEW d \in Client, NEW a \in Kind, At(l, a, d)'
        PROVE  Owner(content'[l]) = d
    <3>1. d \in Whose /\ d # NoClient
      BY ClientAssumption DEF Whose
    <3>2. l # k /\ At(l, a, d)
      BY <1>6, <2>2, <3>1 DEF MovesTo
    <3> QED
      BY <1>3, <3>2 DEF IndInv, Contents
  <2>3. \A l \in Chunk \ lost : content[l] # q
    BY <1>2, Requests DEF IndInv, Contents
  <2>4. \A l \in Chunk \ lost' : content'[l] # Blank =>
           /\ content'[l] \notin active'
           /\ \A m \in Chunk \ lost' : content'[m] = content'[l] => m = l
    BY <1>2, <1>3, <2>3 DEF IndInv, Contents
  <2> QED
    BY <2>1, <2>2, <2>4 DEF Contents
<1>9. \A r \in Request : Alive(r)' => Alive(r)
  BY <1>2, <1>3 DEF Alive
<1>10. \A d \in Client : chunk[d] # NoChunk => content'[chunk[d]] = content[chunk[d]]
  BY <1>3, <1>5
<1>11. ClientsTypeOK' /\ ClientCalls' /\ ClientsListed'
  BY <1>2, <1>10, ClientsKept
<1>12. SegmentTypeOK' /\ QueuedOnce'
  BY <1>2, <1>3 DEF IndInv, TypeOK, SegmentTypeOK, QueuedOnce, queues
<1>13. ServerTypeOK' /\ ServerCalls'
  BY <1>1, <1>2, <1>3 DEF IndInv, TypeOK, ServerTypeOK, ServerCalls
<1>14. WithinPending' /\ InTurn'
  <2>1. /\ \A d \in Client : cpc'[d] = "send" => cpc[d] = "send"
        /\ \A d \in Client : cpc[d] = "send" =>
                                 cpc'[d] = "send" /\ content'[chunk[d]] = content[chunk[d]]
    BY <1>2, <1>10 DEF IndInv, ClientCalls, ClientCall, client
  <2> QED
    BY <1>2, <1>9, <2>1, FewerAlive DEF client
<1> QED
  BY <1>7, <1>8, <1>11, <1>12, <1>13, <1>14 DEF IndInv, TypeOK

(* ... and puts it in the response queue of the client that asked, or is refused, which
   only happens when that client's application has not kept to its limit. *)
LEMMA RespondDoneInv ==
    ASSUME IndInv, RespondPush \/ RespondQueueFull
    PROVE  IndInv'
<1> USE Parts
<1>1. /\ spc = "respond" /\ spc' = "idle" /\ schunk' = NoChunk /\ sreq' = Blank
      /\ UNCHANGED <<server, clients, segment, requests, client, cursor, active, misused, reused>>
  BY DEF RespondPush, RespondQueueFull, RespondDone
<1>2. schunk # NoChunk /\ sreq = content[schunk]
  BY <1>1 DEF IndInv, ServerCalls
<1>3. PICK k \in Chunk : k = schunk
  BY <1>2
<1>4. /\ k \notin free /\ k \notin lost /\ content[k] \in Request
      /\ \A d \in Client : k \notin Range(requests[d]) /\ k \notin Range(responses[d]) /\ chunk[d] # k
  BY <1>2, <1>3, InServersHand
<1>5. PICK c \in Client : c = Owner(content[k])
  BY <1>4, Requests
<1>6. ClientsTypeOK' /\ ClientCalls' /\ ClientsListed'
  BY <1>1, ClientsKept DEF segment
<1>7. ServerTypeOK' /\ ServerCalls'
  BY <1>1 DEF IndInv, TypeOK, ServerTypeOK, ServerCalls
<1>8. \A l \in Chunk : schunk' # l /\ (schunk = l <=> l = k)
  BY <1>1, <1>3
<1>9. CASE RespondPush
  <2>1. responses' = [responses EXCEPT ![c] = Append(responses[c], k)] /\ UNCHANGED lost
    BY <1>2, <1>3, <1>5, <1>9 DEF RespondPush
  <2>2. /\ Append(responses[c], k) \in Seq(Chunk) /\ IsInjective(Append(responses[c], k))
        /\ Range(Append(responses[c], k)) = Range(responses[c]) \union {k}
    BY <1>4, PushOnce DEF IndInv, QueuedOnce
  <2>3. SegmentTypeOK' /\ QueuedOnce'
    BY <1>1, <2>1, <2>2 DEF IndInv, TypeOK, SegmentTypeOK, QueuedOnce, segment
  <2>4. MovesTo(k, "response", c)
    <3>1. \A d \in Client, l \in Chunk :
             l \in Range(responses'[d]) <=> l \in Range(responses[d]) \/ (d = c /\ l = k)
      BY <2>1, <2>2
    <3> QED
      BY <1>1, <1>4, <1>8, <2>1, <3>1 DEF MovesTo, At, Kind, Whose, segment, client
  <2>5. "response" \in Kind /\ c \in Whose
    BY DEF Kind, Whose
  <2>6. OneKind'
    BY <2>4, <2>5, Moved DEF IndInv
  <2>7. Contents' /\ \A q \in Request : Alive(q)' => Alive(q)
    BY <1>1, <1>5, <2>1, <2>4, <2>5, ContentsKept
  <2>8. WithinPending' /\ InTurn'
    BY <1>1, <2>1, <2>7, FewerAlive DEF segment, client
  <2> QED
    BY <1>6, <1>7, <2>3, <2>6, <2>7, <2>8 DEF IndInv, TypeOK
<1>10. CASE RespondQueueFull
  <2>1. ~HasRoom(responses[c]) /\ lost' = lost \union {k} /\ UNCHANGED responses
    BY <1>2, <1>3, <1>5, <1>10 DEF RespondQueueFull
  <2>2. c \in misused
    <3>1. \A l \in Range(responses[c]) \union {k} :
             l \notin lost /\ content[l] \in Request /\ Owner(content[l]) = c
      BY <1>4, <1>5, QueuedAreOwn
    <3>2. /\ responses[c] \in Seq(Chunk) /\ IsInjective(responses[c])
          /\ k \notin Range(responses[c])
      BY <1>4 DEF IndInv, QueuedOnce
    <3> QED
      BY <2>1, <3>1, <3>2, RoomForOneMore
  <2>3. SegmentTypeOK' /\ QueuedOnce'
    BY <1>1, <2>1 DEF IndInv, TypeOK, SegmentTypeOK, QueuedOnce, segment
  <2>4. MovesTo(k, "lost", NoClient)
    BY <1>1, <1>4, <1>8, <2>1 DEF MovesTo, At, Kind, Whose, segment, client
  <2>5. "lost" \in Kind /\ NoClient \in Whose
    BY DEF Kind, Whose
  <2>6. OneKind'
    BY <2>4, <2>5, Moved DEF IndInv
  <2>7. Contents' /\ \A q \in Request : Alive(q)' => Alive(q)
    BY <1>1, <2>1, <2>4, <2>5, ContentsKept
  <2>8. WithinPending' /\ InTurn'
    BY <1>1, <2>2, <2>7, FewerAlive DEF segment, client
  <2> QED
    BY <1>6, <1>7, <2>3, <2>6, <2>7, <2>8 DEF IndInv, TypeOK
<1> QED
  BY <1>9, <1>10

-----------------------------------------------------------------------------
(* The invariant *)

LEMMA InitInv == Init => IndInv
<1> SUFFICES ASSUME Init PROVE IndInv
  OBVIOUS
<1> USE DEF Init
<1>1. Cardinality(Client) \in Nat /\ NoChunk \notin Chunk /\ NoClient \notin Client
  BY ClientAssumption, ChunkAssumption, FS_CardinalityType
<1>2. SegmentTypeOK
  <2>1. <<>> \in Seq(Chunk)
    OBVIOUS
  <2>2. requests \in [Client -> Seq(Chunk)] /\ responses \in [Client -> Seq(Chunk)]
    BY <2>1
  <2> QED
    BY <2>2 DEF SegmentTypeOK
<1>3. ClientsTypeOK
  BY BoundAssumption DEF ClientsTypeOK
<1>4. ServerTypeOK
  <2>1. server \in BOOLEAN
    OBVIOUS
  <2>2. cursor \in 1 .. Cardinality(Client) + 1
    BY <1>1
  <2> QED
    BY <2>1, <2>2 DEF ServerTypeOK
<1>5. IsInjective(<<>>) /\ Range(<<>>) = {}
  BY DEF IsInjective, Range
<1>6. ClientsListed /\ QueuedOnce
  BY <1>5 DEF ClientsListed, QueuedOnce
<1>7. ClientCalls /\ ServerCalls
  BY DEF ClientCalls, ClientCall, ServerCalls
<1>8. \A k \in Chunk : OnlyAt(k, "free", NoClient)
  BY <1>1, <1>5 DEF OnlyAt, At, Kind, Whose
<1>9. OneKind
  <2>1. "free" \in Kind /\ NoClient \in Whose
    BY DEF Kind, Whose
  <2> QED
    BY <1>8, <2>1 DEF OneKind
<1>10. Contents
  BY <1>1, <1>8 DEF Contents, OnlyAt, Kind, Whose
<1>11. \A c \in Client : Outstanding(c) = {}
  BY Requests DEF Outstanding, Alive
<1>12. WithinPending /\ InTurn
  <2>1. \A c \in Client : Within(c)
    <3>1. Cardinality({}) = 0
      BY FS_EmptySet
    <3>2. \A c \in Client : Busy(c) = 0 /\ handles[c] = {}
      BY DEF Busy
    <3> HIDE DEF Init
    <3>3. MaxPending \in Nat /\ 0 <= MaxPending
      BY PendingAssumption
    <3> QED
      BY <1>11, <3>1, <3>2, <3>3 DEF Within
  <2>2. \A c \in Client : HasHandles(c)
    BY <1>11 DEF HasHandles
  <2> QED
    BY <2>1, <2>2 DEF WithinPending, InTurn
<1> QED
  BY <1>2, <1>3, <1>4, <1>6, <1>7, <1>9, <1>10, <1>12 DEF IndInv, TypeOK

(* A stuttering step. *)
LEMMA StutterInv == ASSUME IndInv, UNCHANGED vars PROVE IndInv'
<1>1. UNCHANGED <<server, clients, segment, queues, client, srv, lost, misused, reused>>
  BY DEF vars, history
<1>2. OneKind' /\ QueuedOnce' /\ Contents' /\ \A q \in Request : Alive(q)' => Alive(q)
  BY <1>1, StillInv DEF srv, client
<1>3. WithinPending' /\ InTurn'
  BY <1>1, <1>2, FewerAlive DEF segment, client
<1>4. SegmentTypeOK' /\ ServerTypeOK' /\ ServerCalls'
  BY <1>1
  DEF IndInv, TypeOK, SegmentTypeOK, ServerTypeOK, ServerCalls, segment, queues, srv
<1>5. ClientsTypeOK' /\ ClientCalls' /\ ClientsListed'
  BY <1>1, ClientsKept DEF segment, srv
<1> QED
  BY <1>2, <1>3, <1>4, <1>5 DEF IndInv, TypeOK

LEMMA NextInv == ASSUME IndInv, [Next]_vars PROVE IndInv'
<1>1. CASE CreateServer
  BY <1>1, CreateInv
<1>2. CASE ReceiveStep
  BY <1>2, ServerStillInv, ReceivePollInv, FreeRequestInv DEF ReceiveStep
<1>3. CASE RespondStep
  BY <1>3, ServerStillInv, RespondAllocateInv, RespondDoneInv DEF RespondStep
<1>4. ASSUME NEW c \in Client,
             \/ CreateClient(c) \/ SendAllocate(c) \/ ClientStep(c)
             \/ TryReceiveAgain(c) \/ DropAnswered(c)
             \/ \E h \in Request : TryReceive(c, h) \/ DropPending(c, h)
      PROVE  IndInv'
  <2>1. CASE CreateClient(c)
    BY <2>1, CreateInv
  <2>2. CASE SendAllocate(c)
    BY <2>2, SendAllocateInv
  <2>3. CASE ClientStep(c)
    BY <2>3, SendDoneInv, ClientStillInv, FreeResponseInv DEF ClientStep
  <2>4. ASSUME NEW h \in Request, TryReceive(c, h) \/ DropPending(c, h) PROVE IndInv'
    BY <2>4, TryReceiveInv, ClientStillInv
  <2>5. CASE TryReceiveAgain(c) \/ DropAnswered(c)
    BY <2>5, TryReceiveInv, ClientStillInv
  <2> QED
    BY <1>4, <2>1, <2>2, <2>3, <2>4, <2>5
<1>5. CASE UNCHANGED vars
  BY <1>5, StutterInv
<1> QED
  BY <1>1, <1>2, <1>3, <1>4, <1>5 DEF Next

(* The invariant holds throughout: every chunk is in one place, no two requests are mixed
   up, and what is outstanding is covered by the clients' handles. *)
THEOREM ReqResInvariant == Spec => []IndInv
<1>1. Init => IndInv
  BY InitInv
<1>2. IndInv /\ [Next]_vars => IndInv'
  BY NextInv
<1> QED
  BY <1>1, <1>2, PTL DEF Spec

(* Every variable stays in its range; an ActiveRequest is always a request that a client
   has sent. *)
THEOREM ReqResTypes == Spec => []TypeOK
<1>1. IndInv => TypeOK
  BY DEF IndInv
<1> QED
  BY <1>1, ReqResInvariant, PTL

-----------------------------------------------------------------------------
(* Every chunk is in one place *)

(* A chunk is in a queue without duplicates in at most one position. *)
LEMMA OnePosition ==
    ASSUME NEW q \in Seq(Chunk), IsInjective(q), NEW k
    PROVE  IF k \in Range(q) THEN \E i : Queued(q, k) = {i} ELSE Queued(q, k) = {}
<1>1. DOMAIN q = 1 .. Len(q)
  OBVIOUS
<1>2. CASE k \in Range(q)
  <2>1. PICK i \in 1 .. Len(q) : q[i] = k
    BY <1>1, <1>2 DEF Range
  <2>2. \A j \in 1 .. Len(q) : q[j] = k <=> j = i
    BY <1>1, <2>1 DEF IsInjective
  <2>3. Queued(q, k) = {i}
    BY <2>1, <2>2 DEF Queued
  <2> QED
    BY <1>2, <2>3
<1>3. CASE k \notin Range(q)
  BY <1>1, <1>3 DEF Queued, Range
<1> QED
  BY <1>2, <1>3

\* The places of chunk k in the clients' queues Q, which the model calls a.
InQueues(Q, a, k) == UNION {{<<a, c, i>> : i \in Queued(Q[c], k)} : c \in Client}

(* A chunk that no queue has is in none of these places, one that one queue has in one. *)
LEMMA QueuePlaces ==
    ASSUME NEW Q \in [Client -> Seq(Chunk)], \A c \in Client : IsInjective(Q[c]), NEW a, NEW k
    PROVE  /\ (\A c \in Client : k \notin Range(Q[c])) => InQueues(Q, a, k) = {}
           /\ \A c \in Client :
                 k \in Range(Q[c]) /\ (\A d \in Client \ {c} : k \notin Range(Q[d]))
                    => \E x : InQueues(Q, a, k) = {x}
<1>1. \A c \in Client : k \notin Range(Q[c]) => Queued(Q[c], k) = {}
  BY OnePosition
<1>2. (\A c \in Client : k \notin Range(Q[c])) => InQueues(Q, a, k) = {}
  BY <1>1, Zenon DEF InQueues
<1>3. ASSUME NEW c \in Client, k \in Range(Q[c]), \A d \in Client \ {c} : k \notin Range(Q[d])
      PROVE  \E x : InQueues(Q, a, k) = {x}
  <2>1. PICK i : Queued(Q[c], k) = {i}
    BY <1>3, OnePosition
  <2>2. \A d \in Client \ {c} : Queued(Q[d], k) = {}
    BY <1>1, <1>3
  <2>3. ASSUME NEW y \in InQueues(Q, a, k) PROVE y = <<a, c, i>>
    <3>1. PICK d \in Client : \E j \in Queued(Q[d], k) : y = <<a, d, j>>
      BY <2>3, Zenon DEF InQueues
    <3>2. d = c /\ \A j \in Queued(Q[d], k) : j = i
      BY <2>1, <2>2, <3>1
    <3> QED
      BY <3>1, <3>2
  <2>4. <<a, c, i>> \in InQueues(Q, a, k)
    <3>1. i \in Queued(Q[c], k)
      BY <2>1
    <3>2. <<a, c, i>> \in {<<a, c, j>> : j \in Queued(Q[c], k)}
      BY <3>1, Zenon
    <3> QED
      BY <3>2, Zenon DEF InQueues
  <2>5. InQueues(Q, a, k) = {<<a, c, i>>}
    BY <2>3, <2>4, Zenon
  <2> QED
    BY <2>5
<1> QED
  BY <1>2, <1>3

(* A place that a chunk has if it is in a set. *)
LEMMA PlaceIf ==
    ASSUME NEW k, NEW T, NEW v
    PROVE  IF k \in T THEN {v : x \in {k} \intersect T} = {v} ELSE {v : x \in {k} \intersect T} = {}
<1>1. CASE k \in T
  <2>1. {k} \intersect T = {k}
    BY <1>1
  <2> QED
    BY <1>1, <2>1
<1>2. CASE k \notin T
  <2>1. {k} \intersect T = {}
    BY <1>2
  <2> QED
    BY <1>2, <2>1
<1> QED
  BY <1>1, <1>2

LEMMA OnePlace ==
    ASSUME IndInv, NEW k \in Chunk
    PROVE  \E x : Places(k) = {x}
<1> USE Parts
<1>1. PICK a \in Kind, c \in Whose : OnlyAt(k, a, c)
  BY DEF IndInv, OneKind
<1> DEFINE F == {<<"free">> : x \in {k} \intersect free}
           X == {<<"lost">> : x \in {k} \intersect lost}
           S == {<<"server">> : x \in {k} \intersect {schunk}}
           C == {<<"client", d>> : d \in {e \in Client : chunk[e] = k}}
           P == InQueues(requests, "request", k)
           R == InQueues(responses, "response", k)
           Holds(T, b) == IF a = b THEN \E x : T = {x} ELSE T = {}
<1>2. Places(k) = F \union X \union S \union C \union P \union R
  BY DEF Places, InQueues
<1>3. \A b \in Kind, d \in Whose : At(k, b, d) <=> b = a /\ d = c
  BY <1>1 DEF OnlyAt
<1>4. At(k, a, c)
  BY <1>1 DEF OnlyAt
<1>5. Holds(F, "free") /\ Holds(X, "lost") /\ Holds(S, "server")
  <2>1. /\ k \in free <=> At(k, "free", NoClient)
        /\ k \in lost <=> At(k, "lost", NoClient)
        /\ schunk = k <=> At(k, "server", NoClient)
    BY DEF At
  <2>2. /\ "free" \in Kind /\ "lost" \in Kind /\ "server" \in Kind /\ NoClient \in Whose
        /\ a \in {"free", "lost", "server"} => c = NoClient
    BY <1>4 DEF Kind, Whose, At
  <2>3. /\ k \in free <=> a = "free"
        /\ k \in lost <=> a = "lost"
        /\ schunk = k <=> a = "server"
    BY <1>3, <2>1, <2>2
  <2>4. IF k \in free THEN F = {<<"free">>} ELSE F = {}
    BY PlaceIf
  <2>5. IF k \in lost THEN X = {<<"lost">>} ELSE X = {}
    BY PlaceIf
  <2>6. IF schunk = k THEN S = {<<"server">>} ELSE S = {}
    <3>1. PICK T : T = {schunk}
      OBVIOUS
    <3>2. S = {<<"server">> : x \in {k} \intersect T} /\ (k \in T <=> schunk = k)
      BY <3>1
    <3> HIDE DEF S
    <3> QED
      BY <3>2, PlaceIf
  <2> HIDE DEF F, X, S
  <2> QED
    BY <2>3, <2>4, <2>5, <2>6
<1>6. /\ \A d \in Client : chunk[d] = k <=> a = "client" /\ d = c
      /\ \A d \in Client : k \in Range(requests[d]) <=> a = "request" /\ d = c
      /\ \A d \in Client : k \in Range(responses[d]) <=> a = "response" /\ d = c
      /\ a \in {"client", "request", "response"} => c \in Client
  <2>1. /\ "client" \in Kind /\ "request" \in Kind /\ "response" \in Kind
        /\ \A d \in Client : d \in Whose
        /\ a \in {"client", "request", "response"} => c \in Client
    BY <1>4 DEF Kind, Whose, At
  <2>2. /\ \A d \in Client : chunk[d] = k <=> At(k, "client", d)
        /\ \A d \in Client : k \in Range(requests[d]) <=> At(k, "request", d)
        /\ \A d \in Client : k \in Range(responses[d]) <=> At(k, "response", d)
    BY DEF At
  <2> QED
    BY <1>3, <2>1, <2>2
<1>7. Holds(C, "client")
  <2>1. CASE a = "client"
    <3>1. {e \in Client : chunk[e] = k} = {c}
      BY <1>6, <2>1
    <3>2. C = {<<"client", c>>}
      BY <3>1, Zenon
    <3> QED
      BY <2>1, <3>2
  <2>2. CASE a # "client"
    <3>1. {e \in Client : chunk[e] = k} = {}
      BY <1>6, <2>2
    <3>2. C = {}
      BY <3>1, Zenon
    <3> QED
      BY <2>2, <3>2
  <2> QED
    BY <2>1, <2>2
<1>8. Holds(P, "request") /\ Holds(R, "response")
  <2>1. \A d \in Client : IsInjective(requests[d]) /\ IsInjective(responses[d])
    BY DEF IndInv, QueuedOnce
  <2>2. Holds(P, "request")
    <3>1. /\ (\A d \in Client : k \notin Range(requests[d])) => P = {}
          /\ \A d \in Client :
                k \in Range(requests[d]) /\ (\A e \in Client \ {d} : k \notin Range(requests[e]))
                   => \E x : P = {x}
      BY <2>1, QueuePlaces
    <3> HIDE DEF P
    <3> QED
      BY <1>6, <3>1
  <2>3. Holds(R, "response")
    <3>1. /\ (\A d \in Client : k \notin Range(responses[d])) => R = {}
          /\ \A d \in Client :
                k \in Range(responses[d]) /\ (\A e \in Client \ {d} : k \notin Range(responses[e]))
                   => \E x : R = {x}
      BY <2>1, QueuePlaces
    <3> HIDE DEF R
    <3> QED
      BY <1>6, <3>1
  <2> QED
    BY <2>2, <2>3
<1> HIDE DEF F, X, S, C, P, R
<1>9. \E x : F \union X \union S \union C \union P \union R = {x}
  BY <1>5, <1>7, <1>8 DEF Kind
<1> QED
  BY <1>2, <1>9

(* Each chunk of the one pool is in exactly one place: in the pool, in a queue, in a call,
   or lost to a refused send. *)
THEOREM ChunksAreExclusive == Spec => []ExclusiveChunks
<1>1. IndInv => ExclusiveChunks
  BY OnePlace, FS_Singleton DEF ExclusiveChunks
<1> QED
  BY <1>1, ReqResInvariant, PTL

-----------------------------------------------------------------------------
(* Answers *)

(* A client has got the response that its call has the chunk of, or none. *)
LEMMA AnswerIs ==
    ASSUME IndInv, NEW c \in Client
    PROVE  IF cpc[c] = "free"
              THEN chunk[c] # NoChunk /\ answer[c].to = using[c] /\ answer[c].from = content[chunk[c]]
              ELSE answer[c].to = Blank /\ answer[c].from = Blank
<1>1. /\ chunk[c] # NoChunk <=> cpc[c] \in {"send", "copy", "free"}
      /\ cpc[c] = "free" => answer[c] = [to |-> using[c], from |-> content[chunk[c]]]
      /\ cpc[c] # "free" => answer[c] = [to |-> Blank, from |-> Blank]
  BY Zenon DEF IndInv, ClientCalls, ClientCall
<1> QED
  BY <1>1

LEMMA AtMostOne ==
    ASSUME NEW S, S = {} \/ \E x : S = {x} PROVE Cardinality(S) <= 1
<1>1. CASE S = {}
  BY <1>1, FS_EmptySet
<1>2. ASSUME NEW x, S = {x} PROVE Cardinality(S) <= 1
  BY <1>2, FS_Singleton
<1> QED
  BY <1>1, <1>2

LEMMA IndInvDelivered == ASSUME IndInv PROVE AnswersDelivered
<1> USE Parts
<1>1. ASSUME NEW c \in Client
      PROVE  /\ \A i \in 1 .. Len(requests[c]) : Owner(content[requests[c][i]]) = c
             /\ \A i \in 1 .. Len(responses[c]) : Owner(content[responses[c][i]]) = c
             /\ Owner(answer[c].from) \in {c, NoClient}
  <2>1. requests[c] \in Seq(Chunk) /\ responses[c] \in Seq(Chunk)
    OBVIOUS
  <2>2. /\ \A i \in 1 .. Len(requests[c]) : requests[c][i] \in Range(requests[c])
        /\ \A i \in 1 .. Len(responses[c]) : responses[c][i] \in Range(responses[c])
    BY <2>1 DEF Range
  <2>3. Owner(answer[c].from) \in {c, NoClient}
    <3>1. CASE cpc[c] = "free"
      BY <3>1, AnswerIs, InClientsHand
    <3>2. CASE cpc[c] # "free"
      BY <3>2, AnswerIs DEF Owner, Blank
    <3> QED
      BY <3>1, <3>2
  <2> QED
    BY <2>2, <2>3, QueuedAreOwn
<1>2. ASSUME NEW q \in Request
      PROVE  Cardinality({k \in Chunk \ lost : content[k] = q}
                            \union {NoChunk : r \in {q} \intersect active}) <= 1
  <2> DEFINE A == {k \in Chunk \ lost : content[k] = q}
             B == {NoChunk : r \in {q} \intersect active}
  <2>1. A = {} \/ (B = {} /\ \E k : A = {k})
    <3>1. \A k \in A : q \notin active /\ \A l \in A : l = k
      BY Requests DEF IndInv, Contents
    <3>2. A # {} => B = {}
      BY <3>1
    <3> HIDE DEF A, B
    <3>3. ASSUME NEW k \in A PROVE A = {k}
      BY <3>1
    <3> QED
      BY <3>2, <3>3
  <2>2. B = {} \/ B = {NoChunk}
    OBVIOUS
  <2>3. A \union B = {} \/ \E x : A \union B = {x}
    <3> HIDE DEF A, B
    <3> QED
      BY <2>1, <2>2
  <2> QED
    BY <2>3, AtMostOne, Zenon
<1> QED
  BY <1>1, <1>2 DEF AnswersDelivered

(* A client only gets answers to its own requests, and to each at most one. *)
THEOREM AnswersAreDelivered == Spec => []AnswersDelivered
<1>1. IndInv => AnswersDelivered
  BY IndInvDelivered
<1> QED
  BY <1>1, ReqResInvariant, PTL

LEMMA IndInvOwnAnswer == ASSUME IndInv PROVE OwnAnswerInTurn
<1> USE Parts
<1> SUFFICES ASSUME MaxPending = 1, NEW c \in Client \ (misused \union reused)
             PROVE  answer[c].from = answer[c].to
  BY DEF OwnAnswerInTurn
<1>1. CASE cpc[c] = "free"
  <2>1. chunk[c] # NoChunk /\ answer[c].from = content[chunk[c]] /\ answer[c].to = using[c]
    BY <1>1, AnswerIs
  <2>2. content[chunk[c]] \in Outstanding(c)
    BY <2>1, InClientsHand DEF Outstanding, Alive
  <2>3. content[chunk[c]] \in handles[c] /\ using[c] \in handles[c]
    BY <1>1, <2>2 DEF IndInv, InTurn, HasHandles, ClientCalls, ClientCall
  <2>4. handles[c] \ {using[c]} = {}
    <3>1. handles[c] \in SUBSET Request
      OBVIOUS
    <3>2. IsFiniteSet(handles[c]) /\ Cardinality(handles[c]) \in Nat
      BY <3>1, FiniteRequests
    <3>3. Cardinality(handles[c]) <= 1
      <4>1. Busy(c) = 0
        BY <1>1 DEF Busy
      <4>2. Cardinality(handles[c]) + Busy(c) <= MaxPending
        BY DEF IndInv, WithinPending, Within
      <4> QED
        BY <3>2, <4>1, <4>2
    <3>4. /\ IsFiniteSet(handles[c] \ {using[c]})
          /\ Cardinality(handles[c] \ {using[c]}) = Cardinality(handles[c]) - 1
      BY <2>3, <3>2, FS_RemoveElement
    <3>5. Cardinality(handles[c] \ {using[c]}) = 0
      BY <3>2, <3>3, <3>4, FS_CardinalityType
    <3> QED
      BY <3>4, <3>5, FS_EmptySet
  <2> QED
    BY <2>1, <2>3, <2>4
<1>2. CASE cpc[c] # "free"
  BY <1>2, AnswerIs
<1> QED
  BY <1>1, <1>2

(* A client that waits for each answer before it sends again, drops no handle unanswered and
   takes no second response through one gets, through each PendingResponse, the answer to the
   request that returned it, whatever the server and the other clients do. *)
THEOREM AnswersInTurn == Spec => []OwnAnswerInTurn
<1>1. IndInv => OwnAnswerInTurn
  BY IndInvOwnAnswer
<1> QED
  BY <1>1, ReqResInvariant, PTL

-----------------------------------------------------------------------------
(* The sizing of the segment *)

(* The elements of a set of at most n can be numbered from 1 to n. *)
LEMMA Numbering ==
    ASSUME NEW S, IsFiniteSet(S), NEW n \in Nat, Cardinality(S) <= n
    PROVE  \E f \in [S -> 1 .. n] : \A x, y \in S : f[x] = f[y] => x = y
<1>1. Cardinality(S) \in Nat /\ ExistsBijection(1 .. Cardinality(S), S)
  BY FS_CardinalityType
<1>2. PICK b \in Bijection(1 .. Cardinality(S), S) : TRUE
  BY <1>1 DEF ExistsBijection
<1>3. b \in [1 .. Cardinality(S) -> S] /\ \A x \in S : \E i \in 1 .. Cardinality(S) : b[i] = x
  BY <1>2 DEF Bijection, Injection, Surjection
<1> DEFINE f == [x \in S |-> CHOOSE i \in 1 .. Cardinality(S) : b[i] = x]
<1>4. \A x \in S : f[x] \in 1 .. Cardinality(S) /\ b[f[x]] = x
  BY <1>3
<1>5. \A x \in S : f[x] \in 1 .. n
  BY <1>1, <1>4
<1>6. f \in [S -> 1 .. n] /\ \A x, y \in S : f[x] = f[y] => x = y
  BY <1>4, <1>5
<1> QED
  BY <1>6

(* A pool that is empty while the server's application has a request would take more
   outstanding requests than the clients' handles allow. *)
LEMMA PoolNotEmpty ==
    ASSUME IndInv, misused = {}, Cardinality(Client) * MaxPending <= ChunkCount, active # {}
    PROVE  free # {}
<1> USE Parts
<1> SUFFICES ASSUME free = {} PROVE FALSE
  OBVIOUS
<1>1. lost = {} /\ \A c \in Client : Within(c)
  BY DEF IndInv, WithinPending
<1>2. PICK a \in Request : a \in active
  OBVIOUS
<1>3. \A k \in Chunk : content[k] \in Request /\ content[k] # a
  BY <1>1, <1>2, Requests DEF IndInv, Contents
<1>4. \A k, l \in Chunk : content[k] = content[l] => k = l
  BY <1>1, <1>3, Requests DEF IndInv, Contents
<1> DEFINE T == Chunk \union {NoChunk}
           h == [k \in T |-> IF k = NoChunk THEN a ELSE content[k]]
<1>5. /\ \A k \in T : h[k] \in Request /\ Alive(h[k])
      /\ \A k, l \in T : h[k] = h[l] => k = l
  BY <1>1, <1>2, <1>3, <1>4 DEF Alive
<1>6. ASSUME NEW c \in Client
      PROVE  \E f \in [Outstanding(c) -> 1 .. MaxPending] :
                \A x, y \in Outstanding(c) : f[x] = f[y] => x = y
  <2>1. Outstanding(c) \in SUBSET Request /\ handles[c] \in SUBSET Request
    BY DEF Outstanding
  <2>2. /\ IsFiniteSet(Outstanding(c)) /\ Cardinality(Outstanding(c)) \in Nat
        /\ Cardinality(handles[c]) \in Nat
    BY <2>1, FiniteRequests
  <2>3. Cardinality(Outstanding(c)) <= MaxPending
    <3>1. Busy(c) \in Nat /\ MaxPending \in Nat
      BY PendingAssumption DEF Busy
    <3>2. /\ Cardinality(Outstanding(c)) <= Cardinality(handles[c]) + Busy(c)
          /\ Cardinality(handles[c]) + Busy(c) <= MaxPending
      BY <1>1 DEF Within
    <3> QED
      BY <2>2, <3>1, <3>2
  <2> QED
    BY <2>2, <2>3, Numbering, PendingAssumption
<1> DEFINE Number(c) == CHOOSE f \in [Outstanding(c) -> 1 .. MaxPending] :
                           \A x, y \in Outstanding(c) : f[x] = f[y] => x = y
<1>7. \A c \in Client : /\ Number(c) \in [Outstanding(c) -> 1 .. MaxPending]
                        /\ \A x, y \in Outstanding(c) : Number(c)[x] = Number(c)[y] => x = y
  BY <1>6
<1> HIDE DEF Number, h
<1> DEFINE g == [k \in T |-> <<Owner(h[k]), Number(Owner(h[k]))[h[k]]>>]
<1>8. \A k \in T : Owner(h[k]) \in Client /\ h[k] \in Outstanding(Owner(h[k]))
  BY <1>5, Requests DEF Outstanding
<1>9. g \in [T -> Client \X (1 .. MaxPending)]
  BY <1>7, <1>8
<1>10. ASSUME NEW k \in T, NEW l \in T, g[k] = g[l] PROVE k = l
  <2>1. /\ Owner(h[k]) = Owner(h[l])
        /\ Number(Owner(h[k]))[h[k]] = Number(Owner(h[k]))[h[l]]
    BY <1>10
  <2>2. h[k] = h[l]
    BY <1>7, <1>8, <2>1
  <2> QED
    BY <1>5, <2>2
<1>11. IsFiniteSet(T) /\ Cardinality(T) = ChunkCount + 1 /\ ChunkCount \in Nat
  <2>1. IsFiniteSet(Chunk) /\ Cardinality(Chunk) = ChunkCount /\ NoChunk \notin Chunk
    BY ChunkAssumption
  <2>2. IsFiniteSet(T) /\ Cardinality(T) = ChunkCount + 1
    BY <2>1, FS_AddElement
  <2> QED
    BY <2>1, <2>2, FS_CardinalityType
<1>12. /\ IsFiniteSet(Client \X (1 .. MaxPending))
       /\ Cardinality(Client \X (1 .. MaxPending)) = Cardinality(Client) * MaxPending
       /\ Cardinality(Client) * MaxPending \in Nat
  <2>1. IsFiniteSet(1 .. MaxPending) /\ Cardinality(1 .. MaxPending) = MaxPending
    BY FS_Interval, PendingAssumption
  <2>2. /\ IsFiniteSet(Client \X (1 .. MaxPending))
        /\ Cardinality(Client \X (1 .. MaxPending)) = Cardinality(Client) * MaxPending
    BY <2>1, ClientAssumption, FS_Product
  <2> QED
    BY <2>2, FS_CardinalityType
<1>13. Cardinality(Client \X (1 .. MaxPending)) < Cardinality(T)
  BY <1>11, <1>12
<1> HIDE DEF g, T
<1> HIDE Parts
<1>14. \E k, l \in T : k # l /\ g[k] = g[l]
  BY <1>9, <1>11, <1>12, <1>13, FS_PigeonHole
<1> QED
  BY <1>10, <1>14

(* As long as the applications keep to max_pending_requests and the segment has a chunk for
   each of them, none is lost and every response can be allocated. *)
THEOREM SegmentIsLargeEnough == Spec => []SizedForPending
<1>1. IndInv => SizedForPending
  BY PoolNotEmpty DEF SizedForPending, IndInv, WithinPending
<1> QED
  BY <1>1, ReqResInvariant, PTL

=============================================================================
