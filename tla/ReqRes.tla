------------------------------ MODULE ReqRes ------------------------------
(***************************************************************************)
(* Request-response: entangle/src/port/{client,server}.rs and              *)
(* entangle/src/service/reqres.rs over the channels and the pool of        *)
(* entangle-transport.                                                     *)
(*                                                                         *)
(* The server's segment holds the requests and the responses of all        *)
(* clients.  A client has one request queue and one response queue; every  *)
(* PendingResponse of the client pops that one response queue.  One thread *)
(* uses a client and its handles, one thread the server.                   *)
(*                                                                         *)
(* The pool is IndexPool, which UniqueIndexSet implements, and a queue is  *)
(* BoundedFifo, which SpscQueue implements: their calls are one step here. *)
(* A request is known by its number <<client, k>>, and so is the response  *)
(* the server computes from it.  What a chunk holds is Blank, arbitrary    *)
(* bytes, once it is back in the pool.  The number of a request can be     *)
(* used again when nothing is left of it.                                  *)
(*                                                                         *)
(* History variables: `lost`, the chunks that left the pool for good;      *)
(* `misused`, the clients whose application has let go of a handle         *)
(* unanswered or has had more requests pending than max_pending_requests;  *)
(* `reused`, those whose application has got a second response through one *)
(* handle.                                                                 *)
(***************************************************************************)
EXTENDS Integers, Sequences, FiniteSets, Functions

CONSTANTS
    Client, NoClient,
    Chunk, NoChunk,
    MaxPending,  \* qos.max_pending_requests
    MinChunks,   \* the least number of chunks of a segment, 16 in the code
    MaxHandles,  \* bound: PendingResponse values a client waits on at a time
    MaxKept,     \* bound: answered PendingResponse values a client keeps
    MaxNumber,   \* bound: requests of a client with something left of them
    MaxActive    \* bound: ActiveRequest values the server has at a time

ASSUME ClientAssumption == IsFiniteSet(Client) /\ NoClient \notin Client
ASSUME PendingAssumption == MaxPending \in Nat \ {0} /\ MinChunks \in Nat

\* (max_pending_requests * 2).max(16)
ChunkCount == IF 2 * MaxPending >= MinChunks THEN 2 * MaxPending ELSE MinChunks

ASSUME ChunkAssumption ==
    IsFiniteSet(Chunk) /\ Cardinality(Chunk) = ChunkCount /\ NoChunk \notin Chunk
ASSUME BoundAssumption ==
    MaxHandles \in Nat /\ MaxKept \in Nat /\ MaxNumber \in Nat /\ MaxActive \in Nat

VARIABLES
    server,    \* the server port is registered
    clients,   \* the clients it serves, in order
    free,      \* chunks in the pool
    content,   \* what each chunk holds
    requests,  \* send_queue of each client's request channel
    responses, \* send_queue of each client's response channel
    cpc,       \* where each client is
    chunk,     \* the chunk its call has
    handles,   \* the requests it has a PendingResponse of that gave no response yet
    kept,      \* how many it has that have given one
    using,     \* the request whose handle its receive is called on
    answer,    \* the response it has got, and the request of the handle it came through
    spc,       \* where the server is
    cursor,    \* the client its receive() is at
    schunk,    \* the chunk its call has
    sreq,      \* the request its call is about
    active,    \* the ActiveRequest values the server's application has
    lost, misused, reused

segment == <<free, content>>
queues == <<requests, responses>>
client == <<cpc, chunk, handles, kept, using, answer>>
srv == <<spc, cursor, schunk, sreq, active>>
history == <<lost, misused, reused>>
vars == <<server, clients, segment, queues, client, srv, history>>

Request == Client \X (1 .. MaxNumber)
Blank == <<NoClient, 0>>
Owner(q) == q[1]

\* capacity.next_power_of_two().max(2)
QueueCapacity(n) == CHOOSE c \in {2 ^ k : k \in 1 .. n} : c >= n /\ (c = 2 \/ c < 2 * n)
QCap == QueueCapacity(MaxPending)

\* What next_power_of_two promises.
ASSUME QueueAssumption == QCap \in Nat /\ QCap >= MaxPending

Init ==
    /\ server = FALSE /\ clients = <<>>
    /\ free = Chunk /\ content = [c \in Chunk |-> Blank]
    /\ requests = [c \in Client |-> <<>>] /\ responses = [c \in Client |-> <<>>]
    /\ cpc = [c \in Client |-> "absent"] /\ chunk = [c \in Client |-> NoChunk]
    /\ handles = [c \in Client |-> {}] /\ kept = [c \in Client |-> 0]
    /\ using = [c \in Client |-> Blank]
    /\ answer = [c \in Client |-> [to |-> Blank, from |-> Blank]]
    /\ spc = "idle" /\ cursor = 1 /\ schunk = NoChunk /\ sreq = Blank /\ active = {}
    /\ lost = {} /\ misused = {} /\ reused = {}

\* Something is left of request q.
InUse(q) ==
    \/ \E c \in Chunk \ lost : content[c] = q
    \/ \E c \in Client : q \in handles[c] \union {using[c]}
    \/ q \in active \union {sreq}

-----------------------------------------------------------------------------
(* The pool and the queues *)

Allocate(c, q) ==
    /\ c \in free
    /\ free' = free \ {c}
    /\ content' = [content EXCEPT ![c] = q]

Deallocate(c) ==
    /\ free' = free \union {c}
    /\ content' = [content EXCEPT ![c] = Blank]

\* Otherwise ZeroCopyChannel::send fails with QueueFull, and nobody has the chunk.
HasRoom(q) == Len(q) < QCap

-----------------------------------------------------------------------------
(* ServerBuilder::create and ClientBuilder::create *)

CreateServer ==
    /\ ~server
    /\ server' = TRUE
    /\ UNCHANGED <<clients, segment, queues, client, srv, history>>

\* Fails with NotFound before there is a server, and waits for a receive() that
\* holds the list of clients.
CreateClient(c) ==
    /\ server /\ cpc[c] = "absent"
    /\ spc \notin {"poll", "copy", "free"}
    /\ cpc' = [cpc EXCEPT ![c] = "idle"]
    /\ clients' = Append(clients, c)
    /\ UNCHANGED <<server, segment, queues, chunk, handles, kept, using, answer, srv, history>>

-----------------------------------------------------------------------------
(* Client::send *)

\* OutOfMemory, with nothing changed, when the pool is empty.
SendAllocate(c) ==
    /\ cpc[c] = "idle" /\ Cardinality(handles[c]) < MaxHandles
    /\ \E k \in Chunk, q \in Request :
          /\ Owner(q) = c /\ ~InUse(q)
          /\ \A r \in Request : Owner(r) = c /\ r[2] < q[2] => InUse(r)
          /\ Allocate(k, q)
          /\ chunk' = [chunk EXCEPT ![c] = k]
    /\ cpc' = [cpc EXCEPT ![c] = "send"]
    /\ misused' = misused \union (IF Cardinality(handles[c]) < MaxPending THEN {} ELSE {c})
    /\ UNCHANGED <<server, clients, queues, handles, kept, using, answer, srv, lost, reused>>

SendDone(c) ==
    /\ cpc[c] = "send"
    /\ cpc' = [cpc EXCEPT ![c] = "idle"]
    /\ chunk' = [chunk EXCEPT ![c] = NoChunk]
    /\ UNCHANGED <<server, clients, segment, responses, kept, using, answer, srv, misused, reused>>

\* A send that gives the chunk back when it returns, queued or not.
SendPushFrees(c) ==
    /\ cpc[c] = "send"
    /\ HasRoom(requests[c])
    /\ requests' = [requests EXCEPT ![c] = Append(@, chunk[c])]
    /\ handles' = [handles EXCEPT ![c] = @ \union {content[chunk[c]]}]
    /\ free' = free \union {chunk[c]}
    /\ cpc' = [cpc EXCEPT ![c] = "idle"]
    /\ chunk' = [chunk EXCEPT ![c] = NoChunk]
    /\ UNCHANGED <<server, clients, content, responses, kept, using, answer, srv, history>>

SendPush(c) ==
    /\ SendDone(c)
    /\ HasRoom(requests[c])
    /\ requests' = [requests EXCEPT ![c] = Append(@, chunk[c])]
    /\ handles' = [handles EXCEPT ![c] = @ \union {content[chunk[c]]}]
    /\ UNCHANGED lost

SendQueueFull(c) ==
    /\ SendDone(c)
    /\ ~HasRoom(requests[c])
    /\ lost' = lost \union {chunk[c]}
    /\ UNCHANGED <<requests, handles>>

-----------------------------------------------------------------------------
(* PendingResponse::try_receive, which receive() repeats until it has a response *)

\* None while the queue is empty.
PopResponse(c) ==
    /\ cpc[c] = "idle" /\ responses[c] # <<>>
    /\ chunk' = [chunk EXCEPT ![c] = Head(responses[c])]
    /\ responses' = [responses EXCEPT ![c] = Tail(@)]
    /\ cpc' = [cpc EXCEPT ![c] = "copy"]
    /\ UNCHANGED <<server, clients, segment, requests, handles, kept, answer, srv, lost, misused>>

\* Any of the client's handles may be asked.
TryReceive(c, h) ==
    /\ h \in handles[c]
    /\ PopResponse(c)
    /\ using' = [using EXCEPT ![c] = h]
    /\ UNCHANGED reused

\* So may one that has given a response, since try_receive only borrows it.
TryReceiveAgain(c) ==
    /\ kept[c] > 0
    /\ PopResponse(c)
    /\ reused' = reused \union {c}
    /\ UNCHANGED using

CopyResponse(c) ==
    /\ cpc[c] = "copy"
    /\ answer' = [answer EXCEPT ![c] = [to |-> using[c], from |-> content[chunk[c]]]]
    /\ cpc' = [cpc EXCEPT ![c] = "free"]
    /\ UNCHANGED <<server, clients, segment, queues, chunk, handles, kept, using, srv, history>>

\* receive() has consumed the handle; after try_receive the application may keep it.
FreeResponse(c) ==
    /\ cpc[c] = "free"
    /\ Deallocate(chunk[c])
    /\ cpc' = [cpc EXCEPT ![c] = "idle"]
    /\ chunk' = [chunk EXCEPT ![c] = NoChunk]
    /\ using' = [using EXCEPT ![c] = Blank]
    /\ answer' = [answer EXCEPT ![c] = [to |-> Blank, from |-> Blank]]
    /\ handles' = [handles EXCEPT ![c] = @ \ {using[c]}]
    /\ \E n \in {kept[c], IF using[c] = Blank THEN kept[c] - 1 ELSE kept[c] + 1} :
          n <= MaxKept /\ kept' = [kept EXCEPT ![c] = n]
    /\ UNCHANGED <<server, clients, queues, srv, history>>

\* The application gives up on a response: dropping the handle runs no code.
DropPending(c, h) ==
    /\ cpc[c] = "idle" /\ h \in handles[c]
    /\ handles' = [handles EXCEPT ![c] = @ \ {h}]
    /\ misused' = misused \union {c}
    /\ UNCHANGED <<server, clients, segment, queues, cpc, chunk, kept, using, answer, srv, lost, reused>>

DropAnswered(c) ==
    /\ cpc[c] = "idle" /\ kept[c] > 0
    /\ kept' = [kept EXCEPT ![c] = @ - 1]
    /\ UNCHANGED <<server, clients, segment, queues, cpc, chunk, handles, using, answer, srv, history>>

-----------------------------------------------------------------------------
(* Server::receive, with the list of clients locked until it returns *)

ReceiveCall ==
    /\ server /\ spc = "idle" /\ Cardinality(active) < MaxActive
    /\ spc' = "poll"
    /\ UNCHANGED <<server, clients, segment, queues, client, cursor, schunk, sreq, active, history>>

ReceivePoll ==
    /\ spc = "poll" /\ cursor <= Len(clients)
    /\ LET c == clients[cursor] IN
          \/ /\ requests[c] # <<>>
             /\ schunk' = Head(requests[c])
             /\ requests' = [requests EXCEPT ![c] = Tail(@)]
             /\ spc' = "copy" /\ cursor' = 1
          \/ /\ requests[c] = <<>>
             /\ cursor' = cursor + 1
             /\ UNCHANGED <<requests, schunk, spc>>
    /\ UNCHANGED <<server, clients, segment, responses, client, sreq, active, history>>

ReceiveNone ==
    /\ spc = "poll" /\ cursor > Len(clients)
    /\ spc' = "idle" /\ cursor' = 1
    /\ UNCHANGED <<server, clients, segment, queues, client, schunk, sreq, active, history>>

\* The request is read after its chunk is back in the pool.
CopyRequestLate ==
    /\ spc = "copy"
    /\ sreq' = Blank
    /\ spc' = "free"
    /\ UNCHANGED <<server, clients, segment, queues, client, cursor, schunk, active, history>>

CopyRequest ==
    /\ spc = "copy"
    /\ sreq' = content[schunk]
    /\ spc' = "free"
    /\ UNCHANGED <<server, clients, segment, queues, client, cursor, schunk, active, history>>

\* The request's chunk is not given back.
FreeRequestForgets ==
    /\ spc = "free"
    /\ active' = active \union {sreq}
    /\ spc' = "idle" /\ schunk' = NoChunk /\ sreq' = Blank
    /\ UNCHANGED <<server, clients, segment, queues, client, cursor, history>>

FreeRequest ==
    /\ spc = "free"
    /\ Deallocate(schunk)
    /\ active' = active \union {sreq}
    /\ spc' = "idle" /\ schunk' = NoChunk /\ sreq' = Blank
    /\ UNCHANGED <<server, clients, queues, client, cursor, history>>

-----------------------------------------------------------------------------
(* ActiveRequest::respond, which consumes the ActiveRequest whatever happens *)

\* A respond that borrows the ActiveRequest: it can be answered again.
RespondAllocateBorrows(q) ==
    /\ spc = "idle" /\ q \in active
    /\ \E k \in Chunk : Allocate(k, q) /\ schunk' = k
    /\ spc' = "respond" /\ sreq' = q
    /\ UNCHANGED <<server, clients, queues, client, cursor, active, history>>

RespondAllocate(q) ==
    /\ spc = "idle" /\ q \in active
    /\ active' = active \ {q}
    /\ \E k \in Chunk : Allocate(k, q) /\ schunk' = k
    /\ spc' = "respond" /\ sreq' = q
    /\ UNCHANGED <<server, clients, queues, client, cursor, history>>

\* The request is never answered.
RespondOutOfMemory(q) ==
    /\ spc = "idle" /\ q \in active
    /\ free = {}
    /\ active' = active \ {q}
    /\ UNCHANGED <<server, clients, segment, queues, client, spc, cursor, schunk, sreq, history>>

RespondDone ==
    /\ spc = "respond"
    /\ spc' = "idle" /\ schunk' = NoChunk /\ sreq' = Blank
    /\ UNCHANGED <<server, clients, segment, requests, client, cursor, active, misused, reused>>

\* Over the channel the request came through, which is its owner's (AnswersDelivered).
RespondPush ==
    /\ RespondDone
    /\ HasRoom(responses[Owner(sreq)])
    /\ responses' = [responses EXCEPT ![Owner(sreq)] = Append(@, schunk)]
    /\ UNCHANGED lost

RespondQueueFull ==
    /\ RespondDone
    /\ ~HasRoom(responses[Owner(sreq)])
    /\ lost' = lost \union {schunk}
    /\ UNCHANGED responses

\* The application drops an ActiveRequest unanswered.
DropActive(q) ==
    /\ spc = "idle" /\ q \in active
    /\ active' = active \ {q}
    /\ UNCHANGED <<server, clients, segment, queues, client, spc, cursor, schunk, sreq, history>>

-----------------------------------------------------------------------------
ClientStep(c) == SendPush(c) \/ SendQueueFull(c) \/ CopyResponse(c) \/ FreeResponse(c)

ReceiveStep == ReceiveCall \/ ReceivePoll \/ ReceiveNone \/ CopyRequest \/ FreeRequest

RespondStep ==
    \/ RespondPush \/ RespondQueueFull
    \/ \E q \in Request : RespondAllocate(q) \/ RespondOutOfMemory(q) \/ DropActive(q)

Next ==
    \/ CreateServer
    \/ ReceiveStep \/ RespondStep
    \/ \E c \in Client :
          \/ CreateClient(c) \/ SendAllocate(c) \/ ClientStep(c)
          \/ TryReceiveAgain(c) \/ DropAnswered(c)
          \/ \E h \in Request : TryReceive(c, h) \/ DropPending(c, h)

Spec == Init /\ [][Next]_vars

-----------------------------------------------------------------------------
(* Properties *)

SegmentTypeOK ==
    /\ free \subseteq Chunk /\ content \in [Chunk -> Request \union {Blank}]
    /\ requests \in [Client -> Seq(Chunk)] /\ responses \in [Client -> Seq(Chunk)]
    /\ lost \subseteq Chunk /\ misused \subseteq Client /\ reused \subseteq Client

ClientsTypeOK ==
    /\ cpc \in [Client -> {"absent", "idle", "send", "copy", "free"}]
    /\ chunk \in [Client -> Chunk \union {NoChunk}]
    /\ handles \in [Client -> SUBSET Request] /\ kept \in [Client -> 0 .. MaxKept]
    /\ using \in [Client -> Request \union {Blank}]
    /\ answer \in [Client -> [to : Request \union {Blank}, from : Request \union {Blank}]]

ServerTypeOK ==
    /\ server \in BOOLEAN /\ clients \in Seq(Client)
    /\ spc \in {"idle", "poll", "copy", "free", "respond"}
    /\ cursor \in 1 .. Cardinality(Client) + 1
    /\ schunk \in Chunk \union {NoChunk} /\ sreq \in Request \union {Blank}
    /\ active \subseteq Request

\* Every variable stays in its range; an ActiveRequest is always a request some client
\* sent, never what a chunk happens to hold.
TypeOK == SegmentTypeOK /\ ClientsTypeOK /\ ServerTypeOK

Queued(q, k) == {i \in 1 .. Len(q) : q[i] = k}

\* Where chunk k is.
Places(k) ==
    {<<"free">> : x \in {k} \intersect free}
    \union {<<"lost">> : x \in {k} \intersect lost}
    \union {<<"server">> : x \in {k} \intersect {schunk}}
    \union {<<"client", c>> : c \in {d \in Client : chunk[d] = k}}
    \union (UNION {{<<"request", c, i>> : i \in Queued(requests[c], k)} : c \in Client})
    \union (UNION {{<<"response", c, i>> : i \in Queued(responses[c], k)} : c \in Client})

\* The one pool all ports share never has a chunk in two hands, nor forgets one but
\* when a send was refused: each chunk is at one place, whatever clients and server
\* allocate, queue, copy and free meanwhile.
ExclusiveChunks == \A k \in Chunk : Cardinality(Places(k)) = 1

\* A client is only ever given answers to requests of its own, and to each of them
\* at most one: a request is queued at its client, active, or answered in its
\* client's queue, and in one of these only.
AnswersDelivered ==
    /\ \A c \in Client :
          /\ \A i \in 1 .. Len(requests[c]) : Owner(content[requests[c][i]]) = c
          /\ \A i \in 1 .. Len(responses[c]) : Owner(content[responses[c][i]]) = c
          /\ Owner(answer[c].from) \in {c, NoClient}
    /\ \A q \in Request :
          Cardinality({k \in Chunk \ lost : content[k] = q}
                         \union {NoChunk : r \in {q} \intersect active}) <= 1

\* The sizing of server.rs: as long as no application drops an unanswered handle or waits
\* on more than max_pending_requests of them, and there are no more clients than the
\* segment has room for, no chunk is lost and no response fails for want of memory,
\* whichever handles the responses are taken through.
SizedForPending ==
    misused = {} /\ Cardinality(Client) * MaxPending <= ChunkCount =>
        /\ lost = {}
        /\ active # {} /\ spc = "idle" => free # {}

\* "request-response always returns correct computation" (entangle/tests/proptest_qos.rs:150):
\* the response a PendingResponse yields answers the request that returned it.  Nothing in
\* a response says which request it answers, so this is so only of a client that waits for
\* each answer before it sends again, drops no handle unanswered and gets no second response
\* through a handle (that would be the answer to its next request), whatever the server and
\* the other clients do meanwhile, requests the server drops or cannot answer included.
OwnAnswerInTurn ==
    MaxPending = 1 =>
        \A c \in Client \ (misused \union reused) : answer[c].from = answer[c].to

-----------------------------------------------------------------------------
(* The inductive invariant of the proofs *)

\* The list of clients has each of them once, and receive() stays within it.
ClientsListed ==
    /\ IsInjective(clients)
    /\ \A c \in Client : c \in Range(clients) => cpc[c] # "absent"
    /\ cursor <= Len(clients) + 1

\* A call has a chunk, a request and an answer exactly where the code has them.
ClientCall(c) ==
    /\ chunk[c] # NoChunk <=> cpc[c] \in {"send", "copy", "free"}
    /\ using[c] # Blank => cpc[c] \in {"copy", "free"}
    /\ answer[c] = IF cpc[c] = "free"
                      THEN [to |-> using[c], from |-> content[chunk[c]]]
                      ELSE [to |-> Blank, from |-> Blank]
    /\ cpc[c] = "send" => content[chunk[c]] \notin handles[c]
    /\ cpc[c] \in {"copy", "free"} => using[c] \in handles[c] \/ (kept[c] > 0 /\ c \in reused)

ClientCalls == \A c \in Client : ClientCall(c)

ServerCalls ==
    /\ schunk # NoChunk <=> spc \in {"copy", "free", "respond"}
    /\ sreq = IF spc \in {"free", "respond"} THEN content[schunk] ELSE Blank

\* The kinds of place, and whether a chunk is in one, client c's if it is a client's.
Kind == {"free", "lost", "server", "client", "request", "response"}
Whose == Client \union {NoClient}

At(k, a, c) ==
    \/ a = "free" /\ c = NoClient /\ k \in free
    \/ a = "lost" /\ c = NoClient /\ k \in lost
    \/ a = "server" /\ c = NoClient /\ schunk = k
    \/ a = "client" /\ c \in Client /\ chunk[c] = k
    \/ a = "request" /\ c \in Client /\ k \in Range(requests[c])
    \/ a = "response" /\ c \in Client /\ k \in Range(responses[c])

OnlyAt(k, a, c) == \A b \in Kind, d \in Whose : At(k, b, d) <=> b = a /\ d = c

\* Every chunk is in one place, once.
OneKind == \A k \in Chunk : \E a \in Kind, c \in Whose : OnlyAt(k, a, c)
QueuedOnce == \A c \in Client : IsInjective(requests[c]) /\ IsInjective(responses[c])

\* A chunk out of the pool holds a request; a client's holds one of its own; no two hold
\* the same one, and none an active one, but for those that are lost.
Contents ==
    /\ \A k \in Chunk : k \in free <=> content[k] = Blank
    /\ \A k \in Chunk, c \in Client :
          (\E a \in Kind : At(k, a, c)) => Owner(content[k]) = c
    /\ \A k \in Chunk \ lost :
          content[k] # Blank =>
              /\ content[k] \notin active
              /\ \A l \in Chunk \ lost : content[l] = content[k] => l = k

\* The requests of c that a chunk or the server's application has.
Alive(q) == q \in active \/ \E k \in Chunk \ lost : content[k] = q
Outstanding(c) == {q \in Request : Owner(q) = c /\ Alive(q)}

Busy(c) == IF cpc[c] = "send" THEN 1 ELSE 0

\* No more of them than handles to wait on, counting the one that is made.
Within(c) ==
    /\ Cardinality(Outstanding(c)) <= Cardinality(handles[c]) + Busy(c)
    /\ Cardinality(handles[c]) + Busy(c) <= MaxPending

\* A chunk is lost only to a client that does not keep to that.
WithinPending ==
    /\ \A c \in Client \ misused : Within(c)
    /\ misused = {} => lost = {}

\* A client that waits for each answer has a handle on all that is outstanding.
HasHandles(c) ==
    \A q \in Outstanding(c) :
        q \in handles[c] \/ (cpc[c] = "send" /\ q = content[chunk[c]])

InTurn == MaxPending = 1 => \A c \in Client \ misused : HasHandles(c)

IndInv ==
    /\ TypeOK /\ ClientsListed /\ ClientCalls /\ ServerCalls /\ OneKind /\ QueuedOnce
    /\ Contents /\ WithinPending /\ InTurn
=============================================================================
