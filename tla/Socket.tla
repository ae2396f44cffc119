------------------------------- MODULE Socket -------------------------------
(***************************************************************************)
(* One Socket of the C++ library from its creation to the end of its UV    *)
(* handle: a gateway's, accepted on the gateway's loop and moved to the    *)
(* loop of a service, or one that connects and stays on its loop.          *)
(*                                                                         *)
(* A loop runs one handler at a time; task holds the steps its handler has *)
(* yet to do, so that other threads come in between.  Of the marshalled    *)
(* events of a loop (module UVLoop) only those of this socket appear: one  *)
(* write event at most, its key is unique.                                 *)
(***************************************************************************)
EXTENDS Framing

CONSTANTS Writers,      (* threads that call write                         *)
          Drafts,       (* what they write: [size, override], where the    *)
                        (* override 0 leaves the ID as it is               *)
          Inbound,      (* what the other end may send: sequences of       *)
                        (* [action, size]                                  *)
          AckSize,      (* the size of an ACK                              *)
          ReadSizes,    (* bound: what a read may return, besides all      *)
          MaxWrites,    (* bound: messages written                         *)
          MaxConnects   (* bound: calls of connect                         *)

ASSUME SocketAssumption ==
  /\ Drafts \subseteq [size : Sizes, override : Nat]
  /\ AckSize \in Sizes
  /\ Inbound \subseteq Seq([action : {"CONNECT", "DISCONNECT", "MESSAGE"}, size : Sizes])
  /\ MaxConnects \in Nat

Loops   == {"old", "new"}
Nowhere == "nowhere"

VARIABLES
  kind,        (* "accepted" or "outgoing"                                 *)
  stage,       (* how far connecting or moving has come                    *)
  connects,    (* calls of connect                                         *)
  loop,        (* m_pUVLoop                                                *)
  handle,      (* the loop of m_pSocket, or Nowhere                        *)
  leftOpen,    (* handles that are open and m_pSocket no longer points to  *)
  closeEvent,  (* the loop ~Socket has marshalled its event to, or Nowhere *)
  reading,     (* uv_read_start is in effect                               *)
  connected,   (* m_connected                                              *)
  queue,       (* m_queuedWrites                                           *)
  callback,    (* whom m_pCallback points to                               *)
  owners,      (* those who keep a SocketPtr                               *)
  destroyed,   (* ~Socket has run                                          *)
  task,        (* steps left of the handler a loop is running              *)
  requests,    (* the write requests processQueuedWrites has yet to send   *)
  writeEvents, (* the loops with a marshalled write event                  *)
  adding,      (* writers between the add and the event                    *)
  inFlight,    (* requests uv_write has not called back for                *)
  current,     (* m_pCurrentMessage                                        *)
  chunk,       (* what onDataReceived has yet to read of its buffer        *)
  inbound,     (* what the other end sends                                 *)
  unread,      (* its bytes that no read has returned yet                  *)
  received,    (* the messages passed to callbacks                         *)
  wire,        (* the bytes sent                                           *)
  broken,      (* the connection is lost                                   *)
  asked,       (* everything that was to be written, in the queue's order  *)
  wroteEarly,  (* a write event went to the old loop of a moving socket    *)
  saidGoodbye  (* a DISCONNECT was read before the move was complete       *)

handleVars == <<leftOpen, closeEvent>>
connVars  == <<kind, connects, stage, loop, handle, reading, handleVars>>
ownVars   == <<callback, owners, destroyed>>
writeVars == <<queue, writeEvents, adding, asked, wroteEarly>>
sendVars  == <<requests, inFlight, wire>>
readVars  == <<current, chunk, inbound, unread, received, saidGoodbye>>
vars      == <<connVars, ownVars, writeVars, sendVars, readVars, connected, task, broken>>

(* Somebody keeps the socket alive: an owner, a writer, a write event, a   *)
(* running handler, a request in flight, or moveToLoop while the old       *)
(* handle closes.  Callbacks that hold a weak pointer run only then.       *)
Alive ==
  \/ owners # {} \/ adding # {} \/ writeEvents # {} \/ inFlight > 0
  \/ \E l \in Loops : task[l] # << >>
  \/ stage = "closing"

Idle(l)  == task[l] = << >>
Runs(l, step) == task[l] # << >> /\ Head(task[l]) = step
Done(l)  == task' = [task EXCEPT ![l] = Tail(@)]
-----------------------------------------------------------------------------
(* What is sent to us was coalesced by either library.                     *)
InboundBuffers(messages) ==
  [i \in 1 .. Len(messages) |-> MessageBytes(messages[i].size, 0, i)]

Coalesced(buffers) ==
  {FlattenSeq(getWriteRequests([i \in 1 .. Len(buffers) |-> [data |-> buffers[i], override |-> 0]])),
   FlattenSeq(getSendBufferInfos(buffers))}

Init ==
  /\ kind \in {"accepted", "outgoing"}
  /\ stage = "created" /\ connects = 0 /\ loop = "old" /\ handle = Nowhere
  /\ leftOpen = 0 /\ closeEvent = Nowhere
  /\ reading = FALSE /\ connected = FALSE /\ queue = << >>
  /\ IF kind = "accepted" THEN callback = "gateway" /\ owners = {}
     ELSE callback = "user" /\ owners = {"user"}
  /\ destroyed = FALSE
  /\ task = [l \in Loops |-> << >>] /\ requests = [l \in Loops |-> << >>]
  /\ writeEvents = {} /\ adding = {} /\ inFlight = 0
  /\ current = << >> /\ chunk = << >> /\ received = << >>
  /\ inbound \in Inbound
  /\ unread \in Coalesced(InboundBuffers(inbound))
  /\ wire = << >> /\ broken = FALSE /\ asked = << >>
  /\ wroteEarly = FALSE /\ saidGoodbye = FALSE

(* Variant: what was written before is not sent when the socket connects.  *)
onSocketConnected_NoFlush(l) ==
  /\ connected' = TRUE
  /\ task' = [task EXCEPT ![l] = <<"read">>]

(* processQueuedWrites, then uv_read_start and the callback.               *)
onSocketConnected(l) ==
  /\ connected' = TRUE
  /\ task' = [task EXCEPT ![l] = <<"take", "send", "read">>]

StartReading(l) ==
  /\ Runs(l, "read")
  /\ reading' = TRUE
  /\ IF stage = "registering"
     THEN /\ stage' = "moved"
          /\ task' = [task EXCEPT ![l] = <<"acknowledge">>]
     ELSE /\ stage' = "connected"
          /\ Done(l)
  /\ UNCHANGED <<kind, connects, loop, handle, handleVars, connected, ownVars,
                 writeVars, sendVars, readVars, broken>>

(* Variant: the handle is made for the loop the socket comes from.         *)
createSocket_OnOldLoop ==
  /\ handle' = loop
  /\ leftOpen' = IF handle = Nowhere THEN leftOpen ELSE leftOpen + 1

(* A new handle on m_pUVLoop takes the place of the one there may be,      *)
(* which nobody closes.                                                    *)
createSocket ==
  /\ handle' = loop'
  /\ leftOpen' = IF handle = Nowhere THEN leftOpen ELSE leftOpen + 1

(* onNewConnection and accept: the socket is passed to the gateway, which  *)
(* keeps it, whether uv_accept succeeds or not.                            *)
accept ==
  /\ kind = "accepted" /\ stage = "created" /\ Idle("old")
  /\ UNCHANGED loop
  /\ createSocket
  /\ owners' = {"gateway"}
  /\ \/ onSocketConnected("old") /\ UNCHANGED stage
     \/ stage' = "stuck" /\ UNCHANGED <<connected, task>>
  /\ UNCHANGED <<kind, connects, closeEvent, reading, callback, destroyed, writeVars,
                 sendVars, readVars, broken>>

(* connect, for the first time or again after it failed; uv_getaddrinfo    *)
(* may fail at once, which is logged only.                                 *)
connect ==
  /\ kind = "outgoing" /\ owners # {}
  /\ stage \in {"created", "failed"} /\ connects < MaxConnects /\ Idle("old")
  /\ connects' = connects + 1
  /\ stage' \in {"resolving", "stuck"}
  /\ UNCHANGED <<kind, loop, handle, handleVars, reading, connected, ownVars, writeVars,
                 sendVars, readVars, task, broken>>

connectIP ==
  /\ stage' = "connecting"
  /\ createSocket

(* connectIP follows a resolved name; a name that is not is logged only.   *)
onDNSResolution ==
  /\ stage = "resolving" /\ Idle("old") /\ Alive
  /\ UNCHANGED loop
  /\ \/ connectIP
     \/ stage' = "stuck" /\ UNCHANGED <<handle, leftOpen>>
  /\ UNCHANGED <<kind, connects, closeEvent, reading, connected, ownVars, writeVars,
                 sendVars, readVars, task, broken>>

(* The handle of an attempt that failed stays open.                        *)
onConnectCompleted ==
  /\ stage = "connecting" /\ Idle("old") /\ Alive
  /\ \/ stage' = "failed" /\ UNCHANGED <<connected, task>>
     \/ onSocketConnected("old") /\ UNCHANGED stage
  /\ UNCHANGED <<kind, connects, loop, handle, handleVars, reading, ownVars, writeVars,
                 sendVars, readVars, broken>>
-----------------------------------------------------------------------------
(* write: the message joins the queue, then the event is marshalled to the *)
(* loop the socket is on by then.  The owner of an outgoing socket writes  *)
(* whenever it likes; a service writes to a client that it has heard from, *)
(* which may be in the read that brought the CONNECT.                      *)
MayWrite ==
  \/ kind = "outgoing" /\ "user" \in owners
  \/ kind = "accepted" /\ "service" \in owners /\ Len(received) > 1

QueueWrite(draft) ==
  /\ asked' = Append(asked, draft)
  /\ queue' = Append(queue, [data     |-> MessageBytes(draft.size, 0, Len(asked) + 1),
                             override |-> draft.override])

AddWrite(w) ==
  /\ MayWrite /\ w \notin adding /\ Len(asked) < MaxWrites
  /\ \E draft \in Drafts : QueueWrite(draft)
  /\ adding' = adding \cup {w}
  /\ UNCHANGED <<connVars, ownVars, writeEvents, wroteEarly, sendVars, readVars,
                 connected, task, broken>>

MarshalWrite(w) ==
  /\ w \in adding
  /\ adding' = adding \ {w}
  /\ writeEvents' = writeEvents \cup {loop}
  /\ wroteEarly' = (wroteEarly \/ (loop = "old" /\ stage \in {"closing", "registering"}))
  /\ UNCHANGED <<connVars, ownVars, queue, asked, sendVars, readVars, connected,
                 task, broken>>

(* ServiceManager::onMoveToLoopComplete, on the service's own thread.      *)
acknowledge ==
  /\ Runs("new", "acknowledge")
  /\ QueueWrite([size |-> AckSize, override |-> 0])
  /\ writeEvents' = writeEvents \cup {loop}
  /\ Done("new")
  /\ UNCHANGED <<connVars, ownVars, adding, wroteEarly, sendVars, readVars, connected,
                 broken>>

(* A write event runs processQueuedWrites, whose three steps are the test  *)
(* of m_connected, getItems and the calls of send.                         *)
processQueuedWrites(l) ==
  /\ l \in writeEvents /\ Idle(l)
  /\ writeEvents' = writeEvents \ {l}
  /\ task' = IF connected THEN [task EXCEPT ![l] = <<"take", "send">>] ELSE task
  /\ UNCHANGED <<connVars, ownVars, queue, adding, asked, wroteEarly, sendVars,
                 readVars, connected, broken>>

TakeWrites(l) ==
  /\ Runs(l, "take")
  /\ requests' = [requests EXCEPT ![l] = getWriteRequests(queue)]
  /\ queue' = << >>
  /\ Done(l)
  /\ UNCHANGED <<connVars, ownVars, writeEvents, adding, asked, wroteEarly, inFlight,
                 wire, readVars, connected, broken>>

send(l) ==
  /\ Runs(l, "send")
  /\ IF requests[l] = << >>
     THEN Done(l) /\ UNCHANGED sendVars
     ELSE /\ wire' = IF broken THEN wire ELSE wire \o Head(requests[l])
          /\ requests' = [requests EXCEPT ![l] = Tail(@)]
          /\ inFlight' = inFlight + 1
          /\ UNCHANGED task
  /\ UNCHANGED <<connVars, ownVars, writeVars, readVars, connected, broken>>

(* Whom the callback for DISCONNECTED belongs to lets go of the socket,    *)
(* except a client and a mesh connection, which keep it.                   *)
Released == IF callback = "user" THEN owners ELSE owners \ {callback}

handleSocketDisconnected ==
  /\ connected' = FALSE
  /\ queue' = << >>
  /\ owners' = Released

(* Variant: a request that failed is released twice.                       *)
onWriteCompleted_ReleasesTwice ==
  /\ inFlight > 0 /\ handle \in Loops /\ Idle(handle)
  /\ \/ inFlight' = inFlight - 1 /\ UNCHANGED <<connected, queue, owners>>
     \/ inFlight' = inFlight - 2 /\ broken /\ handleSocketDisconnected
  /\ UNCHANGED <<connVars, callback, destroyed, writeEvents, adding, asked, wroteEarly,
                 requests, wire, readVars, task, broken>>

onWriteCompleted ==
  /\ inFlight > 0 /\ handle \in Loops /\ Idle(handle)
  /\ inFlight' = inFlight - 1
  /\ \/ UNCHANGED <<connected, queue, owners>>
     \/ broken /\ handleSocketDisconnected
  /\ UNCHANGED <<connVars, callback, destroyed, writeEvents, adding, asked, wroteEarly,
                 requests, wire, readVars, task, broken>>
-----------------------------------------------------------------------------
(* onDataReceived with data: the bytes are read message by message, and    *)
(* each callback may change the socket before the next one.                *)
onDataReceived ==
  /\ reading /\ ~broken /\ Alive /\ Idle(handle) /\ unread # << >>
  /\ \E n \in (ReadSizes \cap 1 .. Len(unread)) \cup {Len(unread)} :
       /\ chunk' = SubSeq(unread, 1, n)
       /\ unread' = SubSeq(unread, n + 1, Len(unread))
  /\ task' = [task EXCEPT ![handle] = <<"parse">>]
  /\ UNCHANGED <<connVars, ownVars, writeVars, sendVars, current, inbound, received,
                 saidGoodbye, connected, broken>>

(* The other end has closed, or the connection is lost.                    *)
onReadError ==
  /\ reading /\ broken /\ Alive /\ Idle(handle)
  /\ reading' = FALSE
  /\ handleSocketDisconnected
  /\ UNCHANGED <<kind, connects, stage, loop, handle, handleVars, callback, destroyed,
                 writeEvents, adding, asked, wroteEarly, sendVars, readVars, task, broken>>

(* The handle is closing: it reads and writes no more.                     *)
moveToLoop ==
  /\ stage' = "closing"
  /\ reading' = FALSE
  /\ connected' = FALSE

(* Variant: the gateway lets go and the service keeps no SocketPtr.        *)
onConnect_NoOwner ==
  /\ callback' = "service"
  /\ moveToLoop /\ owners' = {}
  /\ UNCHANGED saidGoodbye

(* Gateway::onConnect and registerSocket: the service becomes the owner.   *)
(* When the socket cannot be duplicated, moveToLoop throws, the gateway    *)
(* keeps the socket as well, and it stays where it is.                     *)
onConnect ==
  /\ callback' = "service"
  /\ \/ moveToLoop /\ owners' = {"service"}
     \/ /\ owners' = {"gateway", "service"}
        /\ stage' = "unmoved"
        /\ UNCHANGED <<reading, connected>>
  /\ UNCHANGED saidGoodbye

onDisconnect ==
  /\ owners' = owners \ {"service"}
  /\ saidGoodbye' = (saidGoodbye \/ stage # "moved")
  /\ UNCHANGED <<stage, reading, connected, callback>>

Ignored == UNCHANGED <<stage, reading, connected, callback, owners, saidGoodbye>>

(* The last byte of a message tells which one it is.                       *)
Action(message) ==
  LET i == Last(message) IN IF i \in DOMAIN inbound THEN inbound[i].action ELSE "MESSAGE"

Dispatched(message) ==
  CASE callback = "gateway" /\ Action(message) = "CONNECT"    -> onConnect
    [] callback = "service" /\ Action(message) = "DISCONNECT" -> onDisconnect
    [] OTHER -> Ignored

ReadMessage(l) ==
  /\ Runs(l, "parse") /\ chunk # << >>
  /\ LET n       == readNetworkMessage(current, chunk)
         message == current \o SubSeq(chunk, 1, n)
     IN  /\ chunk' = SubSeq(chunk, n + 1, Len(chunk))
         /\ IF hasAllData(message)
            THEN /\ received' = Append(received, message)
                 /\ current' = << >>
                 /\ Dispatched(message)
            ELSE /\ current' = message
                 /\ UNCHANGED received
                 /\ Ignored
  /\ UNCHANGED <<kind, connects, loop, handle, handleVars, destroyed, writeVars, sendVars,
                 inbound, unread, task, broken>>

(* Variant: a message must be read in one piece.                           *)
EndOfChunk_DropsPartial(l) ==
  /\ Runs(l, "parse") /\ chunk = << >>
  /\ Done(l)
  /\ current' = << >>
  /\ UNCHANGED <<connVars, ownVars, writeVars, sendVars, chunk, inbound, unread, received,
                 saidGoodbye, connected, broken>>

EndOfChunk(l) ==
  /\ Runs(l, "parse") /\ chunk = << >>
  /\ Done(l)
  /\ UNCHANGED <<connVars, ownVars, writeVars, sendVars, readVars, connected, broken>>
-----------------------------------------------------------------------------
(* Variant: the move goes on only if the socket is connected.              *)
moveToLoop_onSocketClosed_Checks ==
  /\ stage = "closing" /\ Idle("old") /\ connected
  /\ handle' = Nowhere
  /\ stage' = "registering"
  /\ UNCHANGED <<kind, connects, loop, handleVars, reading, ownVars, writeVars, sendVars,
                 readVars, connected, task, broken>>

(* uv_close of the old handle has completed; from here on the marshalled   *)
(* event of the new loop holds a plain pointer to the socket.              *)
moveToLoop_onSocketClosed ==
  /\ stage = "closing" /\ Idle("old")
  /\ handle' = Nowhere
  /\ stage' = "registering"
  /\ UNCHANGED <<kind, connects, loop, handleVars, reading, ownVars, writeVars, sendVars,
                 readVars, connected, task, broken>>

(* Variant: the socket is registered but writes still go to the old loop.  *)
SwitchLoop_Forgotten == UNCHANGED loop

SwitchLoop == loop' = "new"

moveToLoop_registerDuplicatedSocket ==
  /\ stage = "registering" /\ loop = "old" /\ ~destroyed /\ Idle("new")
  /\ SwitchLoop
  /\ createSocket
  /\ \/ onSocketConnected("new") /\ UNCHANGED stage
     \/ stage' = "stuck" /\ UNCHANGED <<connected, task>>
  /\ UNCHANGED <<kind, connects, closeEvent, reading, ownVars, writeVars, sendVars, readVars,
                 broken>>

(* The owner of an outgoing socket lets it go when it is not using it.     *)
Release ==
  /\ kind = "outgoing" /\ owners # {} /\ adding = {}
  /\ owners' = {}
  /\ UNCHANGED <<connVars, callback, destroyed, writeVars, sendVars, readVars,
                 connected, task, broken>>

(* ~Socket, on whatever thread the last pointer goes: the handle that      *)
(* m_pSocket points to is to be closed by an event of m_pUVLoop.           *)
Destroy ==
  /\ ~Alive /\ ~destroyed /\ ~(kind = "accepted" /\ stage = "created")
  /\ destroyed' = TRUE
  /\ connected' = FALSE
  /\ queue' = << >>
  /\ closeEvent' = IF handle = Nowhere THEN Nowhere ELSE loop
  /\ UNCHANGED <<kind, connects, stage, loop, handle, leftOpen, reading, callback, owners,
                 writeEvents, adding, asked, wroteEarly, sendVars, readVars, task, broken>>

(* Variant: only a socket that is connected closes its handle.             *)
CloseHandle_OnlyConnected ==
  /\ closeEvent # Nowhere /\ Idle(closeEvent)
  /\ stage \in {"connected", "moved", "unmoved"}
  /\ closeEvent' = Nowhere
  /\ handle' = Nowhere
  /\ reading' = FALSE
  /\ UNCHANGED <<kind, connects, stage, loop, leftOpen, ownVars, writeVars, sendVars,
                 readVars, connected, task, broken>>

(* The event ~Socket has marshalled.                                       *)
CloseHandle ==
  /\ closeEvent # Nowhere /\ Idle(closeEvent)
  /\ closeEvent' = Nowhere
  /\ handle' = Nowhere
  /\ reading' = FALSE
  /\ UNCHANGED <<kind, connects, stage, loop, leftOpen, ownVars, writeVars, sendVars,
                 readVars, connected, task, broken>>

(* The other end, or the network, ends the connection.                     *)
Break ==
  /\ stage \in {"connected", "closing", "registering", "moved", "unmoved"}
  /\ ~broken
  /\ broken' = TRUE
  /\ UNCHANGED <<connVars, ownVars, writeVars, sendVars, readVars, connected, task>>
-----------------------------------------------------------------------------
LoopStep(l) ==
  \/ StartReading(l) \/ processQueuedWrites(l) \/ TakeWrites(l) \/ send(l)
  \/ ReadMessage(l) \/ EndOfChunk(l)

CallbackStep ==
  \/ accept \/ onDNSResolution \/ onConnectCompleted
  \/ acknowledge
  \/ onWriteCompleted \/ onDataReceived \/ onReadError
  \/ moveToLoop_onSocketClosed \/ moveToLoop_registerDuplicatedSocket
  \/ CloseHandle

Next ==
  \/ CallbackStep
  \/ \E l \in Loops : LoopStep(l)
  \/ \E w \in Writers : AddWrite(w) \/ MarshalWrite(w)
  \/ connect \/ Release \/ Destroy \/ Break

Spec == Init /\ [][Next]_vars

(* Loops run what they are given, and no thread stops in the middle of     *)
(* write or of a destructor.  Nobody is made to connect, write or let go,  *)
(* and no connection has to break.                                         *)
Fairness ==
  /\ \A l \in Loops : WF_vars(LoopStep(l))
  /\ WF_vars(CallbackStep)
  /\ \A w \in Writers : WF_vars(MarshalWrite(w))
  /\ WF_vars(Destroy)

FairSpec == Spec /\ Fairness
-----------------------------------------------------------------------------
Messages == Seq(Nat)

(***************************************************************************)
(* Every variable has its type.                                            *)
(***************************************************************************)
TypeOK ==
  /\ kind \in {"accepted", "outgoing"}
  /\ stage \in {"created", "resolving", "connecting", "failed", "stuck", "connected",
                "closing", "registering", "moved", "unmoved"}
  /\ connects \in 0 .. MaxConnects
  /\ loop \in Loops /\ {handle, closeEvent} \subseteq Loops \cup {Nowhere}
  /\ leftOpen \in 0 .. MaxConnects
  /\ {reading, connected, destroyed, broken, wroteEarly, saidGoodbye} \subseteq BOOLEAN
  /\ callback \in {"gateway", "service", "user"}
  /\ owners \subseteq {"gateway", "service", "user"}
  /\ queue \in Seq([data : Messages, override : Nat])
  /\ task \in [Loops -> Seq({"take", "send", "read", "parse", "acknowledge"})]
  /\ requests \in [Loops -> Seq(Messages)]
  /\ writeEvents \subseteq Loops /\ adding \subseteq Writers
  /\ inFlight \in Nat
  /\ {current, chunk, unread, wire} \subseteq Messages
  /\ inbound \in Inbound
  /\ received \in Seq(Messages)
  /\ asked \in Seq([size : Nat, override : Nat])

(* The bytes the other end is to get, and those that are on their way.     *)
Stream ==
  FlattenSeq([i \in 1 .. Len(asked) |-> MessageBytes(asked[i].size, asked[i].override, i)])

Waiting ==
  FlattenSeq(requests["old"]) \o FlattenSeq(requests["new"])
    \o FlattenSeq([i \in 1 .. Len(queue) |-> Patched(queue[i].data, queue[i].override)])

(***************************************************************************)
(* Whatever is coalesced, split, queued while the socket connects or moves *)
(* and flushed afterwards, the other end gets every message once, whole,   *)
(* with the subscription ID that is meant for it and in the order of the   *)
(* queue.  Only a write event that went to the loop the socket is leaving  *)
(* can upset the order.  Even then no byte is lost or sent twice, provided *)
(* that uv_write from a loop the handle has left takes effect at once,     *)
(* which libuv does not promise.                                           *)
(***************************************************************************)
SentOnceAndInOrder ==
  /\ ~wroteEarly => IsPrefix(wire, Stream)
  /\ ~broken /\ ~destroyed =>
       /\ Len(wire) + Len(Waiting) = Len(Stream)
       /\ ~wroteEarly => wire \o Waiting = Stream

(***************************************************************************)
(* However the bytes of the other end are cut into reads, also inside a    *)
(* size and across the move, the callbacks get its messages unchanged.     *)
(***************************************************************************)
ReadAsSent ==
  /\ IsPrefix(received, InboundBuffers(inbound))
  /\ FlattenSeq(received) \o current \o chunk \o unread = FlattenSeq(InboundBuffers(inbound))

(***************************************************************************)
(* The members of a socket have no lock: its handlers never run on both    *)
(* loops at once, except when a write event went to the loop it leaves.    *)
(***************************************************************************)
OneLoopAtATime ==
  ~wroteEarly => Idle("old") \/ Idle("new")

(***************************************************************************)
(* The event that ends a move holds a plain pointer (Socket.cpp, the       *)
(* lambda of moveToLoop_onSocketClosed).  The socket is there when it      *)
(* runs, unless the client said DISCONNECT in the read that brought its    *)
(* CONNECT.                                                                *)
(***************************************************************************)
MovedWhileAlive ==
  stage = "registering" /\ destroyed => saidGoodbye

(***************************************************************************)
(* What is written is sent in the end, if the socket connects, is not      *)
(* broken or given up, and every step of a move succeeds.                  *)
(***************************************************************************)
IsUp == stage \in {"connected", "closing", "registering", "moved", "unmoved"}

EverythingIsSent ==
  []<>(IsUp /\ ~broken /\ ~destroyed =>
         adding = {} /\ queue = << >> /\ \A l \in Loops : requests[l] = << >>)

(***************************************************************************)
(* A move comes to its end on the new loop, unless the socket is gone.     *)
(***************************************************************************)
MoveCompletes ==
  stage = "closing" ~> stage \in {"moved", "stuck"} \/ destroyed

(***************************************************************************)
(* ~Socket marshals the closing of a handle to m_pUVLoop, which connecting *)
(* and moving change: it is always the loop the handle belongs to.  And    *)
(* a move leaves no handle behind: those that stay open for good, as       *)
(* nobody closes them, are the handles of attempts to connect that failed  *)
(* and were followed by another.                                           *)
(***************************************************************************)
OpenHandles ==
  /\ closeEvent # Nowhere => closeEvent = handle
  /\ leftOpen > 0 => kind = "outgoing" /\ leftOpen < connects

(***************************************************************************)
(* Wherever the last pointer to a socket goes, the handle it has then, of  *)
(* a failed attempt as well, is closed.                                    *)
(***************************************************************************)
HandleIsClosed ==
  destroyed ~> handle = Nowhere
=============================================================================
