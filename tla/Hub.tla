--------------------------------- MODULE Hub ---------------------------------
(***************************************************************************)
(* The gateway's WebSocket hub (gateway/internal/ws/hub.go).                *)
(*                                                                          *)
(* One goroutine (Run) owns the set of clients.  Producers put messages     *)
(* into a bounded channel and never wait.  Each client has a bounded send   *)
(* channel, which the hub fills and closes, a write pump that drains it, and *)
(* a read pump that leaves when the connection fails.  A client whose       *)
(* channel is full is dropped in the middle of a fan-out; its read pump     *)
(* unregisters it later all the same.  Sending on a closed channel, or      *)
(* closing it again, panics and takes the gateway down.                     *)
(***************************************************************************)
EXTENDS Integers, Sequences

CONSTANTS
  Clients,          \* connection slots; a slot is reused when its pumps ended
  SendBuffer,       \* capacity of a client's channel (64 in the code)
  BroadcastBuffer,  \* capacity of the broadcast channel (256 in the code)
  MaxMessages,      \* bound: messages accepted for broadcast
  NoMessage         \* the hub is in its select

ASSUME HubAssumption ==
  /\ SendBuffer \in Nat \ {0} /\ BroadcastBuffer \in Nat \ {0}
  /\ MaxMessages \in Nat /\ NoMessage \notin Nat

VARIABLES
  clients,     \* Hub.clients
  broadcast,   \* Hub.broadcast; a message is its number
  msg,         \* the message the hub is fanning out, or NoMessage
  todo,        \* the clients the fan-out loop has not come to
  send,        \* Client.send: the queued messages
  closed,      \* whether Client.send is closed
  conn,        \* whether the connection is open on our side
  reader,      \* ServeWS and then the read pump of a slot
  writer,      \* the write pump of a slot
  panicked,    \* a goroutine panicked
  accepted,    \* number of messages accepted for broadcast so far
  joined,      \* number of messages fanned out when the client registered (auxiliary)
  received     \* messages written to the client's connection (auxiliary)

hubState == <<clients, broadcast, msg, todo>>
vars == <<clients, broadcast, msg, todo, send, closed, conn, reader, writer, panicked,
          accepted, joined, received>>

Init ==
  /\ clients = {} /\ broadcast = <<>>
  /\ msg = NoMessage /\ todo = {}
  /\ send = [c \in Clients |-> <<>>]
  /\ closed = [c \in Clients |-> FALSE]
  /\ conn = [c \in Clients |-> FALSE]
  /\ reader = [c \in Clients |-> "none"]
  /\ writer = [c \in Clients |-> "none"]
  /\ panicked = FALSE
  /\ accepted = 0
  /\ joined = [c \in Clients |-> 0]
  /\ received = [c \in Clients |-> <<>>]

\* Messages the hub has taken from the broadcast channel.
Taken == accepted - Len(broadcast)

-----------------------------------------------------------------------------
\* Mutant: messages pile up in front of a busy hub.
MutBroadcast ==
  /\ accepted < MaxMessages
  /\ broadcast' = Append(broadcast, accepted + 1)
  /\ accepted' = accepted + 1
  /\ UNCHANGED <<clients, msg, todo, send, closed, conn, reader, writer, panicked, joined, received>>

\* Broadcast(): a full channel drops the message, nobody waits.
Broadcast ==
  /\ accepted < MaxMessages
  /\ IF Len(broadcast) < BroadcastBuffer
     THEN /\ broadcast' = Append(broadcast, accepted + 1)
          /\ accepted' = accepted + 1
     ELSE UNCHANGED <<broadcast, accepted>>
  /\ UNCHANGED <<clients, msg, todo, send, closed, conn, reader, writer, panicked, joined, received>>

\* ServeWS(): a new Client with its own channel, and the send to h.register.
ServeWS(c) ==
  /\ reader[c] \in {"none", "done"} /\ writer[c] \in {"none", "done"}
  /\ send' = [send EXCEPT ![c] = <<>>]
  /\ closed' = [closed EXCEPT ![c] = FALSE]
  /\ conn' = [conn EXCEPT ![c] = TRUE]
  /\ reader' = [reader EXCEPT ![c] = "registering"]
  /\ writer' = [writer EXCEPT ![c] = "none"]
  /\ received' = [received EXCEPT ![c] = <<>>]
  /\ UNCHANGED <<hubState, panicked, accepted, joined>>

\* ServeWS() goes on when the hub has taken the client: both pumps start.
StartPumps(c) ==
  /\ reader[c] = "registered"
  /\ reader' = [reader EXCEPT ![c] = "reading"]
  /\ writer' = [writer EXCEPT ![c] = "running"]
  /\ UNCHANGED <<hubState, send, closed, conn, panicked, accepted, joined, received>>

\* readPump(): ReadMessage fails, because the peer closed, went silent for
\* pongWait, or our side was closed; the read pump is now at h.unregister.
ReadFails(c) ==
  /\ reader[c] = "reading"
  /\ reader' = [reader EXCEPT ![c] = "leaving"]
  /\ UNCHANGED <<hubState, send, closed, conn, writer, panicked, accepted, joined, received>>

\* writePump() takes a message and writes it, or fails to and ends.
Write(c) ==
  /\ writer[c] = "running"
  /\ send[c] # <<>>
  /\ send' = [send EXCEPT ![c] = Tail(@)]
  /\ \/ /\ conn[c]
        /\ received' = [received EXCEPT ![c] = Append(@, Head(send[c]))]
        /\ UNCHANGED <<writer, conn>>
     \/ /\ writer' = [writer EXCEPT ![c] = "done"]
        /\ conn' = [conn EXCEPT ![c] = FALSE]
        /\ UNCHANGED received
  /\ UNCHANGED <<hubState, closed, reader, panicked, accepted, joined>>

\* Mutant: the write pump ends without closing the connection.
MutWriteEnds(c) ==
  /\ writer[c] = "running"
  /\ writer' = [writer EXCEPT ![c] = "done"]
  /\ UNCHANGED <<hubState, send, closed, conn, reader, panicked, accepted, joined, received>>

\* writePump() finds its channel closed and drained, or its ping fails: the
\* close handshake, and the end of the pump with its deferred Close.
WriteEnds(c) ==
  /\ writer[c] = "running"
  /\ writer' = [writer EXCEPT ![c] = "done"]
  /\ conn' = [conn EXCEPT ![c] = FALSE]
  /\ UNCHANGED <<hubState, send, closed, reader, panicked, accepted, joined, received>>

SeesClosed(c) == closed[c] /\ send[c] = <<>> /\ WriteEnds(c)
PingFails(c) == ~ (closed[c] /\ send[c] = <<>>) /\ WriteEnds(c)

-----------------------------------------------------------------------------
(* The hub's select, one case at a time *)

Register(c) ==
  /\ msg = NoMessage
  /\ reader[c] = "registering"
  /\ clients' = clients \cup {c}
  /\ joined' = [joined EXCEPT ![c] = Taken]
  /\ reader' = [reader EXCEPT ![c] = "registered"]
  /\ UNCHANGED <<broadcast, msg, todo, send, closed, conn, writer, panicked, accepted, received>>

\* close(c.send).
Close(c) ==
  /\ closed' = [closed EXCEPT ![c] = TRUE]
  /\ panicked' = (panicked \/ closed[c])

\* Mutant: the channel is closed whether or not the client is still known.
MutUnregister(c) ==
  /\ msg = NoMessage
  /\ reader[c] = "leaving"
  /\ clients' = clients \ {c}
  /\ Close(c)
  /\ reader' = [reader EXCEPT ![c] = "done"]
  /\ conn' = [conn EXCEPT ![c] = FALSE]
  /\ UNCHANGED <<broadcast, msg, todo, send, writer, accepted, joined, received>>

\* The read pump's deferred unregister, and its close of the connection.
Unregister(c) ==
  /\ msg = NoMessage
  /\ reader[c] = "leaving"
  /\ IF c \in clients THEN clients' = clients \ {c} /\ Close(c)
     ELSE UNCHANGED <<clients, closed, panicked>>
  /\ reader' = [reader EXCEPT ![c] = "done"]
  /\ conn' = [conn EXCEPT ![c] = FALSE]
  /\ UNCHANGED <<broadcast, msg, todo, send, writer, accepted, joined, received>>

TakeMessage ==
  /\ msg = NoMessage
  /\ broadcast # <<>>
  /\ msg' = Head(broadcast)
  /\ broadcast' = Tail(broadcast)
  /\ todo' = clients
  /\ UNCHANGED <<clients, send, closed, conn, reader, writer, panicked, accepted, joined, received>>

\* The non-blocking send to the next client of the loop.
Deliver(c) ==
  /\ msg # NoMessage
  /\ c \in todo
  /\ Len(send[c]) < SendBuffer
  /\ send' = [send EXCEPT ![c] = Append(@, msg)]
  /\ panicked' = (panicked \/ closed[c])
  /\ todo' = todo \ {c}
  /\ UNCHANGED <<clients, broadcast, msg, closed, conn, reader, writer, accepted, joined, received>>

\* Mutant: a full buffer skips the message, the client stays connected.
MutDrop(c) ==
  /\ msg # NoMessage
  /\ c \in todo
  /\ Len(send[c]) >= SendBuffer
  /\ todo' = todo \ {c}
  /\ UNCHANGED <<clients, broadcast, msg, send, closed, conn, reader, writer, panicked, accepted, joined, received>>

\* Mutant: the slow client is taken out of the map, its channel stays open.
MutDropOpen(c) ==
  /\ msg # NoMessage
  /\ c \in todo
  /\ Len(send[c]) >= SendBuffer
  /\ clients' = clients \ {c}
  /\ todo' = todo \ {c}
  /\ UNCHANGED <<broadcast, msg, send, closed, conn, reader, writer, panicked, accepted, joined, received>>

\* Its default branch: the buffer is full, the client is dropped.
Drop(c) ==
  /\ msg # NoMessage
  /\ c \in todo
  /\ Len(send[c]) >= SendBuffer
  /\ clients' = clients \ {c}
  /\ Close(c)
  /\ todo' = todo \ {c}
  /\ UNCHANGED <<broadcast, msg, send, conn, reader, writer, accepted, joined, received>>

EndFanOut ==
  /\ msg # NoMessage
  /\ todo = {}
  /\ msg' = NoMessage
  /\ UNCHANGED <<clients, broadcast, todo, send, closed, conn, reader, writer, panicked, accepted, joined, received>>

FanOut == EndFanOut \/ \E c \in Clients : Deliver(c) \/ Drop(c)

-----------------------------------------------------------------------------
Next ==
  \/ Broadcast \/ TakeMessage \/ FanOut
  \/ \E c \in Clients :
       \/ ServeWS(c) \/ StartPumps(c) \/ Register(c) \/ Unregister(c)
       \/ ReadFails(c) \/ Write(c) \/ SeesClosed(c) \/ PingFails(c)

\* Goroutines run.  The select picks at random among its ready cases, so none
\* that is ready again and again is passed over for ever.  A read of a closed
\* connection returns; a write ends within writeWait.  Peers need not do
\* anything.
Fairness ==
  /\ WF_vars(TakeMessage) /\ WF_vars(FanOut)
  /\ \A c \in Clients :
       /\ SF_vars(Register(c)) /\ SF_vars(Unregister(c))
       /\ WF_vars(StartPumps(c))
       /\ WF_vars(Write(c) \/ SeesClosed(c))
       /\ WF_vars(~ conn[c] /\ ReadFails(c))

Spec == Init /\ [][Next]_vars

FairSpec == Spec /\ Fairness
-----------------------------------------------------------------------------
(* Properties *)

Readers == {"none", "registering", "registered", "reading", "leaving", "done"}

\* Type invariant: no channel holds more than its capacity.
HubTypeOK ==
  /\ clients \subseteq Clients /\ todo \subseteq Clients
  /\ broadcast \in Seq(Nat) /\ Len(broadcast) <= BroadcastBuffer
  /\ msg \in Nat \cup {NoMessage}
  /\ send \in [Clients -> Seq(Nat)] /\ \A c \in Clients : Len(send[c]) <= SendBuffer
  /\ closed \in [Clients -> BOOLEAN] /\ conn \in [Clients -> BOOLEAN]
  /\ reader \in [Clients -> Readers]
  /\ writer \in [Clients -> {"none", "running", "done"}]
  /\ panicked \in BOOLEAN
  /\ accepted \in Nat
  /\ joined \in [Clients -> Nat] /\ received \in [Clients -> Seq(Nat)]

\* The hub never sends on a closed channel and never closes one twice, although
\* a client may be dropped by a fan-out before, while or after its own read
\* pump unregisters it (hub.go: "makes the concurrency trivially correct").
NoPanic == ~ panicked

\* A run of consecutive message numbers that follow n.
Follows(s, n) == \A i \in DOMAIN s : s[i] = n + i

\* A client is never shown a feed with a hole in it: what is written to its
\* connection is a run of consecutive accepted messages from the first one
\* fanned out after it registered.  A client too slow for the feed is
\* disconnected, never skipped (hub.go, "we drop and disconnect that client").
NoGaps == \A c \in Clients : Follows(received[c], joined[c])

Live(c) == c \in clients /\ writer[c] = "running"

\* Every message accepted while a client is connected reaches the client, or
\* the client is disconnected.
Delivered ==
  \A c \in Clients, n \in 1..MaxMessages :
    Live(c) /\ joined[c] < n /\ n <= accepted
      ~> Len(received[c]) >= n - joined[c] \/ ~ conn[c]

\* Nothing is leaked: when the hub dropped a client, or its connection is closed
\* on our side, both pumps end and the hub forgets it, whichever of the hub, the
\* read pump and the write pump saw the failure first.
DisconnectedIsCleanedUp ==
  \A c \in Clients :
    reader[c] # "none" /\ (closed[c] \/ ~ conn[c])
      ~> reader[c] = "done" /\ writer[c] = "done" /\ c \notin clients
=============================================================================
