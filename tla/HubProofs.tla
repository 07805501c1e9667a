------------------------------ MODULE HubProofs ------------------------------
(***************************************************************************)
(* The hub never panics and never shows a client a feed with a hole in it,  *)
(* for any number of clients, any buffer sizes and any number of messages.  *)
(***************************************************************************)
EXTENDS Hub, TLAPS

\* Who is in the map: clients that registered and have not left, their channels
\* open; a fan-out only looks at clients of the map.
Ownership ==
  /\ \A c \in clients : ~ closed[c] /\ reader[c] \in {"registered", "reading", "leaving"}
  /\ \A c \in Clients : reader[c] = "registering" =>
       ~ closed[c] /\ send[c] = <<>> /\ received[c] = <<>>
  /\ \A c \in Clients : reader[c] \in {"registering", "registered"} => writer[c] = "none"
  /\ todo \subseteq clients
  /\ msg = NoMessage => todo = {}

\* Where the messages are: numbered in the order of the broadcast channel, the
\* last one taken being fanned out.
Numbered ==
  /\ Len(broadcast) <= accepted
  /\ Follows(broadcast, Taken)
  /\ msg # NoMessage => msg = Taken

\* The next message of a client: after what it received and has queued.
Expected(c) == joined[c] + Len(received[c]) + Len(send[c])

\* A client's queue goes on where its connection is, and a client of the map has
\* everything the hub took since it joined, but for the message being fanned out.
Contiguous ==
  /\ \A c \in Clients : writer[c] # "done" => Follows(send[c], joined[c] + Len(received[c]))
  /\ \A c \in clients : writer[c] # "done" =>
       Expected(c) = IF c \in todo THEN Taken - 1 ELSE Taken

HubInv == HubTypeOK /\ NoPanic /\ Ownership /\ Numbered /\ Contiguous /\ NoGaps

-----------------------------------------------------------------------------
\* A run of consecutive numbers extended by the next one.
LEMMA FollowsAppend ==
  ASSUME NEW s \in Seq(Nat), NEW n \in Nat, Follows(s, n), NEW m \in Nat, m = n + Len(s) + 1
  PROVE  Follows(Append(s, m), n)
  BY DEF Follows

\* A run of consecutive numbers without its first.
LEMMA FollowsTail ==
  ASSUME NEW s \in Seq(Nat), NEW n \in Nat, Follows(s, n), s # <<>>
  PROVE  /\ Head(s) = n + 1 /\ Head(s) \in Nat
         /\ Tail(s) \in Seq(Nat) /\ Len(Tail(s)) = Len(s) - 1
         /\ Follows(Tail(s), n + 1)
<1>1. Len(s) \in Nat \ {0} /\ s[1] = n + 1 /\ Head(s) = s[1]
  BY DEF Follows
<1>2. Tail(s) \in Seq(Nat) /\ Len(Tail(s)) = Len(s) - 1
  OBVIOUS
<1>3. ASSUME NEW i \in DOMAIN Tail(s) PROVE Tail(s)[i] = (n + 1) + i
  <2>1. i \in Nat \ {0} /\ i + 1 \in DOMAIN s /\ Tail(s)[i] = s[i + 1]
    BY <1>1, <1>2
  <2> QED
    BY <2>1 DEF Follows
<1> QED
  BY <1>1, <1>2, <1>3 DEF Follows

\* An empty run follows anything.
LEMMA FollowsEmpty == ASSUME NEW n PROVE Follows(<<>>, n)
  BY DEF Follows

\* NewHub establishes the invariant.
LEMMA HubInit == Init => HubInv
<1> SUFFICES ASSUME Init PROVE HubInv
  OBVIOUS
<1> USE DEF Init
<1>1. HubTypeOK
  <2>1. send \in [Clients -> Seq(Nat)] /\ \A c \in Clients : Len(send[c]) <= SendBuffer
    BY HubAssumption
  <2>2. broadcast \in Seq(Nat) /\ Len(broadcast) <= BroadcastBuffer
    BY HubAssumption
  <2>3. received \in [Clients -> Seq(Nat)] /\ joined \in [Clients -> Nat]
    OBVIOUS
  <2> QED
    BY <2>1, <2>2, <2>3 DEF HubTypeOK, Readers
<1>2. Ownership
  BY DEF Ownership
<1>3. Numbered
  BY FollowsEmpty DEF Numbered, Taken
<1>4. Contiguous /\ NoGaps
  BY FollowsEmpty DEF Contiguous, NoGaps
<1>5. NoPanic
  BY DEF NoPanic
<1> QED
  BY <1>1, <1>2, <1>3, <1>4, <1>5 DEF HubInv
\* Broadcast puts the next number at the end of the channel, or nothing.
LEMMA BroadcastKeeps ==
  ASSUME HubInv, Broadcast
  PROVE  HubInv'
<1> USE HubAssumption DEF HubInv, Broadcast
<1>a. Taken \in Nat /\ Taken' = Taken /\ accepted = Taken + Len(broadcast)
  BY DEF Taken, HubTypeOK, Numbered
<1>1. HubTypeOK'
  <2>1. CASE Len(broadcast) < BroadcastBuffer
    <3>1. broadcast' = Append(broadcast, accepted + 1) /\ accepted' = accepted + 1
      BY <2>1
    <3>2. broadcast \in Seq(Nat) /\ accepted + 1 \in Nat
      BY DEF HubTypeOK
    <3>3. broadcast' \in Seq(Nat) /\ Len(broadcast') = Len(broadcast) + 1
      BY <3>1, <3>2
    <3>4. Len(broadcast') <= BroadcastBuffer
      BY <2>1, <3>2, <3>3
    <3> QED
      BY <3>1, <3>2, <3>3, <3>4 DEF HubTypeOK
  <2>2. CASE ~ (Len(broadcast) < BroadcastBuffer)
    BY <2>2 DEF HubTypeOK
  <2> QED
    BY <2>1, <2>2
<1>2. NoPanic'
  BY DEF NoPanic, Ownership, HubTypeOK
<1>3. Ownership'
  BY DEF Ownership, HubTypeOK, Readers
<1>4. Numbered'
  <2>1. CASE Len(broadcast) < BroadcastBuffer
    <3>1. broadcast' = Append(broadcast, accepted + 1) /\ accepted' = accepted + 1
      BY <2>1
    <3>2. broadcast \in Seq(Nat) /\ accepted + 1 \in Nat /\ accepted + 1 = Taken + Len(broadcast) + 1
      BY <1>a DEF HubTypeOK
    <3>3. Follows(broadcast', Taken)
      BY <1>a, <3>1, <3>2, FollowsAppend DEF Numbered
    <3>4. Len(broadcast') = Len(broadcast) + 1
      BY <3>1, <3>2
    <3>5. Len(broadcast') <= accepted'
      BY <3>1, <3>2, <3>4 DEF HubTypeOK, Numbered
    <3> QED
      BY <1>a, <3>3, <3>5 DEF Numbered
  <2>2. CASE ~ (Len(broadcast) < BroadcastBuffer)
    BY <1>a, <2>2 DEF Numbered
  <2> QED
    BY <2>1, <2>2
<1>5. Contiguous'
  BY <1>a DEF Contiguous, Expected
<1>6. NoGaps'
  BY DEF NoGaps, HubTypeOK
<1> QED
  BY <1>1, <1>2, <1>3, <1>4, <1>5, <1>6

\* The hub takes the next number and now owes it to every client of the map.
LEMMA TakeKeeps ==
  ASSUME HubInv, TakeMessage
  PROVE  HubInv'
<1> USE HubAssumption DEF HubInv, TakeMessage
<1>1. HubTypeOK'
  BY DEF HubTypeOK, Readers
<1>2. NoPanic'
  BY DEF NoPanic, Ownership, HubTypeOK
<1>3. Ownership'
  BY DEF Ownership, HubTypeOK, Readers
<1>4. Numbered'
  <2>1. Taken \in Nat
    BY DEF Numbered, Taken, HubTypeOK
  <2>2. /\ Head(broadcast) = Taken + 1 /\ broadcast' \in Seq(Nat)
        /\ Len(broadcast') = Len(broadcast) - 1 /\ Follows(broadcast', Taken + 1)
    BY <2>1, FollowsTail DEF Numbered, HubTypeOK
  <2>3. Taken' = Taken + 1
    BY <2>2 DEF Taken, HubTypeOK
  <2> QED
    BY <2>1, <2>2, <2>3 DEF Numbered, HubTypeOK
<1>5. Contiguous'
  BY DEF Contiguous, Expected, Taken, HubTypeOK, Ownership
<1>6. NoGaps'
  BY DEF NoGaps, HubTypeOK
<1> QED
  BY <1>1, <1>2, <1>3, <1>4, <1>5, <1>6

\* The end of a fan-out.
LEMMA EndKeeps ==
  ASSUME HubInv, EndFanOut
  PROVE  HubInv'
<1> USE HubAssumption DEF HubInv, EndFanOut
<1>1. HubTypeOK'
  BY DEF HubTypeOK, Readers
<1>2. NoPanic'
  BY DEF NoPanic, Ownership, HubTypeOK
<1>3. Ownership'
  BY DEF Ownership, HubTypeOK, Readers
<1>4. Numbered'
  BY DEF Numbered, Taken, HubTypeOK
<1>5. Contiguous'
  BY DEF Contiguous, Expected, Taken, HubTypeOK, Ownership
<1>6. NoGaps'
  BY DEF NoGaps, HubTypeOK
<1> QED
  BY <1>1, <1>2, <1>3, <1>4, <1>5, <1>6

\* The client's channel is open, and the message is the one it expects.
LEMMA DeliverKeeps ==
  ASSUME HubInv, NEW c \in Clients, Deliver(c)
  PROVE  HubInv'
<1> USE HubAssumption DEF HubInv, Deliver
<1>1. HubTypeOK'
  BY DEF HubTypeOK, Readers
<1>2. NoPanic'
  BY DEF NoPanic, Ownership, HubTypeOK
<1>3. Ownership'
  BY DEF Ownership, HubTypeOK, Readers
<1>4. Numbered'
  BY DEF Numbered, Taken, HubTypeOK
<1>5. Contiguous'
  <2>1. Taken' = Taken /\ Taken \in Nat /\ msg = Taken /\ msg \in Nat
    BY DEF Taken, Numbered, HubTypeOK
  <2>2. \A d \in Clients \ {c} : send'[d] = send[d]
    BY DEF HubTypeOK
  <2>3. ASSUME writer[c] # "done"
        PROVE  /\ Follows(send'[c], joined[c] + Len(received[c]))
               /\ joined[c] + Len(received[c]) + Len(send'[c]) = Taken
    <3>1. c \in clients /\ Expected(c) = Taken - 1 /\ joined[c] + Len(received[c]) \in Nat
      BY <2>3 DEF Contiguous, Ownership, HubTypeOK
    <3>2. msg = (joined[c] + Len(received[c])) + Len(send[c]) + 1
      BY <2>1, <3>1 DEF Expected, HubTypeOK
    <3>3. send'[c] = Append(send[c], msg) /\ send[c] \in Seq(Nat)
      BY DEF HubTypeOK
    <3>4. Len(send'[c]) = Len(send[c]) + 1
      BY <2>1, <3>3
    <3> QED
      BY <2>1, <2>3, <3>1, <3>2, <3>3, <3>4, FollowsAppend DEF Contiguous, HubTypeOK
  <2>4. ASSUME NEW d \in Clients, writer[d] # "done"
        PROVE  Follows(send'[d], joined[d] + Len(received[d]))
    BY <2>2, <2>3, <2>4 DEF Contiguous
  <2>5. ASSUME NEW d \in clients, writer[d] # "done"
        PROVE  Expected(d)' = IF d \in todo' THEN Taken - 1 ELSE Taken
    BY <2>2, <2>3, <2>5 DEF Contiguous, Expected, HubTypeOK
  <2> QED
    BY <2>1, <2>4, <2>5 DEF Contiguous
<1>6. NoGaps'
  BY DEF NoGaps, HubTypeOK
<1> QED
  BY <1>1, <1>2, <1>3, <1>4, <1>5, <1>6

\* The dropped client's channel was open, and it leaves the map with its closing.
LEMMA DropKeeps ==
  ASSUME HubInv, NEW c \in Clients, Drop(c)
  PROVE  HubInv'
<1> USE HubAssumption DEF HubInv, Drop, Close
<1>1. HubTypeOK'
  BY DEF HubTypeOK, Readers
<1>2. NoPanic'
  BY DEF NoPanic, Ownership, HubTypeOK
<1>3. Ownership'
  BY DEF Ownership, HubTypeOK, Readers
<1>4. Numbered'
  BY DEF Numbered, Taken, HubTypeOK
<1>5. Contiguous'
  BY DEF Contiguous, Expected, Taken, HubTypeOK, Ownership
<1>6. NoGaps'
  BY DEF NoGaps, HubTypeOK
<1> QED
  BY <1>1, <1>2, <1>3, <1>4, <1>5, <1>6

\* A slot is reused only by a client that is out of the map.
LEMMA ServeKeeps ==
  ASSUME HubInv, NEW c \in Clients, ServeWS(c)
  PROVE  HubInv'
<1> USE HubAssumption DEF HubInv, ServeWS, hubState
<1>1. HubTypeOK'
  BY DEF HubTypeOK, Readers
<1>2. NoPanic'
  BY DEF NoPanic, Ownership, HubTypeOK
<1>3. Ownership'
  BY DEF Ownership, HubTypeOK, Readers
<1>4. Numbered'
  BY DEF Numbered, Taken, HubTypeOK
<1>5. Contiguous'
  <2>1. c \notin clients /\ Taken' = Taken
    BY DEF Ownership, Taken
  <2>2. \A d \in Clients \ {c} : send'[d] = send[d] /\ received'[d] = received[d] /\ writer'[d] = writer[d]
    BY DEF HubTypeOK
  <2>3. send'[c] = <<>>
    BY DEF HubTypeOK
  <2> QED
    BY <2>1, <2>2, <2>3, FollowsEmpty DEF Contiguous, Expected, HubTypeOK
<1>6. NoGaps'
  <2>1. \A d \in Clients \ {c} : received'[d] = received[d]
    BY DEF HubTypeOK
  <2>2. received'[c] = <<>>
    BY DEF HubTypeOK
  <2> QED
    BY <2>1, <2>2, FollowsEmpty DEF NoGaps
<1> QED
  BY <1>1, <1>2, <1>3, <1>4, <1>5, <1>6

\* Starting the pumps.
LEMMA StartKeeps ==
  ASSUME HubInv, NEW c \in Clients, StartPumps(c)
  PROVE  HubInv'
<1> USE HubAssumption DEF HubInv, StartPumps, hubState
<1>1. HubTypeOK'
  BY DEF HubTypeOK, Readers
<1>2. NoPanic'
  BY DEF NoPanic, Ownership, HubTypeOK
<1>3. Ownership'
  BY DEF Ownership, HubTypeOK, Readers
<1>4. Numbered'
  BY DEF Numbered, Taken, HubTypeOK
<1>5. Contiguous'
  <2>1. writer[c] # "done"
    BY DEF Ownership
  <2> QED
    BY <2>1 DEF Contiguous, Expected, Taken, HubTypeOK
<1>6. NoGaps'
  BY DEF NoGaps, HubTypeOK
<1> QED
  BY <1>1, <1>2, <1>3, <1>4, <1>5, <1>6

\* A client registers with an empty, open channel.
LEMMA RegisterKeeps ==
  ASSUME HubInv, NEW c \in Clients, Register(c)
  PROVE  HubInv'
<1> USE HubAssumption DEF HubInv, Register
<1>a. Taken \in Nat /\ Taken' = Taken
  BY DEF Taken, Numbered, HubTypeOK
<1>b. joined'[c] = Taken /\ \A d \in Clients \ {c} : joined'[d] = joined[d]
  BY DEF HubTypeOK
<1>c. send[c] = <<>> /\ received[c] = <<>>
  BY DEF Ownership
<1>1. HubTypeOK'
  BY <1>a DEF HubTypeOK, Readers
<1>2. NoPanic'
  BY DEF NoPanic, Ownership, HubTypeOK
<1>3. Ownership'
  BY DEF Ownership, HubTypeOK, Readers
<1>4. Numbered'
  BY DEF Numbered, Taken, HubTypeOK
<1>5. Contiguous'
  <2>1. ASSUME NEW d \in Clients, writer[d] # "done"
        PROVE  Follows(send[d], joined'[d] + Len(received[d]))
    BY <1>b, <1>c, <2>1, FollowsEmpty DEF Contiguous
  <2>2. Expected(c)' = Taken /\ c \notin todo
    BY <1>a, <1>b, <1>c DEF Expected, Ownership
  <2>3. ASSUME NEW d \in clients \ {c}, writer[d] # "done"
        PROVE  Expected(d)' = IF d \in todo THEN Taken - 1 ELSE Taken
    BY <1>b, <2>3 DEF Contiguous, Expected, HubTypeOK
  <2> QED
    BY <1>a, <2>1, <2>2, <2>3 DEF Contiguous
<1>6. NoGaps'
  BY <1>b, <1>c, FollowsEmpty DEF NoGaps
<1> QED
  BY <1>1, <1>2, <1>3, <1>4, <1>5, <1>6

\* The map tells whether the channel is still to be closed.
LEMMA UnregisterKeeps ==
  ASSUME HubInv, NEW c \in Clients, Unregister(c)
  PROVE  HubInv'
<1> USE HubAssumption DEF HubInv, Unregister, Close
<1>1. HubTypeOK'
  BY DEF HubTypeOK, Readers
<1>2. NoPanic'
  BY DEF NoPanic, Ownership, HubTypeOK
<1>3. Ownership'
  BY DEF Ownership, HubTypeOK, Readers
<1>4. Numbered'
  BY DEF Numbered, Taken, HubTypeOK
<1>5. Contiguous'
  BY DEF Contiguous, Expected, Taken, HubTypeOK, Ownership
<1>6. NoGaps'
  BY DEF NoGaps, HubTypeOK
<1> QED
  BY <1>1, <1>2, <1>3, <1>4, <1>5, <1>6

\* The read pump starts to leave.
LEMMA ReadFailsKeeps ==
  ASSUME HubInv, NEW c \in Clients, ReadFails(c)
  PROVE  HubInv'
<1> USE HubAssumption DEF HubInv, ReadFails, hubState
<1>1. HubTypeOK'
  BY DEF HubTypeOK, Readers
<1>2. NoPanic'
  BY DEF NoPanic, Ownership, HubTypeOK
<1>3. Ownership'
  BY DEF Ownership, HubTypeOK, Readers
<1>4. Numbered'
  BY DEF Numbered, Taken, HubTypeOK
<1>5. Contiguous'
  BY DEF Contiguous, Expected, Taken, HubTypeOK, Ownership
<1>6. NoGaps'
  BY DEF NoGaps, HubTypeOK
<1> QED
  BY <1>1, <1>2, <1>3, <1>4, <1>5, <1>6

\* The write pump moves the head of the queue to the connection, or ends.
LEMMA WriteKeeps ==
  ASSUME HubInv, NEW c \in Clients, Write(c)
  PROVE  HubInv'
<1> USE HubAssumption DEF HubInv, Write, hubState
<1>a. /\ Follows(send[c], joined[c] + Len(received[c])) /\ joined[c] + Len(received[c]) \in Nat
      /\ joined[c] \in Nat /\ Len(received[c]) \in Nat
      /\ send[c] \in Seq(Nat) /\ received[c] \in Seq(Nat) /\ Len(send[c]) <= SendBuffer
  BY DEF Contiguous, HubTypeOK
<1>b. /\ Head(send[c]) = joined[c] + Len(received[c]) + 1 /\ Head(send[c]) \in Nat
      /\ Tail(send[c]) \in Seq(Nat) /\ Len(Tail(send[c])) = Len(send[c]) - 1
      /\ Follows(Tail(send[c]), joined[c] + Len(received[c]) + 1)
  BY <1>a, FollowsTail
<1>c. /\ send'[c] = Tail(send[c])
      /\ \A d \in Clients \ {c} : /\ send'[d] = send[d] /\ received'[d] = received[d]
                                  /\ writer'[d] = writer[d]
  BY DEF HubTypeOK
<1>d. \/ received' = received /\ writer'[c] = "done"
      \/ /\ received'[c] = Append(received[c], Head(send[c]))
         /\ received'[c] \in Seq(Nat) /\ Len(received'[c]) = Len(received[c]) + 1
         /\ Follows(received'[c], joined[c])
         /\ writer' = writer
  <2>1. Follows(received[c], joined[c])
    BY DEF NoGaps
  <2>2. /\ Follows(Append(received[c], Head(send[c])), joined[c])
        /\ Append(received[c], Head(send[c])) \in Seq(Nat)
        /\ Len(Append(received[c], Head(send[c]))) = Len(received[c]) + 1
    BY <1>a, <1>b, <2>1, FollowsAppend
  <2> QED
    BY <2>2 DEF HubTypeOK
<1>1. HubTypeOK'
  <2>1. send' \in [Clients -> Seq(Nat)] /\ \A d \in Clients : Len(send'[d]) <= SendBuffer
    BY <1>a, <1>b, <1>c DEF HubTypeOK
  <2>2. received' \in [Clients -> Seq(Nat)]
    BY <1>a, <1>b, <1>d DEF HubTypeOK
  <2>3. /\ writer' \in [Clients -> {"none", "running", "done"}]
        /\ conn' \in [Clients -> BOOLEAN]
    BY DEF HubTypeOK
  <2> QED
    BY <2>1, <2>2, <2>3 DEF HubTypeOK
<1>2. NoPanic'
  BY DEF NoPanic, Ownership, HubTypeOK
<1>3. Ownership'
  BY DEF Ownership, HubTypeOK, Readers
<1>4. Numbered'
  BY DEF Numbered, Taken, HubTypeOK
<1>5. Contiguous'
  <2>1. ASSUME writer'[c] # "done"
        PROVE  /\ Follows(send'[c], joined[c] + Len(received'[c]))
               /\ joined[c] + Len(received'[c]) + Len(send'[c]) = Expected(c)
               /\ writer[c] # "done"
    <3>1. Len(received'[c]) = Len(received[c]) + 1 /\ writer[c] # "done"
      BY <1>d, <2>1
    <3>2. joined[c] + Len(received'[c]) = joined[c] + Len(received[c]) + 1
      BY <1>a, <3>1
    <3> HIDE DEF HubInv, Write
    <3>3. Len(send[c]) \in Nat /\ Len(send'[c]) = Len(send[c]) - 1
      <4>1. Len(send[c]) \in Nat
        BY <1>a
      <4> QED
        BY <4>1, <1>b, <1>c, Zenon
    <3>4. joined[c] + Len(received'[c]) + Len(send'[c]) = Expected(c)
      <4>1. /\ send \in [Clients -> Seq(Nat)] /\ send' \in [Clients -> Seq(Nat)]
            /\ received \in [Clients -> Seq(Nat)] /\ received' \in [Clients -> Seq(Nat)]
            /\ joined \in [Clients -> Nat]
        BY <1>1 DEF HubInv, HubTypeOK
      <4> QED
        BY <4>1, <3>1, <3>3 DEF Expected
    <3>5. Follows(send'[c], joined[c] + Len(received'[c]))
      BY <1>b, <1>c, <3>2
    <3> QED
      BY <3>1, <3>4, <3>5
  <2>2. ASSUME NEW d \in Clients, writer'[d] # "done"
        PROVE  Follows(send'[d], joined[d] + Len(received'[d]))
    BY <1>c, <2>1, <2>2 DEF Contiguous
  <2>3. ASSUME NEW d \in clients, writer'[d] # "done"
        PROVE  Expected(d)' = Expected(d) /\ writer[d] # "done"
    BY <1>c, <2>1, <2>3 DEF Expected, HubTypeOK
  <2>4. Taken' = Taken
    BY DEF Taken
  <2> QED
    BY <2>2, <2>3, <2>4 DEF Contiguous
<1>6. NoGaps'
  BY <1>c, <1>d DEF NoGaps
<1> QED
  BY <1>1, <1>2, <1>3, <1>4, <1>5, <1>6

\* The write pump ends.
LEMMA WriteEndsKeeps ==
  ASSUME HubInv, NEW c \in Clients, WriteEnds(c)
  PROVE  HubInv'
<1> USE HubAssumption DEF HubInv, WriteEnds, hubState
<1>1. HubTypeOK'
  BY DEF HubTypeOK, Readers
<1>2. NoPanic'
  BY DEF NoPanic, Ownership, HubTypeOK
<1>3. Ownership'
  BY DEF Ownership, HubTypeOK, Readers
<1>4. Numbered'
  BY DEF Numbered, Taken, HubTypeOK
<1>5. Contiguous'
  BY DEF Contiguous, Expected, Taken, HubTypeOK, Ownership
<1>6. NoGaps'
  BY DEF NoGaps, HubTypeOK
<1> QED
  BY <1>1, <1>2, <1>3, <1>4, <1>5, <1>6

\* Every step of the hub, its producers and its clients keeps the invariant.
LEMMA HubNext == HubInv /\ [Next]_vars => HubInv'
<1> SUFFICES ASSUME HubInv, [Next]_vars PROVE HubInv'
  OBVIOUS
<1>1. CASE Broadcast
  BY <1>1, BroadcastKeeps
<1>2. CASE TakeMessage
  BY <1>2, TakeKeeps
<1>3. CASE FanOut
  BY <1>3, EndKeeps, DeliverKeeps, DropKeeps DEF FanOut
<1>4. ASSUME NEW c \in Clients,
             ServeWS(c) \/ StartPumps(c) \/ Register(c) \/ Unregister(c)
               \/ ReadFails(c) \/ Write(c) \/ SeesClosed(c) \/ PingFails(c)
      PROVE  HubInv'
  BY <1>4, ServeKeeps, StartKeeps, RegisterKeeps, UnregisterKeeps, ReadFailsKeeps, WriteKeeps,
     WriteEndsKeeps DEF SeesClosed, PingFails
<1>5. CASE UNCHANGED vars
  BY <1>5 DEF vars, HubInv, HubTypeOK, NoPanic, Ownership, Numbered, Contiguous, NoGaps, Taken,
              Expected, Follows
<1> QED
  BY <1>1, <1>2, <1>3, <1>4, <1>5 DEF Next

\* The invariant holds throughout.
LEMMA HubInvariance == Spec => []HubInv
  BY HubInit, HubNext, PTL DEF Spec

\* The hub never sends on a closed channel and never closes one twice (hub.go:82,
\* 90, 95), whatever the order in which fan-out, read pump and write pump find
\* out that a client is gone.
THEOREM HubNeverPanics == Spec => []NoPanic
<1>1. HubInv => NoPanic
  BY DEF HubInv
<1> QED
  BY <1>1, HubInvariance, PTL

\* No client is ever shown a feed with a hole in it (hub.go:88-97).
THEOREM FeedsHaveNoGaps == Spec => []NoGaps
<1>1. HubInv => NoGaps
  BY DEF HubInv
<1> QED
  BY <1>1, HubInvariance, PTL

\* The broadcast channel and every client's send channel stay within their
\* capacities (hub.go:67, 130), and what the hub and its pumps hold has its type,
\* for any number of clients and messages.
THEOREM HubTyped == Spec => []HubTypeOK
<1>1. HubInv => HubTypeOK
  BY DEF HubInv
<1> QED
  BY <1>1, HubInvariance, PTL
=============================================================================
