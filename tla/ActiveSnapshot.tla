--------------------------- MODULE ActiveSnapshot ---------------------------
(***************************************************************************)
(* ChandyLamport below active clients, as MultiTokenRotation is              *)
(* (experimental/snapshot/ChandyLamportMain.scala): what the protocol          *)
(* delivers is appended to the queue of the client, whose thread takes it      *)
(* when it receives, and may send before that.                               *)
(***************************************************************************)
EXTENDS ChandyLamport

VARIABLES
  queue,      \* per process, the events delivered to the client and not received
  received,   \* per process, the messages that the client has received
  saved,      \* per process, what the client has done when it saves its state
  returned    \* the processes whose client has returned

clientVars == <<queue, received, saved, returned>>
activeVars == <<vars, clientVars>>

SaveState    == [type |-> "SaveState"]
SnapshotDone == [type |-> "SnapshotDone"]

\* The message that p has sent as the k-th of the channel.
Token(p, k)  == [type |-> "Token", from |-> p, token |-> k]

ActiveInit ==
  /\ Init
  /\ queue = [p \in Process |-> <<>>]
  /\ received = [p \in Process |-> {}]
  /\ saved = [p \in Process |-> <<>>]
  /\ returned = {}

deliver(p, es) == queue' = [queue EXCEPT ![p] = @ \o es]

\* What the protocol delivers when it receives the next message of l.
Delivers(l) ==
  LET k == Len(delivered[l]) + 1 IN
  IF sent[l][k].type = "Payload" THEN <<Token(l[1], k)>>
  ELSE (IF color[l[2]] = "White" THEN <<SaveState>> ELSE <<>>)
         \o (IF snapshotCount[l[2]] = 1 THEN <<SnapshotDone>> ELSE <<>>)

\* The timer task that initiates the snapshot; it is not cancelled when the client returns.
ActiveInitiate(p) ==
  /\ Initiate(p)
  /\ deliver(p, <<SaveState>>)
  /\ UNCHANGED <<received, saved, returned>>

ActiveSend(p, q) ==
  /\ p \notin returned
  /\ SendMessage(p, q)
  /\ UNCHANGED clientVars

ActiveInternal(p) ==
  /\ p \notin returned
  /\ Internal(p)
  /\ UNCHANGED clientVars

ActiveReceive(l) ==
  /\ Receive(l)
  /\ deliver(l[2], Delivers(l))
  /\ UNCHANGED <<received, saved, returned>>

\* Mutant of NextEvent: messages come before signals.
MessagesFirst(p) ==
  LET IsToken(e) == e.type = "Token"
      k == IF SelectInSeq(queue[p], IsToken) = 0 THEN 1 ELSE SelectInSeq(queue[p], IsToken)
  IN <<queue[p][k], RemoveAt(queue[p], k)>>

\* The event that the client of p receives, and the rest of its queue.
NextEvent(p) == <<Head(queue[p]), Tail(queue[p])>>

\* The messages that p has sent to each neighbor, by their places in the channel.
Sent(p) == [q \in neighbors(p) |->
              {k \in DOMAIN sent[<<p, q>>] : sent[<<p, q>>][k].type = "Payload"}]

\* The loop of the client.
ClientReceives(p) ==
  LET e == NextEvent(p)[1] IN
  /\ p \notin returned
  /\ queue[p] # <<>>
  /\ queue' = [queue EXCEPT ![p] = NextEvent(p)[2]]
  /\ \/ /\ e.type = "Token"
        /\ received' = [received EXCEPT ![p] = @ \cup {e}]
        /\ UNCHANGED <<saved, returned>>
     \/ /\ e.type = "SaveState"
        /\ saved' = [saved EXCEPT ![p] = <<[put |-> Sent(p), got |-> received[p]]>>]
        /\ UNCHANGED <<received, returned>>
     \/ /\ e.type = "SnapshotDone"
        /\ returned' = returned \cup {p}
        /\ UNCHANGED <<received, saved>>
  /\ UNCHANGED vars

ActiveNext ==
  \/ \E p \in Process : ActiveInitiate(p) \/ ActiveInternal(p) \/ ClientReceives(p)
  \/ \E l \in Link : ActiveSend(l[1], l[2]) \/ ActiveReceive(l)

ActiveSpec == ActiveInit /\ [][ActiveNext]_activeVars

-----------------------------------------------------------------------------
\* The states that the clients save form a consistent cut too, although each client saves
\* its own some time after SaveState was delivered: no saved state holds a message that its
\* sender has not sent in the state that it saves.
NoOrphans ==
  \A p \in Process : \A q \in neighbors(p) : saved[p] # <<>> /\ saved[q] # <<>> =>
    \A m \in saved[p][1].got : m.from = q => m.token \in saved[q][1].put[p]
=============================================================================
