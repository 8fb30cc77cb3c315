--------------------------- MODULE ChandyLamport ---------------------------
(***************************************************************************)
(* The protocol ChandyLamport                                              *)
(* (experimental/snapshot/ChandyLamportMain.scala), one instance per process, *)
(* above the logical clocks and above FIFO channels (FIFOQueues, which        *)
(* FIFOChannel implements).  The applications send what they like to their     *)
(* neighbors (what is for others the network drops, and messages to oneself    *)
(* are left out), and any of them may initiate the snapshot at any time, as in *)
(* the program.                                                            *)
(***************************************************************************)
EXTENDS LogicalClocks, Sequences, SequencesExt

CONSTANTS
  Neighbors,    \* the topology of the network, an undirected graph
  MaxEvents     \* bound: messages sent and internal events of the applications

ASSUME SnapshotAssumption ==
  /\ IsFiniteSet(Process)
  /\ Neighbors \in [Process -> SUBSET Process]
  /\ \A p \in Process : p \notin Neighbors[p]
  /\ \A p, q \in Process : q \in Neighbors[p] => p \in Neighbors[q]
  /\ MaxEvents \in Nat

\* system.network.topology.neighborsFor(me).
neighbors(p) == Neighbors[p]

Link == {l \in Process \X Process : l[2] \in neighbors(l[1])}

VARIABLES
  color, record, snapshotCount,
  sent, delivered,    \* the FIFO channels
  cut,                \* auxiliary: the state of each process when SaveState was delivered
  done,               \* auxiliary: what came with each SnapshotDone
  events              \* bounded counter

snapVars == <<color, record, snapshotCount, cut, done>>
vars == <<clockVars, snapVars, sent, delivered, events>>

FIFO == INSTANCE FIFOQueues WITH Msg <- {}

\* snapshotCount at first.
MarkersAwaited(p) == Cardinality(neighbors(p)) - 1

Init ==
  /\ InitClocks
  /\ color = [p \in Process |-> "White"]
  /\ record = [p \in Process |-> {}]
  /\ snapshotCount = [p \in Process |-> MarkersAwaited(p)]
  /\ cut = [p \in Process |-> <<>>]
  /\ done = [p \in Process |-> <<>>]
  /\ events = 0
  /\ FIFO!Init

From(p) == {l \in Link : l[1] = p}

\* A message with the color and the time of its sender.
Payload(p, c)  == [type |-> "Payload", from |-> p, color |-> color[p], ts |-> c]
Snapshot(p, c) == [type |-> "Snapshot", from |-> p, ts |-> c]

\* What p has done when its clock shows c: its messages sent and received so far.
Local(p, c) ==
  <<[clock |-> c, put |-> [q \in neighbors(p) |-> Len(sent[<<p, q>>])],
                  got |-> [q \in neighbors(p) |-> Len(delivered[<<q, p>>])]]>>

-----------------------------------------------------------------------------
\* onSend(Initiate); once the process is red it is ignored.
Initiate(p) ==
  LET c == AfterSend(p, Clock(p)) IN
  /\ color[p] = "White"
  /\ color' = [color EXCEPT ![p] = "Red"]
  /\ cut' = [cut EXCEPT ![p] = Local(p, Clock(p))]
  /\ FIFO!Send(From(p), Snapshot(p, c))
  /\ SetClock(p, c)
  /\ UNCHANGED <<record, snapshotCount, done, events>>

\* onSend(m), of a message to q.
SendMessage(p, q) ==
  LET c == AfterSend(p, Clock(p)) IN
  /\ events < MaxEvents
  /\ events' = events + 1
  /\ FIFO!Send({<<p, q>>}, Payload(p, c))
  /\ SetClock(p, c)
  /\ UNCHANGED snapVars

\* internal, or a signal sent by the application.
Internal(p) ==
  /\ events < MaxEvents
  /\ events' = events + 1
  /\ SetClock(p, AfterSend(p, Clock(p)))
  /\ UNCHANGED <<snapVars, sent, delivered>>

\* Mutant of IsRecorded: the color of the receiver is not tested.
IsRecordedWhenWhite(q, m) == m.color = "White"

\* A red process receives a white message.
IsRecorded(q, m) == m.color = "White" /\ color[q] = "Red"

\* onReceive(Payload(m, color)).
ReceivePayload(q, m) ==
  /\ m.type = "Payload"
  /\ record' = IF IsRecorded(q, m) THEN [record EXCEPT ![q] = @ \cup {m}] ELSE record
  /\ SetClock(q, AfterReceive(q, Clock(q), m.ts))
  /\ UNCHANGED <<color, snapshotCount, cut, done, sent>>

\* Mutant of ReceiveSnapshot: the state is saved whenever a marker comes.
ReceiveSnapshotSaving(q, m) ==
  LET c == AfterReceive(q, Clock(q), m.ts) IN
  /\ m.type = "Snapshot"
  /\ cut' = [cut EXCEPT ![q] = Local(q, c)]
  /\ \/ /\ color[q] = "White"
        /\ color' = [color EXCEPT ![q] = "Red"]
        /\ SetClock(q, AfterSend(q, c))
        /\ sent' = [l \in Link |-> IF l \in From(q)
                                   THEN Append(sent[l], Snapshot(q, AfterSend(q, c))) ELSE sent[l]]
     \/ /\ color[q] = "Red"
        /\ SetClock(q, c)
        /\ UNCHANGED <<color, sent>>
  /\ snapshotCount' = [snapshotCount EXCEPT ![q] = @ - 1]
  /\ done' = IF snapshotCount[q] = 1 THEN [done EXCEPT ![q] = Append(@, record[q])] ELSE done
  /\ UNCHANGED record

\* onReceive(Snapshot(from, _)).
ReceiveSnapshot(q, m) ==
  LET c == AfterReceive(q, Clock(q), m.ts) IN
  /\ m.type = "Snapshot"
  /\ \/ /\ color[q] = "White"
        /\ color' = [color EXCEPT ![q] = "Red"]
        /\ cut' = [cut EXCEPT ![q] = Local(q, c)]
        /\ SetClock(q, AfterSend(q, c))
        /\ sent' = [l \in Link |-> IF l \in From(q)
                                   THEN Append(sent[l], Snapshot(q, AfterSend(q, c))) ELSE sent[l]]
     \/ /\ color[q] = "Red"
        /\ SetClock(q, c)
        /\ UNCHANGED <<color, cut, sent>>
  /\ snapshotCount' = [snapshotCount EXCEPT ![q] = @ - 1]
  /\ done' = IF snapshotCount[q] = 1 THEN [done EXCEPT ![q] = Append(@, record[q])] ELSE done
  /\ UNCHANGED record

Receive(l) ==
  /\ Len(delivered[l]) < Len(sent[l])
  /\ LET m == sent[l][Len(delivered[l]) + 1] IN
     /\ delivered' = [delivered EXCEPT ![l] = Append(@, m)]
     /\ ReceivePayload(l[2], m) \/ ReceiveSnapshot(l[2], m)
  /\ UNCHANGED events

Next ==
  \/ \E p \in Process : Initiate(p) \/ Internal(p)
  \/ \E l \in Link : SendMessage(l[1], l[2]) \/ Receive(l)

Spec == Init /\ [][Next]_vars

-----------------------------------------------------------------------------
\* The vector clock of a process counts the events of every process that happened before
\* its state, and the clock of Lamport is later than any of these but its own last one:
\* timestamps carry the causal past through messages and markers alike.
ClocksAreCausal ==
  \A p \in Process :
    /\ \A q \in Process : vc[p][q] = Cardinality({e \in past[p] : e.process = q})
    /\ \A e \in past[p] :
         e.time < lc[p] \/ (e.process = p /\ e.rank = vc[p][p] /\ e.time = lc[p])

\* The states that the applications are told to save form a consistent cut, whoever
\* initiated the snapshot, and even if several did: no process has saved a state that
\* knows more of another process than what that process has saved, and the sending of its
\* markers, which follows.
ConsistentCut ==
  \A p, q \in Process : cut[p] # <<>> /\ cut[q] # <<>> =>
    cut[q][1].clock.vc[p] <= cut[p][1].clock.vc[p] + 1

\* The messages on their way from p to q across the cut.
Crossing(p, q) ==
  LET last == IF cut[p] = <<>> THEN Len(sent[<<p, q>>]) ELSE cut[p][1].put[q] IN
  {m \in {sent[<<p, q>>][k] : k \in cut[q][1].got[p] + 1 .. last} : m.type = "Payload"}

\* The marker of p is among what has been delivered to q.
MarkerCame(p, q) ==
  \E k \in 1 .. Len(delivered[<<p, q>>]) : sent[<<p, q>>][k].type = "Snapshot"

\* What a process records is what was on its way to it across the cut: nothing else, and
\* all that was in a channel once the marker of that channel has come.  SnapshotDone
\* carries such a record, and is delivered at most once.
RecordIsExact ==
  \A q \in Process :
    /\ Len(done[q]) <= 1
    /\ done[q] # <<>> => cut[q] # <<>> /\ done[q][1] \subseteq record[q]
    /\ cut[q] = <<>> => record[q] = {}
    /\ cut[q] # <<>> =>
         /\ record[q] \subseteq UNION {Crossing(p, q) : p \in neighbors(q)}
         /\ \A p \in neighbors(q) : MarkerCame(p, q) => Crossing(p, q) \subseteq record[q]

\* "Termination: when received marker from all processes" (ChandyLamportMain.scala:66):
\* SnapshotDone is not delivered before the markers of all neighbors have come.  It does not
\* hold: snapshotCount is at first the number of neighbors less one.
DoneAfterAllMarkers ==
  \A q \in Process : done[q] # <<>> => \A p \in neighbors(q) : MarkerCame(p, q)
=============================================================================
