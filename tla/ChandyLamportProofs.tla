------------------------ MODULE ChandyLamportProofs ------------------------
(***************************************************************************)
(* For any number of processes, messages and initiators: the clocks count    *)
(* the causal past (ClockInv), the saved states form a consistent cut        *)
(* (ChannelInv and CutInv) and the processes record what was on its way       *)
(* across it (RecordInv and DoneInv).  The topology is any undirected graph.   *)
(* The second part is about active clients, which save their state later      *)
(* (ClientInv).                                                              *)
(***************************************************************************)
EXTENDS ActiveSnapshot, FiniteSetTheorems, TLAPS

EventOf == [process : Process, rank : Nat, time : Nat]
Stamp   == [lc : Nat, vc : [Process -> Nat], past : SUBSET EventOf]

-----------------------------------------------------------------------------
(* The clocks W of all processes together: what holds between them.          *)

\* The first n events of p.
Own(W, p, n) == {e \in W[p].past : e.process = p /\ e.rank <= n}

\* The stamp c counts events that have happened, and those are its past.
Behind(W, c) ==
  /\ \A q \in Process : c.vc[q] <= W[q].vc[q]
  /\ \A q \in Process : {e \in c.past : e.process = q} = Own(W, q, c.vc[q])
  /\ \A e \in c.past : e.time <= c.lc

Numbered(W, p) ==
  \A n \in 0 .. W[p].vc[p] : IsFiniteSet(Own(W, p, n)) /\ Cardinality(Own(W, p, n)) = n

Latest(W, p) ==
  \A e \in W[p].past :
    e.time < W[p].lc \/ (e.process = p /\ e.rank = W[p].vc[p] /\ e.time = W[p].lc)

Causal(W) ==
  /\ W \in [Process -> Stamp]
  /\ \A p \in Process : Numbered(W, p) /\ Latest(W, p) /\ Behind(W, W[p])

\* The clock of p moves to c.
Moved(W, p, c) == [W EXCEPT ![p] = c]

\* Sending is an event like receiving, from oneself.
LEMMA SendingIsReceiving ==
  ASSUME NEW p \in Process, NEW c \in Stamp
  PROVE  AfterSend(p, c) = AfterReceive(p, c, c)
<1> DEFINE v == [c.vc EXCEPT ![p] = @ + 1]
<1>1. c.vc \in [Process -> Nat] /\ c.lc \in Nat
  BY DEF Stamp
<1>2. v \in [Process -> Nat] /\ \A q \in Process : Larger(v[q], c.vc[q]) = v[q]
  BY <1>1 DEF Larger
<1>3. v = [q \in Process |-> Larger(v[q], c.vc[q])]
  <2> HIDE DEF v
  <2> QED
    BY <1>2
<1>4. Larger(c.lc, c.lc) = c.lc
  BY DEF Larger
<1> QED
  BY <1>3, <1>4, Zenon DEF AfterSend, AfterReceive

\* After an event of p the clocks are still causal, and no stamp has lost its past.
LEMMA EventStep ==
  ASSUME NEW W, Causal(W), NEW p \in Process, NEW ts \in Stamp, Behind(W, ts),
         NEW c, c = AfterReceive(p, W[p], ts), NEW X, X = Moved(W, p, c)
  PROVE  /\ c \in Stamp
         /\ Causal(X)
         /\ \A d \in Stamp : Behind(W, d) => Behind(X, d)
         /\ c.vc[p] = W[p].vc[p] + 1
         /\ \A q \in Process \ {p} : c.vc[q] = Larger(W[p].vc[q], ts.vc[q])
<1> DEFINE C == W[p]
           n == C.vc[p]
           time == Larger(C.lc, ts.lc) + 1
           ev == Event(p, C, time)
<1>1. /\ C \in Stamp /\ C.lc \in Nat /\ C.vc \in [Process -> Nat] /\ C.past \in SUBSET EventOf
      /\ ts.lc \in Nat /\ ts.vc \in [Process -> Nat] /\ ts.past \in SUBSET EventOf /\ n \in Nat
  BY DEF Causal, Stamp
<1>2. /\ \A q \in Process : ts.vc[q] <= W[q].vc[q] /\ C.vc[q] <= W[q].vc[q]
      /\ \A q \in Process : {e \in ts.past : e.process = q} = Own(W, q, ts.vc[q])
      /\ \A q \in Process : {e \in C.past : e.process = q} = Own(W, q, C.vc[q])
      /\ \A e \in ts.past : e.time <= ts.lc
      /\ \A e \in C.past : e.time <= C.lc
  BY Zenon DEF Causal, Behind
<1>3. IsFiniteSet(Own(W, p, n)) /\ Cardinality(Own(W, p, n)) = n
  BY <1>1 DEF Causal, Numbered
<1>4. time \in Nat /\ C.lc < time /\ ts.lc < time
  BY <1>1 DEF Larger
<1>5. ev = [process |-> p, rank |-> n + 1, time |-> time] /\ ev \in EventOf
  <2>1. Cardinality({e \in C.past : e.process = p}) = n
    BY <1>2, <1>3, Zenon
  <2>2. ev = [process |-> p, rank |-> n + 1, time |-> time]
    BY <2>1, Zenon DEF Event
  <2> QED
    BY <2>2, <1>1, <1>4 DEF EventOf
<1> HIDE DEF ev
<1>6. /\ c.lc = time
      /\ c.vc = [q \in Process |-> Larger([C.vc EXCEPT ![p] = @ + 1][q], ts.vc[q])]
      /\ c.past = C.past \cup ts.past \cup {ev}
      /\ c = [lc |-> c.lc, vc |-> c.vc, past |-> c.past]
  BY Zenon DEF AfterReceive, ev
<1> HIDE DEF time
<1>7. c.vc[p] = n + 1
  BY <1>1, <1>2, <1>6 DEF Larger
<1>8. \A q \in Process \ {p} : c.vc[q] = Larger(C.vc[q], ts.vc[q])
  BY <1>1, <1>6
<1>9. c \in Stamp
  <2>1. c.vc \in [Process -> Nat]
    BY <1>1, <1>6 DEF Larger
  <2>2. c.past \in SUBSET EventOf
    BY <1>1, <1>5, <1>6
  <2> QED
    BY <2>1, <2>2, <1>4, <1>6, Zenon DEF Stamp
<1>10. /\ X \in [Process -> Stamp] /\ X[p] = c /\ DOMAIN W = Process
       /\ \A q \in Process \ {p} : X[q] = W[q]
  BY <1>9 DEF Causal, Moved
<1> HIDE DEF C, n
<1>11. {e \in c.past : e.process = p} = Own(W, p, n) \cup {ev}
  <2>1. {e \in ts.past : e.process = p} \subseteq Own(W, p, n)
    BY <1>1, <1>2 DEF Own, EventOf, n, C
  <2>2. {e \in C.past : e.process = p} = Own(W, p, n)
    BY <1>2 DEF n
  <2> QED
    BY <1>5, <1>6, <2>1, <2>2
<1>12. \A m \in 0 .. n : Own(X, p, m) = Own(W, p, m)
  <2> TAKE m \in 0 .. n
  <2>1. ASSUME NEW e, e \in Own(X, p, m) PROVE e \in Own(W, p, m)
    <3>1. e \in c.past /\ e.process = p /\ e.rank <= m
      BY <2>1, <1>10 DEF Own
    <3>2. e # ev
      BY <3>1, <1>1, <1>5
    <3> QED
      BY <3>1, <3>2, <1>11 DEF Own
  <2>2. ASSUME NEW e, e \in Own(W, p, m) PROVE e \in Own(X, p, m)
    BY <2>2, <1>6, <1>10 DEF Own, C
  <2> QED
    BY <2>1, <2>2
<1>13. Own(X, p, n + 1) = Own(W, p, n) \cup {ev}
  <2>1. \A e \in Own(W, p, n) \cup {ev} : e.rank <= n + 1
    BY <1>1, <1>5 DEF Own, EventOf, Causal, Stamp
  <2>2. Own(X, p, n + 1) = {e \in c.past : e.process = p /\ e.rank <= n + 1}
    BY <1>10 DEF Own
  <2> QED
    BY <1>11, <2>1, <2>2
<1>14. \A q \in Process \ {p} : \A m : Own(X, q, m) = Own(W, q, m)
  BY <1>10 DEF Own
<1>15. ASSUME NEW d \in Stamp, Behind(W, d) PROVE Behind(X, d)
  <2>1. \A q \in Process : d.vc[q] <= X[q].vc[q]
    BY <1>1, <1>7, <1>10, <1>15 DEF Behind, Stamp, n, C
  <2>2. \A q \in Process : d.vc[q] \in 0 .. W[q].vc[q]
    BY <1>15 DEF Behind, Stamp, Causal
  <2>3. \A q \in Process : Own(X, q, d.vc[q]) = Own(W, q, d.vc[q])
    BY <2>2, <1>12, <1>14 DEF n, C
  <2> QED
    BY <2>1, <2>3, <1>15, Zenon DEF Behind
<1>16. Behind(X, c)
  <2>1. \A q \in Process : c.vc[q] <= X[q].vc[q]
    <3> TAKE q \in Process
    <3>1. CASE q = p
      BY <3>1, <1>7, <1>10, <1>1
    <3>2. CASE q # p
      BY <3>2, <1>1, <1>2, <1>8, <1>10 DEF Larger
    <3> QED
      BY <3>1, <3>2
  <2>2. ASSUME NEW q \in Process PROVE {e \in c.past : e.process = q} = Own(X, q, c.vc[q])
    <3>1. CASE q = p
      <4>1. {e \in c.past : e.process = p} = Own(X, p, c.vc[p])
        BY <1>7, <1>11, <1>13
      <4> QED
        BY <3>1, <4>1
    <3>2. CASE q # p
      <4>1. {e \in c.past : e.process = q} = Own(W, q, C.vc[q]) \cup Own(W, q, ts.vc[q])
        BY <3>2, <1>2, <1>5, <1>6
      <4>2. Own(W, q, C.vc[q]) \cup Own(W, q, ts.vc[q]) = Own(W, q, Larger(C.vc[q], ts.vc[q]))
        BY <1>1 DEF Own, Larger, Causal, Stamp, EventOf
      <4>3. c.vc[q] = Larger(C.vc[q], ts.vc[q]) /\ Own(X, q, c.vc[q]) = Own(W, q, c.vc[q])
        BY <3>2, <1>8, <1>14
      <4> QED
        BY <4>1, <4>2, <4>3, Zenon
    <3> QED
      BY <3>1, <3>2
  <2>3. \A e \in c.past : e.time <= c.lc
    BY <1>1, <1>2, <1>4, <1>5, <1>6 DEF EventOf
  <2> QED
    BY <2>1, <2>2, <2>3, Zenon DEF Behind
<1>17. ASSUME NEW q \in Process PROVE Numbered(X, q) /\ Latest(X, q) /\ Behind(X, X[q])
  <2>1. CASE q = p
    <3>1. ev \notin Own(W, p, n)
      BY <1>1, <1>5 DEF Own
    <3>2. IsFiniteSet(Own(X, p, n + 1)) /\ Cardinality(Own(X, p, n + 1)) = n + 1
      <4>1. /\ IsFiniteSet(Own(W, p, n) \cup {ev})
            /\ Cardinality(Own(W, p, n) \cup {ev}) = Cardinality(Own(W, p, n)) + 1
        BY <3>1, <1>3, FS_AddElement
      <4> QED
        BY <4>1, <1>3, <1>13
    <3>3. \A m \in 0 .. n : IsFiniteSet(Own(X, p, m)) /\ Cardinality(Own(X, p, m)) = m
      BY <1>12 DEF Causal, Numbered, n, C
    <3>4. Numbered(X, p)
      <4>1. \A m \in 0 .. X[p].vc[p] : m \in 0 .. n \/ m = n + 1
        BY <1>1, <1>7, <1>10
      <4> QED
        BY <4>1, <3>2, <3>3, Zenon DEF Numbered
    <3>5. Latest(X, p)
      BY <1>1, <1>2, <1>4, <1>5, <1>6, <1>7, <1>10 DEF Latest, EventOf
    <3> QED
      BY <2>1, <3>4, <3>5, <1>10, <1>16
  <2>2. CASE q # p
    <3>1. Numbered(X, q) /\ Latest(X, q)
      <4>1. X[q] = W[q] /\ \A m : Own(X, q, m) = Own(W, q, m)
        BY <2>2, <1>10, <1>14
      <4> QED
        <5>1. Numbered(W, q) /\ Latest(W, q)
          BY DEF Causal
        <5>2. Numbered(X, q)
          BY <4>1, <5>1 DEF Numbered
        <5>3. Latest(X, q)
          BY <4>1, <5>1, Zenon DEF Latest
        <5> QED
          BY <5>2, <5>3
    <3>2. Behind(X, W[q])
      BY <1>15 DEF Causal
    <3> QED
      BY <2>2, <3>1, <3>2, <1>10
  <2> QED
    BY <2>1, <2>2
<1> QED
  BY <1>7, <1>8, <1>9, <1>10, <1>15, <1>17 DEF Causal, n, C

-----------------------------------------------------------------------------
Message ==
  [type : {"Payload"}, from : Process, color : {"White", "Red"}, ts : Stamp]
    \cup [type : {"Snapshot"}, from : Process, ts : Stamp]

\* What a process saves.
Saved(p) == [clock : Stamp, put : [neighbors(p) -> Nat], got : [neighbors(p) -> Nat]]

TypeInv ==
  /\ lc \in [Process -> Nat]
  /\ vc \in [Process -> [Process -> Nat]]
  /\ past \in [Process -> SUBSET EventOf]
  /\ color \in [Process -> {"White", "Red"}]
  /\ record \in [Process -> SUBSET Message]
  /\ snapshotCount \in [Process -> Int]
  /\ sent \in [Link -> Seq(Message)]
  /\ delivered \in [Link -> Seq(Message)]
  /\ cut = [p \in Process |-> cut[p]]
  /\ \A p \in Process : cut[p] # <<>> => cut[p][1] \in Saved(p)
  /\ done \in [Process -> Seq(SUBSET Message)]

World == [p \in Process |-> Clock(p)]

\* The stamps of the messages and of the saved states count events that have happened.
ClockInv ==
  /\ Causal(World)
  /\ \A l \in Link : \A k \in 1 .. Len(sent[l]) : Behind(World, sent[l][k].ts)
  /\ \A p \in Process : cut[p] # <<>> => Behind(World, cut[p][1].clock)

\* The n-th message of a link before which its sender saved its state, or the last one.
At(l) == IF cut[l[1]] = <<>> THEN Len(sent[l]) ELSE cut[l[1]][1].put[l[2]]

\* White messages come before the marker of a link, and the marker follows the saved state.
Marks(l, k) ==
  LET m == sent[l][k] IN
  /\ k <= At(l) <=> m.type = "Payload" /\ m.color = "White"
  /\ k = At(l) + 1 <=> m.type = "Snapshot"
  /\ m.type = "Snapshot" => m.ts.vc = [cut[l[1]][1].clock.vc EXCEPT ![l[1]] = @ + 1]

\* A white process has received no marker, a red one has saved what it had received.
ChannelInv ==
  /\ \A p \in Process : color[p] = "Red" <=> cut[p] # <<>>
  /\ \A l \in Link :
       /\ \A k \in 1 .. Len(sent[l]) : Marks(l, k)
       /\ cut[l[1]] # <<>> => At(l) < Len(sent[l])
       /\ Len(delivered[l]) <= Len(sent[l])
       /\ cut[l[2]] = <<>> => Len(delivered[l]) <= At(l)
       /\ cut[l[2]] # <<>> => /\ cut[l[2]][1].got[l[1]] <= Len(delivered[l])
                             /\ cut[l[2]][1].got[l[1]] <= At(l)

\* When p has saved s, v counts no event of p after the sending of its markers.
KnowsAtMost(v, s, p) == s # <<>> => v[p] <= s[1].clock.vc[p] + 1

CutInv ==
  \A p \in Process :
    /\ \A q \in Process : cut[q] = <<>> => KnowsAtMost(vc[q], cut[p], p)
    /\ \A l \in Link : \A k \in 1 .. At(l) : KnowsAtMost(sent[l][k].ts.vc, cut[p], p)
    /\ \A q \in Process : cut[q] # <<>> => KnowsAtMost(cut[q][1].clock.vc, cut[p], p)

\* What q received from p after it had saved its state, and p sent before.
Late(p, q) ==
  {sent[<<p, q>>][k] : k \in {k \in cut[q][1].got[p] + 1 .. Len(delivered[<<p, q>>]) :
                                k <= At(<<p, q>>)}}

RecordInv ==
  \A q \in Process :
    record[q] = IF cut[q] = <<>> THEN {} ELSE UNION {Late(p, q) : p \in neighbors(q)}

\* The neighbors whose markers have come.
Marked(q) == {p \in neighbors(q) : Len(delivered[<<p, q>>]) > At(<<p, q>>)}

\* SnapshotDone has been delivered to q.
Told(q) == cut[q] # <<>> /\ Len(done[q]) = 1 /\ done[q][1] \subseteq record[q]

DoneInv ==
  \A q \in Process :
    /\ snapshotCount[q] = MarkersAwaited(q) - Cardinality(Marked(q))
    /\ done[q] # <<>> => snapshotCount[q] <= 0 /\ Told(q)

SnapshotInv == TypeInv /\ ClockInv /\ ChannelInv /\ CutInv /\ RecordInv /\ DoneInv

-----------------------------------------------------------------------------
(* What the steps do.                                                        *)

LEMMA LinkEnds ==
  /\ \A l \in Link : /\ l = <<l[1], l[2]>> /\ l[1] \in Process /\ l[2] \in Process
                     /\ l[2] \in neighbors(l[1]) /\ l[1] \in neighbors(l[2])
                     /\ l[1] # l[2]
  /\ \A q \in Process : \A p \in neighbors(q) :
       <<p, q>> \in Link /\ <<q, p>> \in Link /\ p \in Process /\ q \in neighbors(p)
  /\ \A p \in Process : From(p) \subseteq Link
<1>1. \A p \in Process : /\ neighbors(p) \subseteq Process /\ p \notin neighbors(p)
                         /\ \A q \in neighbors(p) : p \in neighbors(q)
  BY SnapshotAssumption DEF neighbors
<1> QED
  BY <1>1 DEF Link, From

LEMMA WorldType ==
  ASSUME TypeInv
  PROVE  /\ World \in [Process -> Stamp]
         /\ \A p \in Process : World[p] = Clock(p) /\ Clock(p) \in Stamp
         /\ \A p \in Process : World[p].vc = vc[p]
BY DEF TypeInv, World, Clock, Stamp

LEMMA SetClockStep ==
  ASSUME TypeInv, NEW p \in Process, NEW c \in Stamp, SetClock(p, c)
  PROVE  /\ lc' \in [Process -> Nat]
         /\ vc' \in [Process -> [Process -> Nat]]
         /\ past' \in [Process -> SUBSET EventOf]
         /\ vc'[p] = c.vc /\ \A q \in Process \ {p} : vc'[q] = vc[q]
         /\ World' = Moved(World, p, c)
<1>1. /\ c.lc \in Nat /\ c.vc \in [Process -> Nat] /\ c.past \in SUBSET EventOf
      /\ c = [lc |-> c.lc, vc |-> c.vc, past |-> c.past]
  BY DEF Stamp
<1>2. /\ lc' \in [Process -> Nat] /\ vc' \in [Process -> [Process -> Nat]]
      /\ past' \in [Process -> SUBSET EventOf]
  BY <1>1 DEF TypeInv, SetClock
<1>3. lc'[p] = c.lc /\ vc'[p] = c.vc /\ past'[p] = c.past
  BY DEF TypeInv, SetClock
<1>4. \A q \in Process \ {p} : lc'[q] = lc[q] /\ vc'[q] = vc[q] /\ past'[q] = past[q]
  BY DEF TypeInv, SetClock
<1>5. World' = [q \in Process |-> [lc |-> lc'[q], vc |-> vc'[q], past |-> past'[q]]]
  BY DEF World, Clock
<1>6. World = [q \in Process |-> [lc |-> lc[q], vc |-> vc[q], past |-> past[q]]]
  BY DEF World, Clock
<1> QED
  BY <1>1, <1>2, <1>3, <1>4, <1>5, <1>6 DEF Moved

\* No stamp has lost its past.
Kept == \A d \in Stamp : Behind(World, d) => Behind(World', d)

\* The clock of p shows one more event, which knows what ts knows.
LEMMA ClockStep ==
  ASSUME TypeInv, ClockInv, NEW p \in Process, NEW ts \in Stamp, Behind(World, ts),
         NEW c, c = AfterReceive(p, Clock(p), ts), SetClock(p, c)
  PROVE  /\ c \in Stamp
         /\ Causal(World') /\ Kept /\ Behind(World', c)
         /\ c.vc[p] = vc[p][p] + 1
         /\ \A q \in Process \ {p} : c.vc[q] = Larger(vc[p][q], ts.vc[q])
<1>1. World[p] = Clock(p) /\ World[p].vc = vc[p]
  BY WorldType
<1> DEFINE V == Moved(World, p, c)
<1>2. /\ c \in Stamp /\ Causal(V)
      /\ \A d \in Stamp : Behind(World, d) => Behind(V, d)
      /\ c.vc[p] = World[p].vc[p] + 1
      /\ \A q \in Process \ {p} : c.vc[q] = Larger(World[p].vc[q], ts.vc[q])
  <2>1. Causal(World) /\ c = AfterReceive(p, World[p], ts)
    BY <1>1 DEF ClockInv
  <2> QED
    BY <2>1, EventStep
<1>3. World' = V
  BY <1>2, SetClockStep
<1>4. Behind(V, V[p]) /\ V[p] = c
  BY <1>2, WorldType DEF Causal, Moved
<1> HIDE DEF V
<1> QED
  BY <1>1, <1>2, <1>3, <1>4, Zenon DEF Kept

\* The clock of p shows two more events: it receives ts, which leaves it at c, and sends.
LEMMA ClockTwice ==
  ASSUME TypeInv, ClockInv, NEW p \in Process, NEW ts \in Stamp, Behind(World, ts),
         NEW c, c = AfterReceive(p, Clock(p), ts),
         NEW d, d = AfterSend(p, c), SetClock(p, d)
  PROVE  /\ c \in Stamp /\ d \in Stamp
         /\ Causal(World') /\ Kept /\ Behind(World', c) /\ Behind(World', d)
         /\ c.vc[p] = vc[p][p] + 1
         /\ \A q \in Process \ {p} : c.vc[q] = Larger(vc[p][q], ts.vc[q])
<1>1. World[p] = Clock(p) /\ World[p].vc = vc[p]
  BY WorldType
<1>2. Causal(World) /\ World \in [Process -> Stamp] /\ c = AfterReceive(p, World[p], ts)
  BY <1>1 DEF ClockInv, Causal
<1> DEFINE V == Moved(World, p, c)
           V2 == Moved(V, p, d)
<1>4. /\ c \in Stamp /\ Causal(V)
      /\ \A e \in Stamp : Behind(World, e) => Behind(V, e)
      /\ c.vc[p] = World[p].vc[p] + 1
      /\ \A q \in Process \ {p} : c.vc[q] = Larger(World[p].vc[q], ts.vc[q])
  BY <1>2, EventStep
<1>5. V[p] = c /\ Behind(V, c)
  BY <1>2, <1>4 DEF Causal, Moved
<1>7. d = AfterReceive(p, V[p], c)
  BY <1>4, <1>5, SendingIsReceiving
<1>8. /\ d \in Stamp /\ Causal(V2)
      /\ \A e \in Stamp : Behind(V, e) => Behind(V2, e)
  BY <1>4, <1>5, <1>7, EventStep
<1>9. V2[p] = d /\ Behind(V2, d)
  BY <1>4, <1>8 DEF Causal, Moved
<1>10. World' = V2
  <2>1. World' = Moved(World, p, d)
    BY <1>8, SetClockStep
  <2>2. V2 = Moved(World, p, d)
    BY <1>2 DEF Moved
  <2> QED
    BY <2>1, <2>2
<1> QED
  BY <1>1, <1>4, <1>5, <1>8, <1>9, <1>10, Zenon DEF Kept

\* What a message sent on the links of L does to them.
LEMMA SentStep ==
  ASSUME TypeInv, NEW L, L \subseteq Link, NEW m \in Message,
         sent' = [l \in Link |-> IF l \in L THEN Append(sent[l], m) ELSE sent[l]]
  PROVE  /\ sent' \in [Link -> Seq(Message)]
         /\ \A l \in L : Len(sent'[l]) = Len(sent[l]) + 1 /\ sent'[l][Len(sent[l]) + 1] = m
         /\ \A l \in Link \ L : sent'[l] = sent[l]
         /\ \A l \in Link : \A k \in 1 .. Len(sent[l]) : sent'[l][k] = sent[l][k]
<1>1. \A l \in Link : sent[l] \in Seq(Message)
  BY DEF TypeInv
<1>2. ASSUME NEW s \in Seq(Message)
      PROVE  /\ Append(s, m) \in Seq(Message) /\ Len(Append(s, m)) = Len(s) + 1
             /\ Append(s, m)[Len(s) + 1] = m
             /\ \A k \in 1 .. Len(s) : Append(s, m)[k] = s[k]
  OBVIOUS
<1>3. sent' \in [Link -> Seq(Message)]
  BY <1>1, <1>2
<1> QED
  BY <1>1, <1>2, <1>3

\* What a reception does to them.
LEMMA DeliveredStep ==
  ASSUME TypeInv, NEW l \in Link, NEW m \in Message,
         delivered' = [delivered EXCEPT ![l] = Append(@, m)]
  PROVE  /\ delivered' \in [Link -> Seq(Message)]
         /\ Len(delivered'[l]) = Len(delivered[l]) + 1
         /\ \A k \in Link \ {l} : delivered'[k] = delivered[k]
<1>1. delivered[l] \in Seq(Message)
  BY DEF TypeInv
<1>2. /\ Append(delivered[l], m) \in Seq(Message)
      /\ Len(Append(delivered[l], m)) = Len(delivered[l]) + 1
  BY <1>1
<1> QED
  BY <1>2 DEF TypeInv

-----------------------------------------------------------------------------
(* What holds of a step whoever takes it.                                    *)

\* What has been sent and what has been saved stays.
Forward ==
  /\ \A l \in Link : /\ Len(sent[l]) <= Len(sent'[l])
                     /\ \A k \in 1 .. Len(sent[l]) : sent'[l][k] = sent[l][k]
  /\ \A p \in Process : cut[p] # <<>> => cut'[p] = cut[p]

LEMMA Lengths ==
  ASSUME TypeInv
  PROVE  /\ \A l \in Link : /\ Len(sent[l]) \in Nat /\ Len(delivered[l]) \in Nat /\ At(l) \in Nat
                            /\ \A k \in 1 .. Len(sent[l]) : sent[l][k] \in Message
         /\ \A p \in Process : cut[p] # <<>> =>
              /\ cut[p][1].clock \in Stamp
              /\ \A q \in neighbors(p) : cut[p][1].put[q] \in Nat /\ cut[p][1].got[q] \in Nat
<1>1. \A l \in Link : sent[l] \in Seq(Message) /\ delivered[l] \in Seq(Message)
  BY DEF TypeInv
<1>2. \A p \in Process : cut[p] # <<>> =>
              /\ cut[p][1].clock \in Stamp
              /\ \A q \in neighbors(p) : cut[p][1].put[q] \in Nat /\ cut[p][1].got[q] \in Nat
  BY DEF TypeInv, Saved
<1>3. \A l \in Link : At(l) \in Nat
  BY <1>1, <1>2, LinkEnds DEF At
<1> QED
  BY <1>1, <1>2, <1>3

LEMMA MessageType ==
  ASSUME NEW m \in Message
  PROVE  /\ m.ts \in Stamp /\ m.ts.vc \in [Process -> Nat] /\ m.type \in {"Payload", "Snapshot"}
         /\ m.type = "Payload" => m.color \in {"White", "Red"}
BY DEF Message, Stamp

\* The messages sent stay white, red and markers.
LEMMA MarksKept ==
  ASSUME ChannelInv, UNCHANGED <<cut, sent>>
  PROVE  \A l \in Link : \A k \in 1 .. Len(sent[l]) : Marks(l, k)'
<1> SUFFICES ASSUME NEW l \in Link, NEW k \in 1 .. Len(sent[l]) PROVE Marks(l, k)'
  OBVIOUS
<1>1. Marks(l, k)
  BY DEF ChannelInv
<1>2. sent' = sent /\ cut' = cut /\ At(l)' = At(l)
  BY DEF At
<1> QED
  BY <1>1, <1>2 DEF Marks

LEMMA ClockInvKept ==
  ASSUME TypeInv, ClockInv, Causal(World'), Kept,
         \A l \in Link : \A k \in 1 .. Len(sent'[l]) :
           \/ k \in 1 .. Len(sent[l]) /\ sent'[l][k] = sent[l][k]
           \/ Behind(World', sent'[l][k].ts),
         \A p \in Process : cut'[p] = cut[p] \/ Behind(World', cut'[p][1].clock)
  PROVE  ClockInv'
<1>1. ASSUME NEW l \in Link, NEW k \in 1 .. Len(sent'[l]) PROVE Behind(World', sent'[l][k].ts)
  <2>1. CASE k \in 1 .. Len(sent[l]) /\ sent'[l][k] = sent[l][k]
    <3>1. sent[l][k].ts \in Stamp /\ Behind(World, sent[l][k].ts)
      BY <2>1, Lengths, MessageType DEF ClockInv
    <3> QED
      BY <2>1, <3>1 DEF Kept
  <2> QED
    BY <2>1
<1>2. ASSUME NEW p \in Process, cut'[p] # <<>> PROVE Behind(World', cut'[p][1].clock)
  <2>1. CASE cut'[p] = cut[p]
    <3>1. cut[p][1].clock \in Stamp /\ Behind(World, cut[p][1].clock)
      BY <1>2, <2>1, Lengths DEF ClockInv
    <3> QED
      BY <2>1, <3>1 DEF Kept
  <2> QED
    BY <2>1
<1> QED
  BY <1>1, <1>2 DEF ClockInv

\* It stays, whatever is done after.
LEMMA ToldStays ==
  ASSUME Forward, NEW q \in Process, Told(q), done'[q] = done[q], record[q] \subseteq record'[q]
  PROVE  Told(q)'
BY DEF Told, Forward

LEMMA DoneKept ==
  ASSUME TypeInv, ChannelInv, DoneInv, Forward,
         UNCHANGED <<snapshotCount, done>>,
         \A q \in Process : record[q] \subseteq record'[q],
         \A l \in Link : Len(delivered'[l]) > At(l)' <=> Len(delivered[l]) > At(l)
  PROVE  DoneInv'
<1>1. ASSUME NEW q \in Process
      PROVE  /\ snapshotCount'[q] = MarkersAwaited(q) - Cardinality(Marked(q)')
             /\ done'[q] # <<>> => snapshotCount'[q] <= 0 /\ Told(q)'
  <2>1. Marked(q)' = Marked(q)
    BY LinkEnds DEF Marked
  <2> QED
    BY <2>1, ToldStays DEF DoneInv
<1> QED
  BY <1>1 DEF DoneInv, MarkersAwaited, neighbors

-----------------------------------------------------------------------------
(* A white process turns red.                                                *)

\* p saves its state when its clock shows c and sends its markers.
Turns(p, c) ==
  /\ color[p] = "White"
  /\ color' = [color EXCEPT ![p] = "Red"]
  /\ cut' = [cut EXCEPT ![p] = Local(p, c)]
  /\ sent' = [l \in Link |-> IF l \in From(p)
                             THEN Append(sent[l], Snapshot(p, AfterSend(p, c))) ELSE sent[l]]

\* It may have received a marker of l, which it had not saved.
Comes(p) ==
  /\ delivered' \in [Link -> Seq(Message)]
  /\ \A l \in Link :
       /\ Len(delivered[l]) <= Len(delivered'[l]) /\ Len(delivered'[l]) <= Len(sent[l])
       /\ l[2] # p => delivered'[l] = delivered[l]
       /\ \A k \in Len(delivered[l]) + 1 .. Len(delivered'[l]) : At(l) < k

LEMMA TurnStep ==
  ASSUME TypeInv, ChannelInv, NEW p \in Process, NEW c \in Stamp, AfterSend(p, c) \in Stamp,
         Turns(p, c)
  PROVE  /\ color' \in [Process -> {"White", "Red"}] /\ color'[p] = "Red"
         /\ \A q \in Process \ {p} : color'[q] = color[q] /\ cut'[q] = cut[q]
         /\ cut[p] = <<>> /\ cut'[p] # <<>> /\ cut'[p] = Local(p, c)
         /\ cut'[p][1].clock = c
         /\ \A q \in neighbors(p) : /\ cut'[p][1].put[q] = Len(sent[<<p, q>>])
                                    /\ cut'[p][1].got[q] = Len(delivered[<<q, p>>])
         /\ cut' = [q \in Process |-> cut'[q]]
         /\ \A q \in Process : cut'[q] # <<>> => cut'[q][1] \in Saved(q)
         /\ sent' \in [Link -> Seq(Message)]
         /\ \A l \in From(p) : /\ Len(sent'[l]) = Len(sent[l]) + 1
                               /\ sent'[l][Len(sent[l]) + 1] = Snapshot(p, AfterSend(p, c))
         /\ \A l \in Link \ From(p) : sent'[l] = sent[l]
         /\ Forward
         /\ \A l \in Link : At(l)' = At(l)
<1>1. Snapshot(p, AfterSend(p, c)) \in Message
  BY DEF Snapshot, Message
<1>2. /\ sent' \in [Link -> Seq(Message)]
      /\ \A l \in From(p) : /\ Len(sent'[l]) = Len(sent[l]) + 1
                            /\ sent'[l][Len(sent[l]) + 1] = Snapshot(p, AfterSend(p, c))
      /\ \A l \in Link \ From(p) : sent'[l] = sent[l]
      /\ \A l \in Link : \A k \in 1 .. Len(sent[l]) : sent'[l][k] = sent[l][k]
  <2>1. From(p) \subseteq Link
    BY LinkEnds
  <2>2. sent' = [l \in Link |-> IF l \in From(p) THEN Append(sent[l], Snapshot(p, AfterSend(p, c)))
                                                 ELSE sent[l]]
    BY DEF Turns
  <2> QED
    BY <1>1, <2>1, <2>2, SentStep, Zenon
<1>3. cut[p] = <<>>
  BY DEF Turns, ChannelInv, TypeInv
<1>4. cut'[p] = Local(p, c) /\ \A q \in Process \ {p} : cut'[q] = cut[q]
  BY DEF Turns, TypeInv
<1>5. cut' = [q \in Process |-> cut'[q]]
  BY Zenon DEF Turns, TypeInv
<1>6. /\ Local(p, c) # <<>> /\ Local(p, c)[1].clock = c
      /\ Local(p, c)[1] = [clock |-> c,
                           put |-> [q \in neighbors(p) |-> Len(sent[<<p, q>>])],
                           got |-> [q \in neighbors(p) |-> Len(delivered[<<q, p>>])]]
  BY DEF Local
<1>7. \A q \in neighbors(p) : /\ Len(sent[<<p, q>>]) \in Nat /\ Len(delivered[<<q, p>>]) \in Nat
                              /\ Local(p, c)[1].put[q] = Len(sent[<<p, q>>])
                              /\ Local(p, c)[1].got[q] = Len(delivered[<<q, p>>])
  BY <1>6, LinkEnds, Lengths
<1>8. Local(p, c)[1] \in Saved(p)
  BY <1>6, <1>7 DEF Saved
<1>9. color' \in [Process -> {"White", "Red"}] /\ color'[p] = "Red"
      /\ \A q \in Process \ {p} : color'[q] = color[q]
  BY DEF Turns, TypeInv
<1>10. Forward
  BY <1>2, <1>3, <1>4, Lengths DEF Forward
<1>11. ASSUME NEW l \in Link PROVE At(l)' = At(l)
  <2>1. l[1] \in Process /\ l[2] \in neighbors(l[1]) /\ l = <<l[1], l[2]>>
    BY LinkEnds
  <2>2. CASE l[1] = p
    BY <2>1, <2>2, <1>3, <1>4, <1>6, <1>7 DEF At
  <2>3. CASE l[1] # p
    <3>1. l \notin From(p) /\ sent'[l] = sent[l] /\ cut'[l[1]] = cut[l[1]]
      BY <2>1, <2>3, <1>2, <1>4 DEF From
    <3> QED
      BY <3>1, Zenon DEF At
  <2> QED
    BY <2>2, <2>3
<1> QED
  BY <1>2, <1>3, <1>4, <1>5, <1>6, <1>7, <1>8, <1>9, <1>10, <1>11 DEF TypeInv

LEMMA TurnChannel ==
  ASSUME TypeInv, ChannelInv, NEW p \in Process, NEW c \in Stamp, AfterSend(p, c) \in Stamp,
         Turns(p, c), Comes(p)
  PROVE  ChannelInv'
<1> DEFINE m == Snapshot(p, AfterSend(p, c))
<1>1. m.type = "Snapshot" /\ m.ts.vc = [c.vc EXCEPT ![p] = @ + 1]
  BY DEF Snapshot, AfterSend
<1>2. \A q \in Process : color'[q] = "Red" <=> cut'[q] # <<>>
  BY TurnStep DEF ChannelInv
<1>3. ASSUME NEW l \in Link
      PROVE  /\ \A k \in 1 .. Len(sent'[l]) : Marks(l, k)'
             /\ cut'[l[1]] # <<>> => At(l)' < Len(sent'[l])
             /\ Len(delivered'[l]) <= Len(sent'[l])
             /\ cut'[l[2]] = <<>> => Len(delivered'[l]) <= At(l)'
             /\ cut'[l[2]] # <<>> => /\ cut'[l[2]][1].got[l[1]] <= Len(delivered'[l])
                                   /\ cut'[l[2]][1].got[l[1]] <= At(l)'
  <2>1. /\ l[1] \in Process /\ l[2] \in Process /\ l[2] \in neighbors(l[1])
        /\ l[1] \in neighbors(l[2]) /\ l = <<l[1], l[2]>> /\ l[1] # l[2]
    BY LinkEnds
  <2>2. Len(sent[l]) \in Nat /\ Len(delivered[l]) \in Nat /\ At(l) \in Nat /\ At(l)' = At(l)
    BY Lengths, TurnStep
  <2>3. Len(delivered'[l]) \in Nat /\ Len(sent'[l]) \in Nat /\ Len(sent[l]) <= Len(sent'[l])
    BY TurnStep DEF Comes, Forward
  <2>4. \A k \in 1 .. Len(sent[l]) : Marks(l, k)
    BY DEF ChannelInv
  <2>5. /\ \A k \in 1 .. Len(sent'[l]) : Marks(l, k)'
        /\ cut'[l[1]] # <<>> => At(l)' < Len(sent'[l])
    <3>1. CASE l[1] = p
      <4>1. /\ cut[p] = <<>> /\ At(l) = Len(sent[l]) /\ l \in From(p)
            /\ cut'[l[1]][1].clock = c /\ Len(sent'[l]) = Len(sent[l]) + 1
            /\ sent'[l][Len(sent[l]) + 1] = m
            /\ \A k \in 1 .. Len(sent[l]) : sent'[l][k] = sent[l][k]
        BY <3>1, TurnStep DEF At, From, Forward
      <4>2. ASSUME NEW k, k = Len(sent[l]) + 1 PROVE Marks(l, k)'
        <5>1. /\ sent'[l][k].type = "Snapshot" /\ sent'[l][k].type # "Payload"
              /\ sent'[l][k].ts.vc = [cut'[l[1]][1].clock.vc EXCEPT ![l[1]] = @ + 1]
          BY <1>1, <3>1, <4>1, <4>2
        <5>2. k = At(l)' + 1 /\ ~ (k <= At(l)')
          BY <2>2, <4>1, <4>2
        <5> QED
          BY <5>1, <5>2, Zenon DEF Marks
      <4>3. ASSUME NEW k \in 1 .. Len(sent[l]) PROVE Marks(l, k)'
        BY <2>2, <2>4, <4>1 DEF Marks
      <4> QED
        BY <2>2, <4>1, <4>2, <4>3
    <3>2. CASE l[1] # p
      <4>1. sent'[l] = sent[l] /\ cut'[l[1]] = cut[l[1]]
        BY <2>1, <3>2, TurnStep DEF From
      <4>2. \A k \in 1 .. Len(sent'[l]) : Marks(l, k)'
        BY <2>2, <2>4, <4>1 DEF Marks
      <4> QED
        BY <2>2, <4>1, <4>2 DEF ChannelInv
    <3> QED
      BY <3>1, <3>2
  <2>6. Len(delivered'[l]) <= Len(sent'[l])
    BY <2>2, <2>3 DEF Comes
  <2>7. /\ cut'[l[2]] = <<>> => Len(delivered'[l]) <= At(l)'
        /\ cut'[l[2]] # <<>> => /\ cut'[l[2]][1].got[l[1]] <= Len(delivered'[l])
                              /\ cut'[l[2]][1].got[l[1]] <= At(l)'
    <3>1. CASE l[2] = p
      <4>1. /\ cut[p] = <<>> /\ cut'[p] # <<>>
            /\ cut'[p][1].got[l[1]] = Len(delivered[<<l[1], p>>])
        BY <2>1, <3>1, TurnStep
      <4>2. Len(delivered[l]) <= At(l) /\ Len(delivered[l]) <= Len(delivered'[l])
        BY <3>1, <4>1 DEF ChannelInv, Comes
      <4> QED
        BY <2>1, <2>2, <3>1, <4>1, <4>2
    <3>2. CASE l[2] # p
      <4>1. cut'[l[2]] = cut[l[2]] /\ delivered'[l] = delivered[l]
        BY <2>1, <3>2, TurnStep DEF Comes
      <4> QED
        BY <2>2, <4>1 DEF ChannelInv
    <3> QED
      BY <3>1, <3>2
  <2> QED
    BY <2>5, <2>6, <2>7
<1> QED
  BY <1>2, <1>3 DEF ChannelInv

\* Nobody but p knows what p does after it has saved its state.
LEMMA TurnCut ==
  ASSUME TypeInv, ClockInv, ChannelInv, CutInv, NEW p \in Process,
         NEW c \in Stamp, AfterSend(p, c) \in Stamp, Turns(p, c),
         vc[p][p] <= c.vc[p],
         \A r \in Process \ {p} : KnowsAtMost(c.vc, cut[r], r),
         \A q \in Process \ {p} : vc'[q] = vc[q]
  PROVE  CutInv'
<1>1. /\ \A q \in Process : vc[q] \in [Process -> Nat] /\ vc[q][p] <= vc[p][p]
      /\ \A l \in Link : \A k \in 1 .. Len(sent[l]) :
           sent[l][k].ts.vc \in [Process -> Nat] /\ sent[l][k].ts.vc[p] <= vc[p][p]
      /\ \A q \in Process : cut[q] # <<>> =>
           cut[q][1].clock.vc \in [Process -> Nat] /\ cut[q][1].clock.vc[p] <= vc[p][p]
  BY WorldType, Lengths, MessageType DEF ClockInv, Causal, Behind, Stamp
<1>2. c.vc \in [Process -> Nat]
  BY DEF Stamp
<1>3. /\ cut'[p][1].clock = c /\ cut'[p] # <<>> /\ cut[p] = <<>>
      /\ \A q \in Process \ {p} : cut'[q] = cut[q]
  BY TurnStep
<1>4. ASSUME NEW v \in [Process -> Nat], v[p] <= vc[p][p] \/ v = c.vc
      PROVE  KnowsAtMost(v, cut'[p], p)
  BY <1>1, <1>2, <1>3, <1>4 DEF KnowsAtMost
<1>5. ASSUME NEW v, NEW r \in Process \ {p}, KnowsAtMost(v, cut[r], r)
      PROVE  KnowsAtMost(v, cut'[r], r)
  BY <1>3, <1>5 DEF KnowsAtMost
<1>6. ASSUME NEW r \in Process
      PROVE  /\ \A q \in Process : cut'[q] = <<>> => KnowsAtMost(vc'[q], cut'[r], r)
             /\ \A l \in Link : \A k \in 1 .. At(l)' : KnowsAtMost(sent'[l][k].ts.vc, cut'[r], r)
             /\ \A q \in Process : cut'[q] # <<>> => KnowsAtMost(cut'[q][1].clock.vc, cut'[r], r)
  <2>1. ASSUME NEW q \in Process, cut'[q] = <<>> PROVE KnowsAtMost(vc'[q], cut'[r], r)
    <3>1. q # p /\ vc'[q] = vc[q] /\ cut[q] = <<>>
      BY <1>3, <2>1
    <3>2. r = p \/ KnowsAtMost(vc[q], cut[r], r)
      BY <3>1 DEF CutInv
    <3>3. KnowsAtMost(vc[q], cut'[r], r)
      BY <3>1, <3>2, <1>1, <1>4, <1>5
    <3> QED
      BY <3>1, <3>3 DEF KnowsAtMost
  <2>2. ASSUME NEW l \in Link, NEW k \in 1 .. At(l)'
        PROVE  KnowsAtMost(sent'[l][k].ts.vc, cut'[r], r)
    <3>1. /\ k \in 1 .. At(l) /\ k \in 1 .. Len(sent[l]) /\ sent'[l][k] = sent[l][k]
      BY Lengths, TurnStep DEF Forward, ChannelInv, At
    <3>2. KnowsAtMost(sent[l][k].ts.vc, cut[r], r)
      BY <3>1 DEF CutInv
    <3>3. KnowsAtMost(sent[l][k].ts.vc, cut'[r], r)
      BY <3>1, <3>2, <1>1, <1>4, <1>5
    <3> QED
      BY <3>1, <3>3 DEF KnowsAtMost
  <2>3. ASSUME NEW q \in Process, cut'[q] # <<>>
        PROVE  KnowsAtMost(cut'[q][1].clock.vc, cut'[r], r)
    <3>1. CASE q = p
      <4>1. KnowsAtMost(c.vc, cut'[r], r)
        BY <1>2, <1>4, <1>5
      <4> QED
        BY <3>1, <4>1, <1>3 DEF KnowsAtMost
    <3>2. CASE q # p
      <4>1. cut'[q] = cut[q] /\ KnowsAtMost(cut[q][1].clock.vc, cut[r], r)
        BY <2>3, <3>2, <1>3 DEF CutInv
      <4>2. KnowsAtMost(cut[q][1].clock.vc, cut'[r], r)
        BY <2>3, <4>1, <1>1, <1>4, <1>5
      <4> QED
        BY <4>1, <4>2 DEF KnowsAtMost
    <3> QED
      BY <3>1, <3>2
  <2> QED
    BY <2>1, <2>2, <2>3
<1> QED
  BY <1>6 DEF CutInv

\* What q has to record of p stays.
LEMMA LateKept ==
  ASSUME TypeInv, ChannelInv, Forward, NEW q \in Process, NEW p \in neighbors(q), cut[q] # <<>>,
         delivered'[<<p, q>>] = delivered[<<p, q>>],
         \/ At(<<p, q>>)' = At(<<p, q>>)
         \/ At(<<p, q>>)' = At(<<p, q>>) + 1 /\ Len(delivered[<<p, q>>]) <= At(<<p, q>>)
  PROVE  Late(p, q)' = Late(p, q)
<1> DEFINE l == <<p, q>>
           K == {k \in cut[q][1].got[p] + 1 .. Len(delivered[l]) : k <= At(l)}
           KN == {k \in cut'[q][1].got[p] + 1 .. Len(delivered'[l]) : k <= At(l)'}
<1>1. l \in Link /\ cut'[q] = cut[q] /\ cut[q][1].got[p] \in Nat
  BY LinkEnds, Lengths DEF Forward
<1>2. Len(delivered[l]) <= Len(sent[l]) /\ Len(delivered[l]) \in Nat /\ At(l) \in Nat
      /\ Len(sent[l]) \in Nat
  BY <1>1, Lengths DEF ChannelInv
<1>3. KN = K
  BY <1>1, <1>2
<1>4. \A k \in K : sent'[l][k] = sent[l][k]
  <2>1. \A k \in K : k \in 1 .. Len(sent[l])
    BY <1>1, <1>2
  <2>2. \A k \in 1 .. Len(sent[l]) : sent'[l][k] = sent[l][k]
    BY <1>1 DEF Forward
  <2> HIDE DEF K
  <2> QED
    BY <2>1, <2>2
<1>5. {sent'[l][k] : k \in KN} = {sent[l][k] : k \in K}
  BY <1>3, <1>4
<1> QED
  BY <1>5 DEF Late

LEMMA TurnRecord ==
  ASSUME TypeInv, ChannelInv, RecordInv, NEW p \in Process,
         NEW c \in Stamp, AfterSend(p, c) \in Stamp, Turns(p, c), Comes(p), UNCHANGED record
  PROVE  RecordInv'
<1>1. Forward /\ \A l \in Link : At(l)' = At(l)
  BY TurnStep
<1>2. ASSUME NEW q \in Process
      PROVE  record'[q] = IF cut'[q] = <<>> THEN {}
                          ELSE UNION {Late(r, q)' : r \in neighbors(q)}
  <2>1. CASE q = p
    <3>1. cut[p] = <<>> /\ cut'[p] # <<>> /\ record[q] = {}
      BY <2>1, TurnStep DEF RecordInv
    <3>2. ASSUME NEW r \in neighbors(q) PROVE Late(r, q)' = {}
      <4>1. /\ <<r, q>> \in Link /\ cut'[q][1].got[r] = Len(delivered[<<r, q>>])
            /\ Len(delivered[<<r, q>>]) \in Nat
        BY <2>1, TurnStep, LinkEnds, Lengths
      <4>2. \A k \in cut'[q][1].got[r] + 1 .. Len(delivered'[<<r, q>>]) : ~ (k <= At(<<r, q>>)')
        <5>1. At(<<r, q>>) \in Nat /\ At(<<r, q>>)' = At(<<r, q>>)
          BY <1>1, <4>1, Lengths
        <5> QED
          BY <4>1, <5>1 DEF Comes
      <4> QED
        BY <4>2 DEF Late
    <3> QED
      BY <2>1, <3>1, <3>2
  <2>2. CASE q # p
    <3>1. cut'[q] = cut[q] /\ record'[q] = record[q]
      BY <2>2, TurnStep
    <3>2. CASE cut[q] = <<>>
      BY <3>1, <3>2 DEF RecordInv
    <3>3. CASE cut[q] # <<>>
      <4>1. ASSUME NEW r \in neighbors(q) PROVE Late(r, q)' = Late(r, q)
        <5>1. <<r, q>> \in Link /\ delivered'[<<r, q>>] = delivered[<<r, q>>]
          BY <2>2, LinkEnds DEF Comes
        <5> QED
          BY <1>1, <3>3, <5>1, LateKept
      <4>2. {Late(r, q)' : r \in neighbors(q)} = {Late(r, q) : r \in neighbors(q)}
        BY <4>1
      <4> QED
        BY <3>1, <3>3, <4>2 DEF RecordInv
    <3> QED
      BY <3>2, <3>3
  <2> QED
    BY <2>1, <2>2
<1> QED
  BY <1>2 DEF RecordInv, neighbors

\* The initiator turns red.
LEMMA InitiateStep ==
  ASSUME SnapshotInv, NEW p \in Process, Initiate(p)
  PROVE  SnapshotInv'
<1> DEFINE c == Clock(p)
           d == AfterSend(p, Clock(p))
<1> USE DEF SnapshotInv
<1>1. c \in Stamp /\ Behind(World, c) /\ d = AfterReceive(p, Clock(p), c)
      /\ c.vc = vc[p] /\ World[p] = c
  BY WorldType, SendingIsReceiving DEF ClockInv, Causal
<1>2. SetClock(p, d) /\ Turns(p, c) /\ UNCHANGED <<record, snapshotCount, done, delivered>>
  BY DEF Initiate, Turns, FIFO!Send
<1> HIDE DEF c, d
<1>3. d \in Stamp /\ Causal(World') /\ Kept /\ Behind(World', d)
  BY <1>1, <1>2, ClockStep
<1>4. /\ lc' \in [Process -> Nat] /\ vc' \in [Process -> [Process -> Nat]]
      /\ past' \in [Process -> SUBSET EventOf]
      /\ \A q \in Process \ {p} : vc'[q] = vc[q]
  BY <1>2, <1>3, SetClockStep, Zenon
<1>5. AfterSend(p, c) = d
  BY DEF c, d
<1>6. Comes(p)
  <2>1. \A l \in Link : /\ Len(delivered[l]) \in Nat /\ Len(delivered[l]) <= Len(sent[l])
                        /\ delivered'[l] = delivered[l]
    BY <1>2, Lengths DEF ChannelInv
  <2> QED
    BY <1>2, <2>1 DEF Comes, TypeInv
<1>7. TypeInv'
  <2>1. /\ color' \in [Process -> {"White", "Red"}]
        /\ cut' = [q \in Process |-> cut'[q]]
        /\ \A q \in Process : cut'[q] # <<>> => cut'[q][1] \in Saved(q)
        /\ sent' \in [Link -> Seq(Message)]
    BY <1>1, <1>2, <1>3, <1>5, TurnStep
  <2> QED
    BY <1>2, <1>4, <2>1 DEF TypeInv, Saved, neighbors
<1>8. ClockInv'
  <2>1. \A l \in Link : \A k \in 1 .. Len(sent'[l]) :
           \/ k \in 1 .. Len(sent[l]) /\ sent'[l][k] = sent[l][k]
           \/ Behind(World', sent'[l][k].ts)
    <3>1. Forward /\ (\A l \in Link \ From(p) : sent'[l] = sent[l])
      BY <1>1, <1>2, <1>3, <1>5, TurnStep
    <3>2. \A l \in From(p) : /\ Len(sent'[l]) = Len(sent[l]) + 1
                             /\ sent'[l][Len(sent[l]) + 1].ts = d
      <4>1. \A l \in From(p) : /\ Len(sent'[l]) = Len(sent[l]) + 1
                               /\ sent'[l][Len(sent[l]) + 1] = Snapshot(p, d)
        BY <1>1, <1>2, <1>3, <1>5, TurnStep
      <4> QED
        BY <4>1 DEF Snapshot
    <3>3. \A l \in Link : Len(sent[l]) \in Nat
      BY Lengths
    <3> QED
      BY <1>3, <3>1, <3>2, <3>3 DEF Forward
  <2>2. \A q \in Process : cut'[q] = cut[q] \/ Behind(World', cut'[q][1].clock)
    BY <1>1, <1>2, <1>3, <1>5, TurnStep DEF Kept
  <2> QED
    BY <1>3, <2>1, <2>2, ClockInvKept
<1>9. ChannelInv'
  BY <1>1, <1>2, <1>3, <1>5, <1>6, TurnChannel
<1>10. CutInv'
  <2>1. cut[p] = <<>>
    BY <1>1, <1>2, <1>3, <1>5, TurnStep
  <2>2. \A r \in Process \ {p} : KnowsAtMost(c.vc, cut[r], r)
    BY <1>1, <2>1 DEF CutInv
  <2>3. vc[p][p] <= c.vc[p]
    BY <1>1 DEF TypeInv
  <2> QED
    BY <1>1, <1>2, <1>3, <1>4, <1>5, <2>2, <2>3, TurnCut
<1>11. RecordInv'
  BY <1>1, <1>2, <1>3, <1>5, <1>6, TurnRecord
<1>12. DoneInv'
  <2>1. Forward /\ \A l \in Link : At(l)' = At(l) /\ delivered'[l] = delivered[l]
    BY <1>1, <1>2, <1>3, <1>5, TurnStep
  <2> QED
    BY <1>2, <2>1, DoneKept
<1> QED
  BY <1>7, <1>8, <1>9, <1>10, <1>11, <1>12

-----------------------------------------------------------------------------
(* Events of the applications.                                               *)

LEMMA InternalStep ==
  ASSUME SnapshotInv, NEW p \in Process, Internal(p)
  PROVE  SnapshotInv'
<1> DEFINE c == Clock(p)
           d == AfterSend(p, Clock(p))
<1> USE DEF SnapshotInv
<1>1. c \in Stamp /\ Behind(World, c) /\ d = AfterReceive(p, Clock(p), c) /\ c.vc = vc[p]
  BY WorldType, SendingIsReceiving DEF ClockInv, Causal
<1>2. SetClock(p, d) /\ UNCHANGED <<snapVars, sent, delivered>>
  BY DEF Internal
<1> HIDE DEF c, d
<1>3. /\ d \in Stamp /\ Causal(World') /\ Kept
      /\ \A r \in Process \ {p} : d.vc[r] = Larger(vc[p][r], c.vc[r])
  BY <1>1, <1>2, ClockStep
<1>4. /\ lc' \in [Process -> Nat] /\ vc' \in [Process -> [Process -> Nat]]
      /\ past' \in [Process -> SUBSET EventOf]
      /\ vc'[p] = d.vc /\ \A q \in Process \ {p} : vc'[q] = vc[q]
  BY <1>2, <1>3, SetClockStep, Zenon
<1>5. TypeInv'
  BY <1>2, <1>4 DEF TypeInv, Saved, neighbors, snapVars
<1>6. ClockInv'
  BY <1>2, <1>3, ClockInvKept DEF snapVars
<1>7. ChannelInv'
  <2>1. /\ \A l \in Link : At(l)' = At(l)
        /\ UNCHANGED <<color, cut, sent, delivered>>
    BY <1>2 DEF At, snapVars
  <2>2. \A l \in Link : \A k \in 1 .. Len(sent[l]) : Marks(l, k)'
    BY <2>1, MarksKept
  <2> QED
    BY <2>1, <2>2 DEF ChannelInv
<1>8. CutInv'
  <2>1. ASSUME NEW q \in Process, NEW r \in Process, cut[q] = <<>>
        PROVE  KnowsAtMost(vc'[q], cut[r], r)
    <3>1. KnowsAtMost(vc[q], cut[r], r)
      BY <2>1 DEF CutInv
    <3>2. q = p /\ r # p => vc'[q][r] = vc[q][r]
      BY <1>1, <1>3, <1>4 DEF Larger
    <3>3. q # p => vc'[q] = vc[q]
      BY <1>4
    <3> QED
      BY <2>1, <3>1, <3>2, <3>3 DEF KnowsAtMost
  <2>2. At(<<p, p>>)' = At(<<p, p>>) /\ \A l \in Link : At(l)' = At(l)
    BY <1>2 DEF At, snapVars
  <2> QED
    BY <1>2, <2>1, <2>2 DEF CutInv, snapVars
<1>9. RecordInv'
  <2>1. ASSUME NEW q \in Process, NEW r \in neighbors(q) PROVE Late(r, q)' = Late(r, q)
    BY <1>2 DEF Late, At, snapVars
  <2>2. ASSUME NEW q \in Process
        PROVE  {Late(r, q)' : r \in neighbors(q)} = {Late(r, q) : r \in neighbors(q)}
    BY <2>1
  <2>3. ASSUME NEW q \in Process
        PROVE  record'[q] = IF cut'[q] = <<>> THEN {}
                            ELSE UNION {Late(r, q)' : r \in neighbors(q)}
    BY <1>2, <2>2 DEF RecordInv, snapVars
  <2> QED
    BY <2>3 DEF RecordInv, neighbors
<1>10. DoneInv'
  <2>1. Forward /\ \A l \in Link : At(l)' = At(l)
    BY <1>2 DEF Forward, At, snapVars, TypeInv
  <2> QED
    BY <1>2, <2>1, DoneKept DEF snapVars
<1> QED
  BY <1>5, <1>6, <1>7, <1>8, <1>9, <1>10

LEMMA SendMessageStep ==
  ASSUME SnapshotInv, NEW p \in Process, NEW q \in neighbors(p), SendMessage(p, q)
  PROVE  SnapshotInv'
<1> DEFINE c == Clock(p)
           d == AfterSend(p, Clock(p))
           m == Payload(p, d)
           link == <<p, q>>
           n == Len(sent[link])
<1> USE DEF SnapshotInv
<1>1. c \in Stamp /\ Behind(World, c) /\ d = AfterReceive(p, Clock(p), c) /\ c.vc = vc[p]
  BY WorldType, SendingIsReceiving DEF ClockInv, Causal
<1>2. /\ SetClock(p, d) /\ UNCHANGED <<snapVars, delivered>>
      /\ sent' = [l \in Link |-> IF l \in {link} THEN Append(sent[l], m) ELSE sent[l]]
  BY DEF SendMessage, FIFO!Send
<1>3. m = [type |-> "Payload", from |-> p, color |-> color[p], ts |-> d]
  BY DEF Payload
<1> HIDE DEF c, d, m
<1>4. /\ d \in Stamp /\ Causal(World') /\ Kept /\ Behind(World', d)
      /\ \A r \in Process \ {p} : d.vc[r] = Larger(vc[p][r], c.vc[r])
  BY <1>1, <1>2, ClockStep
<1>5. /\ lc' \in [Process -> Nat] /\ vc' \in [Process -> [Process -> Nat]]
      /\ past' \in [Process -> SUBSET EventOf]
      /\ vc'[p] = d.vc /\ \A r \in Process \ {p} : vc'[r] = vc[r]
  BY <1>2, <1>4, SetClockStep, Zenon
<1>6. link \in Link /\ {link} \subseteq Link /\ m \in Message
  <2>1. link \in Link
    BY LinkEnds
  <2>2. color[p] \in {"White", "Red"}
    BY DEF TypeInv
  <2>3. m \in Message
    BY <1>3, <1>4, <2>2 DEF Message
  <2> QED
    BY <2>1, <2>3
<1>7. /\ sent' \in [Link -> Seq(Message)]
      /\ Len(sent'[link]) = n + 1 /\ sent'[link][n + 1] = m
      /\ \A l \in Link \ {link} : sent'[l] = sent[l]
      /\ \A l \in Link : \A k \in 1 .. Len(sent[l]) : sent'[l][k] = sent[l][k]
  <2>1. /\ sent' \in [Link -> Seq(Message)]
        /\ \A l \in {link} : Len(sent'[l]) = Len(sent[l]) + 1 /\ sent'[l][Len(sent[l]) + 1] = m
        /\ \A l \in Link \ {link} : sent'[l] = sent[l]
        /\ \A l \in Link : \A k \in 1 .. Len(sent[l]) : sent'[l][k] = sent[l][k]
    BY <1>2, <1>6, SentStep
  <2> QED
    BY <2>1
<1>8. /\ n \in Nat /\ Len(delivered[link]) \in Nat /\ Len(delivered[link]) <= n
      /\ At(link) \in Nat
      /\ cut'[p] = cut[p]
  BY <1>2, <1>6, Lengths DEF ChannelInv, snapVars
<1>9. /\ cut[p] = <<>> => At(link) = n /\ At(link)' = n + 1 /\ color[p] = "White"
      /\ cut[p] # <<>> => At(link)' = At(link) /\ At(link) < n /\ color[p] = "Red"
      /\ \A l \in Link \ {link} : At(l)' = At(l)
  <2>1. cut'[link[1]] = cut[link[1]] /\ link[1] = p
    BY <1>2 DEF snapVars
  <2>2. /\ cut[p] = <<>> => At(link) = n /\ At(link)' = n + 1
        /\ cut[p] # <<>> => At(link)' = At(link)
    BY <1>7, <2>1 DEF At
  <2>3. /\ cut[p] = <<>> => color[p] = "White"
        /\ cut[p] # <<>> => At(link) < n /\ color[p] = "Red"
    BY <1>6, <2>1 DEF ChannelInv, TypeInv
  <2>4. \A l \in Link \ {link} : At(l)' = At(l)
    BY <1>2, <1>7 DEF At, snapVars
  <2> QED
    BY <2>2, <2>3, <2>4
<1>10. Forward
  <2>1. \A l \in Link : Len(sent[l]) \in Nat
    BY Lengths
  <2> QED
    BY <1>2, <1>7, <2>1 DEF Forward, snapVars
<1>11. TypeInv'
  BY <1>2, <1>5, <1>7 DEF TypeInv, Saved, neighbors, snapVars
<1> HIDE DEF link, n
<1>12. ClockInv'
  <2>1. ASSUME NEW l \in Link, NEW k \in 1 .. Len(sent'[l])
        PROVE  \/ k \in 1 .. Len(sent[l]) /\ sent'[l][k] = sent[l][k]
               \/ Behind(World', sent'[l][k].ts)
    <3>1. CASE l = link
      <4>1. k \in 1 .. Len(sent[l]) \/ k = n + 1
        BY <1>7, <1>8, <3>1 DEF n
      <4>2. k = n + 1 => sent'[l][k].ts = d
        BY <1>3, <1>7, <3>1
      <4> QED
        BY <1>4, <1>7, <4>1, <4>2
    <3>2. CASE l # link
      BY <1>7, <3>2
    <3> QED
      BY <3>1, <3>2
  <2> QED
    BY <1>2, <1>4, <2>1, ClockInvKept DEF snapVars
<1>13. ChannelInv'
  <2>1. ASSUME NEW l \in Link, NEW k \in 1 .. Len(sent'[l]) PROVE Marks(l, k)'
    <3>0. k \in 1 .. Len(sent[l]) => Marks(l, k) /\ sent'[l][k] = sent[l][k]
      BY <1>7 DEF ChannelInv
    <3>1. CASE l # link
      BY <1>2, <1>7, <1>9, <3>0, <3>1 DEF Marks, snapVars
    <3>2. CASE l = link /\ k \in 1 .. n
      BY <1>2, <1>8, <1>9, <3>0, <3>2 DEF Marks, snapVars, n
    <3>3. CASE l = link /\ k = n + 1
      <4>1. sent'[l][k] = m /\ m.type = "Payload" /\ m.color = color[p]
        BY <1>3, <1>7, <3>3
      <4> QED
        BY <1>8, <1>9, <3>3, <4>1 DEF Marks
    <3> QED
      BY <1>7, <1>8, <3>1, <3>2, <3>3
  <2>2. ASSUME NEW l \in Link
        PROVE  /\ cut'[l[1]] # <<>> => At(l)' < Len(sent'[l])
               /\ Len(delivered'[l]) <= Len(sent'[l])
               /\ cut'[l[2]] = <<>> => Len(delivered'[l]) <= At(l)'
               /\ cut'[l[2]] # <<>> => /\ cut'[l[2]][1].got[l[1]] <= Len(delivered'[l])
                                     /\ cut'[l[2]][1].got[l[1]] <= At(l)'
    <3>1. /\ Len(sent[l]) \in Nat /\ Len(delivered[l]) \in Nat /\ At(l) \in Nat
          /\ cut[l[2]] # <<>> => cut[l[2]][1].got[l[1]] \in Nat
      BY Lengths, LinkEnds
    <3>2. /\ Len(sent'[l]) \in Nat /\ Len(sent[l]) <= Len(sent'[l])
          /\ At(l)' \in Nat /\ At(l) <= At(l)'
          /\ cut[l[1]] # <<>> => At(l)' = At(l)
      <4>1. CASE l = link
        <5>1. Len(sent'[l]) = Len(sent[l]) + 1 /\ l[1] = p
          BY <1>7, <4>1 DEF n, link
        <5> QED
          BY <1>8, <1>9, <3>1, <4>1, <5>1
      <4>2. CASE l # link
        BY <1>7, <1>9, <3>1, <4>2
      <4> QED
        BY <4>1, <4>2
    <3> QED
      BY <1>2, <3>1, <3>2 DEF ChannelInv, snapVars
  <2> QED
    BY <1>2, <2>1, <2>2 DEF ChannelInv, snapVars
<1>14. CutInv'
  <2>1. ASSUME NEW i \in Process, NEW r \in Process, cut[i] = <<>>
        PROVE  KnowsAtMost(vc'[i], cut[r], r)
    <3>1. KnowsAtMost(vc[i], cut[r], r)
      BY <2>1 DEF CutInv
    <3>2. i = p /\ r # p => vc'[i][r] = vc[i][r]
      BY <1>1, <1>4, <1>5 DEF Larger
    <3>3. i # p => vc'[i] = vc[i]
      BY <1>5
    <3> QED
      BY <2>1, <3>1, <3>2, <3>3 DEF KnowsAtMost
  <2>2. ASSUME NEW r \in Process, NEW l \in Link, NEW k \in 1 .. At(l)'
        PROVE  KnowsAtMost(sent'[l][k].ts.vc, cut[r], r)
    <3>1. CASE k \in 1 .. At(l)
      <4>1. At(l) <= Len(sent[l]) /\ Len(sent[l]) \in Nat
        BY Lengths DEF ChannelInv, At
      <4>2. sent'[l][k] = sent[l][k]
        BY <1>7, <3>1, <4>1, Lengths
      <4> QED
        BY <3>1, <4>2 DEF CutInv
    <3>2. CASE ~ (k \in 1 .. At(l))
      <4>1. l = link /\ cut[p] = <<>> /\ k = n + 1
        BY <1>8, <1>9, <3>2
      <4>2. sent'[l][k].ts.vc = vc'[p]
        BY <1>3, <1>5, <1>7, <4>1
      <4> QED
        BY <2>1, <4>1, <4>2
    <3> QED
      BY <3>1, <3>2
  <2> QED
    BY <1>2, <2>1, <2>2 DEF CutInv, snapVars
<1>15. RecordInv'
  <2>1. ASSUME NEW i \in Process, NEW r \in neighbors(i), cut[i] # <<>>
        PROVE  Late(r, i)' = Late(r, i)
    <3>1. \/ At(<<r, i>>)' = At(<<r, i>>)
          \/ At(<<r, i>>)' = At(<<r, i>>) + 1 /\ Len(delivered[<<r, i>>]) <= At(<<r, i>>)
      BY <1>8, <1>9, LinkEnds
    <3> QED
      BY <1>2, <1>10, <2>1, <3>1, LateKept
  <2>2. ASSUME NEW i \in Process, cut[i] # <<>>
        PROVE  {Late(r, i)' : r \in neighbors(i)} = {Late(r, i) : r \in neighbors(i)}
    BY <2>1, <2>2
  <2>3. ASSUME NEW i \in Process
        PROVE  record'[i] = IF cut'[i] = <<>> THEN {}
                            ELSE UNION {Late(r, i)' : r \in neighbors(i)}
    BY <1>2, <2>2 DEF RecordInv, snapVars
  <2> QED
    BY <2>3 DEF RecordInv, neighbors
<1>16. DoneInv'
  <2>1. \A l \in Link : Len(delivered'[l]) > At(l)' <=> Len(delivered[l]) > At(l)
    <3>1. \A l \in Link : Len(delivered'[l]) = Len(delivered[l])
      BY <1>2
    <3> QED
      BY <1>8, <1>9, <3>1
  <2> QED
    BY <1>2, <1>10, <2>1, DoneKept DEF snapVars
<1> QED
  BY <1>11, <1>12, <1>13, <1>14, <1>15, <1>16

-----------------------------------------------------------------------------
(* Receptions.                                                               *)

\* The next message of a link is received.
Takes(l, m) ==
  /\ Len(delivered[l]) < Len(sent[l])
  /\ m = sent[l][Len(delivered[l]) + 1]
  /\ delivered' = [delivered EXCEPT ![l] = Append(@, m)]

\* m is the marker of l: its stamp follows what the sender has saved.
MarkerOf(l, m) ==
  /\ cut[l[1]] # <<>>
  /\ m.ts.vc = [cut[l[1]][1].clock.vc EXCEPT ![l[1]] = @ + 1]

LEMMA ReceptionStep ==
  ASSUME TypeInv, ClockInv, ChannelInv, NEW l \in Link, NEW m, Takes(l, m)
  PROVE  /\ m \in Message /\ m.ts \in Stamp /\ m.ts.vc \in [Process -> Nat]
         /\ Behind(World, m.ts)
         /\ Marks(l, Len(delivered[l]) + 1)
         /\ delivered' \in [Link -> Seq(Message)]
         /\ Len(delivered'[l]) = Len(delivered[l]) + 1
         /\ \A k \in Link \ {l} : delivered'[k] = delivered[k]
         /\ m.type = "Payload" => /\ Len(delivered[l]) + 1 # At(l) + 1
                                  /\ m.color = "White" <=> Len(delivered[l]) + 1 <= At(l)
         /\ m.type = "Snapshot" =>
              Len(delivered[l]) = At(l) /\ MarkerOf(l, m)
<1>1. Len(delivered[l]) + 1 \in 1 .. Len(sent[l]) /\ At(l) \in Nat /\ Len(delivered[l]) \in Nat
  BY Lengths DEF Takes
<1>2. m \in Message /\ m.ts \in Stamp /\ m.ts.vc \in [Process -> Nat] /\ Behind(World, m.ts)
  BY <1>1, Lengths, MessageType DEF Takes, ClockInv
<1>3. Marks(l, Len(delivered[l]) + 1)
  BY <1>1 DEF ChannelInv
<1>4. m.type = "Payload" => m.type # "Snapshot"
  OBVIOUS
<1>5. /\ m.type = "Payload" => /\ Len(delivered[l]) + 1 # At(l) + 1
                               /\ m.color = "White" <=> Len(delivered[l]) + 1 <= At(l)
      /\ m.type = "Snapshot" => Len(delivered[l]) = At(l)
      /\ m.type = "Snapshot" => m.ts.vc = [cut[l[1]][1].clock.vc EXCEPT ![l[1]] = @ + 1]
  BY <1>1, <1>3, <1>4 DEF Marks, Takes
<1>6. m.type = "Snapshot" => cut[l[1]] # <<>>
  BY <1>1, <1>5 DEF At
<1>7. /\ delivered' \in [Link -> Seq(Message)]
      /\ Len(delivered'[l]) = Len(delivered[l]) + 1
      /\ \A k \in Link \ {l} : delivered'[k] = delivered[k]
  BY <1>2, DeliveredStep DEF Takes
<1> QED
  BY <1>2, <1>3, <1>5, <1>6, <1>7 DEF MarkerOf

\* A process that has received all that is white knows no more than the sender did.
LEMMA ReceptionKnows ==
  ASSUME TypeInv, ChannelInv, CutInv, NEW l \in Link, NEW m \in Message, Takes(l, m),
         Len(delivered[l]) + 1 <= At(l) \/ MarkerOf(l, m),
         cut[l[2]] = <<>>,
         NEW c \in Stamp,
         \A r \in Process \ {l[2]} : c.vc[r] = Larger(vc[l[2]][r], m.ts.vc[r])
  PROVE  \A r \in Process : KnowsAtMost(c.vc, cut[r], r)
<1> SUFFICES ASSUME NEW r \in Process, r # l[2] PROVE KnowsAtMost(c.vc, cut[r], r)
  BY DEF KnowsAtMost
<1>1. l[1] \in Process /\ l[2] \in Process
  BY LinkEnds
<1>2. KnowsAtMost(vc[l[2]], cut[r], r)
  BY <1>1 DEF CutInv
<1>3. KnowsAtMost(m.ts.vc, cut[r], r)
  <2>1. CASE Len(delivered[l]) + 1 <= At(l)
    BY <2>1, Lengths DEF CutInv, Takes
  <2>2. CASE MarkerOf(l, m)
    <3>1. cut[l[1]][1].clock.vc \in [Process -> Nat]
      BY <1>1, <2>2, Lengths DEF Stamp, MarkerOf
    <3>2. KnowsAtMost(cut[l[1]][1].clock.vc, cut[r], r)
      BY <1>1, <2>2 DEF CutInv, MarkerOf
    <3> QED
      BY <1>1, <2>2, <3>1, <3>2 DEF KnowsAtMost, MarkerOf
  <2> QED
    BY <2>1, <2>2
<1> QED
  BY <1>2, <1>3 DEF KnowsAtMost, Larger

LEMMA ReceivePayloadStep ==
  ASSUME SnapshotInv, NEW l \in Link, NEW m, Takes(l, m), ReceivePayload(l[2], m)
  PROVE  SnapshotInv'
<1> DEFINE q == l[2]
           c == AfterReceive(q, Clock(q), m.ts)
           n == Len(delivered[l]) + 1
<1> USE DEF SnapshotInv
<1>1. /\ m \in Message /\ m.ts \in Stamp /\ Behind(World, m.ts)
      /\ delivered' \in [Link -> Seq(Message)]
      /\ Len(delivered'[l]) = n
      /\ \A k \in Link \ {l} : delivered'[k] = delivered[k]
      /\ n # At(l) + 1
      /\ m.color = "White" <=> n <= At(l)
  BY ReceptionStep DEF ReceivePayload
<1>2. /\ SetClock(q, c) /\ UNCHANGED <<color, snapshotCount, cut, done, sent>>
      /\ record' = IF IsRecorded(q, m) THEN [record EXCEPT ![q] = @ \cup {m}] ELSE record
  BY DEF ReceivePayload
<1>3. /\ q \in Process /\ l[1] \in neighbors(q) /\ l = <<l[1], q>>
      /\ n \in Nat /\ At(l) \in Nat /\ Len(sent[l]) \in Nat /\ n <= Len(sent[l])
      /\ m = sent[l][n]
  BY LinkEnds, Lengths DEF Takes
<1> HIDE DEF q, n
<1>4. /\ c \in Stamp /\ Causal(World') /\ Kept
      /\ \A r \in Process \ {q} : c.vc[r] = Larger(vc[q][r], m.ts.vc[r])
  BY <1>1, <1>2, <1>3, ClockStep
<1> HIDE DEF c
<1>5. /\ lc' \in [Process -> Nat] /\ vc' \in [Process -> [Process -> Nat]]
      /\ past' \in [Process -> SUBSET EventOf]
      /\ vc'[q] = c.vc /\ \A r \in Process \ {q} : vc'[r] = vc[r]
  BY <1>2, <1>3, <1>4, SetClockStep, Zenon
<1>6. /\ record' \in [Process -> SUBSET Message]
      /\ \A i \in Process \ {q} : record'[i] = record[i]
      /\ record'[q] = record[q] \cup {x \in {m} : n <= At(l) /\ cut[q] # <<>>}
  <2>1. IsRecorded(q, m) <=> n <= At(l) /\ cut[q] # <<>>
    BY <1>1, <1>3 DEF IsRecorded, ChannelInv
  <2> QED
    BY <1>1, <1>2, <1>3, <2>1 DEF TypeInv
<1>7. Forward /\ \A k \in Link : At(k)' = At(k)
  BY <1>2, Lengths DEF Forward, At
<1>8. cut[q] = <<>> => n <= At(l)
  <2>1. cut[q] = <<>> => Len(delivered[l]) <= At(l)
    BY DEF ChannelInv, q
  <2> QED
    BY <1>1, <1>3, <2>1, Lengths DEF n
<1>9. TypeInv'
  BY <1>1, <1>2, <1>5, <1>6 DEF TypeInv, Saved, neighbors
<1>10. ClockInv'
  BY <1>2, <1>4, ClockInvKept
<1>11. ChannelInv'
  <2>1. ASSUME NEW k \in Link
        PROVE  /\ Len(delivered'[k]) <= Len(sent[k])
               /\ cut[k[2]] = <<>> => Len(delivered'[k]) <= At(k)
               /\ cut[k[2]] # <<>> => cut[k[2]][1].got[k[1]] <= Len(delivered'[k])
    <3>1. CASE k = l
      <4>1. cut[q] # <<>> => cut[q][1].got[l[1]] <= Len(delivered[l])
                             /\ cut[q][1].got[l[1]] \in Nat
        BY <1>3, Lengths DEF ChannelInv, q
      <4>2. Len(delivered[l]) + 1 = n /\ Len(delivered[l]) \in Nat
        BY Lengths DEF n
      <4> QED
        BY <1>1, <1>3, <1>8, <3>1, <4>1, <4>2 DEF q
    <3>2. CASE k # l
      BY <1>1, <3>2 DEF ChannelInv
    <3> QED
      BY <3>1, <3>2
  <2>2. \A k \in Link : \A i \in 1 .. Len(sent[k]) : Marks(k, i)'
    BY <1>2, MarksKept
  <2> QED
    BY <1>2, <1>7, <2>1, <2>2 DEF ChannelInv
<1>12. CutInv'
  <2>1. ASSUME NEW i \in Process, NEW r \in Process, cut[i] = <<>>
        PROVE  KnowsAtMost(vc'[i], cut[r], r)
    <3>1. CASE i = q
      <4>1. KnowsAtMost(c.vc, cut[r], r)
        BY <1>1, <1>4, <1>8, <2>1, <3>1, ReceptionKnows DEF q, n
      <4> QED
        BY <1>5, <3>1, <4>1
    <3>2. CASE i # q
      BY <1>5, <2>1, <3>2 DEF CutInv
    <3> QED
      BY <3>1, <3>2
  <2> QED
    BY <1>2, <1>7, <2>1 DEF CutInv
<1>13. RecordInv'
  <2>1. ASSUME NEW i \in Process, NEW r \in neighbors(i), <<r, i>> # l, cut[i] # <<>>
        PROVE  Late(r, i)' = Late(r, i)
    BY <1>1, <1>7, <2>1, LinkEnds, LateKept
  <2>2. ASSUME cut[q] # <<>>
        PROVE  Late(l[1], q)' = Late(l[1], q) \cup {x \in {m} : n <= At(l)}
    <3> DEFINE g == cut[q][1].got[l[1]]
    <3>1. Late(l[1], q)' = {sent[l][k] : k \in {k \in g + 1 .. n : k <= At(l)}}
      BY <1>1, <1>2, <1>3, <1>7 DEF Late
    <3>2. Late(l[1], q) = {sent[l][k] : k \in {k \in g + 1 .. n - 1 : k <= At(l)}}
      <4>1. Len(delivered[l]) = n - 1
        BY Lengths DEF n
      <4>2. Late(l[1], q) = {sent[<<l[1], q>>][k] : k \in {k \in g + 1 ..
                               Len(delivered[<<l[1], q>>]) : k <= At(<<l[1], q>>)}}
        BY DEF Late
      <4> HIDE DEF g
      <4> QED
        BY <1>3, <4>1, <4>2
    <3>3. g \in Nat /\ g < n
      BY <1>3, <2>2, Lengths DEF ChannelInv, n, q
    <3>4. {k \in g + 1 .. n : k <= At(l)}
            = {k \in g + 1 .. n - 1 : k <= At(l)} \cup {k \in {n} : k <= At(l)}
      BY <1>3, <3>3
    <3> HIDE DEF g
    <3> QED
      BY <1>3, <3>1, <3>2, <3>4
  <2>3. ASSUME NEW i \in Process
        PROVE  record'[i] = IF cut[i] = <<>> THEN {}
                            ELSE UNION {Late(r, i)' : r \in neighbors(i)}
    <3>1. CASE cut[i] = <<>>
      BY <1>6, <3>1 DEF RecordInv
    <3>2. CASE cut[i] # <<>> /\ i # q
      <4>1. {Late(r, i)' : r \in neighbors(i)} = {Late(r, i) : r \in neighbors(i)}
        BY <2>1, <3>2, <1>3
      <4> QED
        BY <1>6, <3>2, <4>1 DEF RecordInv
    <3>3. CASE cut[i] # <<>> /\ i = q
      <4>1. \A r \in neighbors(q) \ {l[1]} : Late(r, q)' = Late(r, q)
        BY <2>1, <3>3, <1>3
      <4>2. UNION {Late(r, q)' : r \in neighbors(q)}
              = (UNION {Late(r, q) : r \in neighbors(q)}) \cup {x \in {m} : n <= At(l)}
        BY <4>1, <2>2, <3>3, <1>3
      <4>3. record[q] = UNION {Late(r, q) : r \in neighbors(q)}
        BY <1>3, <3>3 DEF RecordInv
      <4> QED
        BY <1>6, <3>3, <4>2, <4>3
    <3> QED
      BY <3>1, <3>2, <3>3
  <2> QED
    BY <1>2, <2>3 DEF RecordInv, neighbors
<1>14. DoneInv'
  <2>1. \A k \in Link : Len(delivered'[k]) > At(k)' <=> Len(delivered[k]) > At(k)
    <3> SUFFICES ASSUME NEW k \in Link
                 PROVE  Len(delivered'[k]) > At(k)' <=> Len(delivered[k]) > At(k)
      OBVIOUS
    <3>1. CASE k = l
      <4>1. Len(delivered[l]) + 1 = n /\ Len(delivered[l]) \in Nat
        BY Lengths DEF n
      <4> QED
        BY <1>1, <1>3, <1>7, <3>1, <4>1
    <3>2. CASE k # l
      BY <1>1, <1>7, <3>2
    <3> QED
      BY <3>1, <3>2
  <2> QED
    BY <1>2, <1>6, <1>7, <2>1, DoneKept
<1> QED
  BY <1>9, <1>10, <1>11, <1>12, <1>13, <1>14

\* One more marker has come to l[2].
LEMMA MarkerDone ==
  ASSUME SnapshotInv, TypeInv', ChannelInv', RecordInv', Forward,
         NEW l \in Link, Len(delivered[l]) = At(l), Len(delivered'[l]) = At(l) + 1,
         \A k \in Link \ {l} : delivered'[k] = delivered[k],
         \A k \in Link : At(k)' = At(k),
         cut'[l[2]] # <<>>, UNCHANGED record,
         snapshotCount' = [snapshotCount EXCEPT ![l[2]] = @ - 1],
         done' = IF snapshotCount[l[2]] = 1 THEN [done EXCEPT ![l[2]] = Append(@, record[l[2]])]
                                            ELSE done
  PROVE  DoneInv'
<1> DEFINE q == l[2]
<1> USE DEF SnapshotInv
<1>1. /\ q \in Process /\ l[1] \in neighbors(q) /\ l = <<l[1], q>>
      /\ At(l) \in Nat
  BY LinkEnds, Lengths
<1>2. /\ snapshotCount'[q] = snapshotCount[q] - 1
      /\ \A i \in Process \ {q} : snapshotCount'[i] = snapshotCount[i] /\ done'[i] = done[i]
      /\ snapshotCount[q] # 1 => done'[q] = done[q]
      /\ snapshotCount[q] = 1 => done'[q] = Append(done[q], record[q])
      /\ snapshotCount[q] \in Int
  BY <1>1 DEF TypeInv
<1>3. cut'[q] # <<>>
  OBVIOUS
<1> HIDE DEF q
<1>4. /\ Marked(q)' = Marked(q) \cup {l[1]} /\ l[1] \notin Marked(q)
      /\ \A i \in Process \ {q} : Marked(i)' = Marked(i)
  <2>1. \A i \in Process : \A p \in neighbors(i) :
          <<p, i>> \in Link /\ (<<p, i>> = l <=> p = l[1] /\ i = q)
    <3>1. \A i \in Process : \A p \in neighbors(i) : <<p, i>> \in Link
      BY LinkEnds
    <3>2. \A i, p : <<p, i>> = <<l[1], q>> <=> p = l[1] /\ i = q
      OBVIOUS
    <3> QED
      BY <1>1, <3>1, <3>2
  <2>2. ~ (Len(delivered[l]) > At(l)) /\ Len(delivered'[l]) > At(l)'
    BY <1>1
  <2>3. \A i \in Process : \A p \in neighbors(i) : <<p, i>> # l =>
          (Len(delivered'[<<p, i>>]) > At(<<p, i>>)' <=> Len(delivered[<<p, i>>]) > At(<<p, i>>))
    BY <2>1
  <2>4. Marked(q)' = Marked(q) \cup {l[1]} /\ l[1] \notin Marked(q)
    BY <1>1, <2>1, <2>2, <2>3 DEF Marked, neighbors
  <2>5. \A i \in Process \ {q} : Marked(i)' = Marked(i)
    BY <2>1, <2>3 DEF Marked, neighbors
  <2> QED
    BY <2>4, <2>5
<1>5. IsFiniteSet(neighbors(q)) /\ Cardinality(neighbors(q)) \in Nat
      /\ Marked(q) \subseteq neighbors(q)
  <2>1. IsFiniteSet(Process) /\ neighbors(q) \subseteq Process
    BY <1>1, SnapshotAssumption, LinkEnds
  <2> QED
    BY <2>1, FS_Subset, FS_CardinalityType DEF Marked
<1>6. IsFiniteSet(Marked(q)) /\ Cardinality(Marked(q)) \in Nat
      /\ IsFiniteSet(Marked(q)') /\ Cardinality(Marked(q)') = Cardinality(Marked(q)) + 1
  <2>1. IsFiniteSet(Marked(q)) /\ Cardinality(Marked(q)) \in Nat
    BY <1>5, FS_Subset, FS_CardinalityType
  <2>2. /\ IsFiniteSet(Marked(q) \cup {l[1]})
        /\ Cardinality(Marked(q) \cup {l[1]}) = Cardinality(Marked(q)) + 1
    BY <1>4, <2>1, FS_AddElement
  <2> QED
    BY <1>4, <2>1, <2>2
<1>7. snapshotCount'[q] = MarkersAwaited(q) - Cardinality(Marked(q)')
  <2>1. snapshotCount[q] = MarkersAwaited(q) - Cardinality(Marked(q))
    BY <1>1 DEF DoneInv
  <2>2. MarkersAwaited(q) \in Int
    BY <1>5 DEF MarkersAwaited
  <2> QED
    BY <1>2, <1>6, <2>1, <2>2
<1>8. ASSUME done'[q] # <<>>
      PROVE  snapshotCount'[q] <= 0 /\ Told(q)'
  <2>1. CASE snapshotCount[q] # 1
    <3>1. done[q] # <<>> /\ done'[q] = done[q]
      BY <1>2, <1>8, <2>1
    <3>2. snapshotCount[q] <= 0 /\ Told(q)
      BY <1>1, <3>1 DEF DoneInv
    <3>3. Told(q)'
      BY <1>1, <1>4, <3>1, <3>2, ToldStays
    <3> QED
      BY <1>2, <3>2, <3>3
  <2>2. CASE snapshotCount[q] = 1
    <3>1. done[q] = <<>> /\ done'[q] = <<record[q]>> /\ snapshotCount'[q] = 0
      <4>1. done[q] = <<>>
        BY <1>1, <2>2 DEF DoneInv
      <4> QED
        BY <1>2, <2>2, <4>1
    <3>2. Len(done'[q]) = 1 /\ done'[q][1] = record[q] /\ record' = record
      BY <3>1
    <3>3. Told(q)'
      BY <1>3, <3>2 DEF Told
    <3> QED
      BY <3>1, <3>3
  <2> QED
    BY <2>1, <2>2
<1>9. ASSUME NEW i \in Process \ {q}
      PROVE  /\ snapshotCount'[i] = MarkersAwaited(i) - Cardinality(Marked(i)')
             /\ done'[i] # <<>> => snapshotCount'[i] <= 0 /\ Told(i)'
  <2>1. /\ snapshotCount'[i] = snapshotCount[i] /\ done'[i] = done[i] /\ Marked(i)' = Marked(i)
        /\ record'[i] = record[i]
    BY <1>2, <1>4
  <2>2. Told(i) => Told(i)'
    BY <2>1, ToldStays
  <2> QED
    BY <2>1, <2>2 DEF DoneInv
<1> QED
  BY <1>7, <1>8, <1>9 DEF DoneInv, MarkersAwaited, neighbors

LEMMA ReceiveSnapshotStep ==
  ASSUME SnapshotInv, NEW l \in Link, NEW m, Takes(l, m), ReceiveSnapshot(l[2], m)
  PROVE  SnapshotInv'
<1> DEFINE q == l[2]
           c == AfterReceive(q, Clock(q), m.ts)
           d == AfterSend(q, c)
<1> USE DEF SnapshotInv
<1>1. /\ m \in Message /\ m.ts \in Stamp /\ Behind(World, m.ts)
      /\ delivered' \in [Link -> Seq(Message)]
      /\ Len(delivered'[l]) = Len(delivered[l]) + 1
      /\ \A k \in Link \ {l} : delivered'[k] = delivered[k]
      /\ Len(delivered[l]) = At(l) /\ MarkerOf(l, m)
  BY ReceptionStep DEF ReceiveSnapshot
<1>2. /\ q \in Process /\ l[1] \in neighbors(q) /\ l = <<l[1], q>>
      /\ At(l) \in Nat /\ Len(sent[l]) \in Nat /\ At(l) + 1 <= Len(sent[l])
  BY <1>1, LinkEnds, Lengths DEF Takes
<1>3. /\ snapshotCount' = [snapshotCount EXCEPT ![q] = @ - 1]
      /\ done' = IF snapshotCount[q] = 1 THEN [done EXCEPT ![q] = Append(@, record[q])] ELSE done
      /\ UNCHANGED record
      /\ \/ Turns(q, c) /\ SetClock(q, d)
         \/ /\ color[q] = "Red" /\ SetClock(q, c)
            /\ UNCHANGED <<color, cut, sent>>
  BY DEF ReceiveSnapshot, Turns
<1>4. snapshotCount' \in [Process -> Int] /\ done' \in [Process -> Seq(SUBSET Message)]
  <2>1. done[q] \in Seq(SUBSET Message) /\ record[q] \in SUBSET Message
    BY <1>2 DEF TypeInv
  <2>2. Append(done[q], record[q]) \in Seq(SUBSET Message)
    BY <2>1
  <2>3. snapshotCount' \in [Process -> Int]
    <3>1. snapshotCount \in [Process -> Int] /\ snapshotCount[q] - 1 \in Int
      BY <1>2 DEF TypeInv
    <3> QED
      BY <1>3, <3>1
  <2>4. [done EXCEPT ![q] = Append(done[q], record[q])] \in [Process -> Seq(SUBSET Message)]
    <3> DEFINE a == Append(done[q], record[q])
    <3> HIDE DEF a
    <3>1. a \in Seq(SUBSET Message) => [done EXCEPT ![q] = a] \in [Process -> Seq(SUBSET Message)]
      BY DEF TypeInv
    <3> QED
      BY <2>2, <3>1, Zenon DEF a
  <2>5. done \in [Process -> Seq(SUBSET Message)]
    BY DEF TypeInv
  <2> QED
    BY <1>3, <2>3, <2>4, <2>5, Zenon
<1>0. c = AfterReceive(q, Clock(q), m.ts) /\ d = AfterSend(q, c)
  OBVIOUS
<1> HIDE DEF c, d
<1>5. CASE Turns(q, c) /\ SetClock(q, d)
  <2>1. /\ c \in Stamp /\ d \in Stamp
        /\ Causal(World') /\ Kept /\ Behind(World', c) /\ Behind(World', d)
        /\ c.vc[q] = vc[q][q] + 1
        /\ \A r \in Process \ {q} : c.vc[r] = Larger(vc[q][r], m.ts.vc[r])
    BY <1>0, <1>1, <1>2, <1>5, ClockTwice
  <2>2. /\ lc' \in [Process -> Nat] /\ vc' \in [Process -> [Process -> Nat]]
        /\ past' \in [Process -> SUBSET EventOf]
        /\ \A r \in Process \ {q} : vc'[r] = vc[r]
    BY <1>2, <1>5, <2>1, SetClockStep, Zenon
  <2>3. AfterSend(q, c) = d
    BY DEF d
  <2> HIDE DEF q
  <2>4. /\ color' \in [Process -> {"White", "Red"}]
        /\ cut' = [i \in Process |-> cut'[i]]
        /\ \A i \in Process : cut'[i] # <<>> => cut'[i][1] \in Saved(i)
        /\ \A i \in Process \ {q} : cut'[i] = cut[i]
        /\ cut[q] = <<>> /\ cut'[q] # <<>> /\ cut'[q][1].clock = c
        /\ sent' \in [Link -> Seq(Message)]
        /\ \A k \in From(q) : /\ Len(sent'[k]) = Len(sent[k]) + 1
                              /\ sent'[k][Len(sent[k]) + 1] = Snapshot(q, d)
        /\ \A k \in Link \ From(q) : sent'[k] = sent[k]
        /\ Forward
        /\ \A k \in Link : At(k)' = At(k)
    BY <1>2, <1>5, <2>1, <2>3, TurnStep
  <2>5. Comes(q)
    <3>1. ASSUME NEW k \in Link
          PROVE  /\ Len(delivered[k]) <= Len(delivered'[k]) /\ Len(delivered'[k]) <= Len(sent[k])
                 /\ k[2] # q => delivered'[k] = delivered[k]
                 /\ \A i \in Len(delivered[k]) + 1 .. Len(delivered'[k]) : At(k) < i
      <4>1. CASE k = l
        BY <1>1, <1>2, <4>1 DEF q
      <4>2. CASE k # l
        <5>1. /\ delivered'[k] = delivered[k] /\ Len(delivered[k]) \in Nat
              /\ Len(delivered[k]) <= Len(sent[k])
          BY <1>1, <4>2, Lengths DEF ChannelInv
        <5> QED
          BY <5>1
      <4> QED
        BY <4>1, <4>2
    <3> QED
      BY <1>1, <3>1 DEF Comes
  <2>6. TypeInv'
    BY <1>1, <1>3, <1>4, <2>2, <2>4 DEF TypeInv, Saved, neighbors
  <2>7. ClockInv'
    <3>1. \A k \in Link : \A i \in 1 .. Len(sent'[k]) :
             \/ i \in 1 .. Len(sent[k]) /\ sent'[k][i] = sent[k][i]
             \/ Behind(World', sent'[k][i].ts)
      <4>1. \A k \in From(q) : sent'[k][Len(sent[k]) + 1].ts = d
        BY <2>4 DEF Snapshot
      <4>2. \A k \in Link : Len(sent[k]) \in Nat
        BY Lengths
      <4> QED
        BY <2>1, <2>4, <4>1, <4>2 DEF Forward
    <3>2. \A i \in Process : cut'[i] = cut[i] \/ Behind(World', cut'[i][1].clock)
      BY <2>1, <2>4
    <3> QED
      BY <2>1, <3>1, <3>2, ClockInvKept
  <2>8. ChannelInv'
    BY <1>2, <1>5, <2>1, <2>3, <2>5, TurnChannel
  <2>9. CutInv'
    <3>1. \A r \in Process : KnowsAtMost(c.vc, cut[r], r)
      <4>1. /\ cut[l[2]] = <<>>
            /\ \A r \in Process \ {l[2]} : c.vc[r] = Larger(vc[l[2]][r], m.ts.vc[r])
        BY <2>1, <2>4 DEF q
      <4> QED
        BY <1>1, <2>1, <4>1, ReceptionKnows
    <3>2. vc[q][q] <= c.vc[q]
      BY <1>2, <2>1 DEF TypeInv
    <3> QED
      BY <1>2, <1>5, <2>1, <2>2, <2>3, <3>1, <3>2, TurnCut
  <2>10. RecordInv'
    BY <1>2, <1>3, <1>5, <2>1, <2>3, <2>5, TurnRecord
  <2>11. DoneInv'
    BY <1>1, <1>3, <2>4, <2>6, <2>8, <2>10, MarkerDone DEF q
  <2> QED
    BY <2>6, <2>7, <2>8, <2>9, <2>10, <2>11
<1>6. CASE /\ color[q] = "Red" /\ SetClock(q, c)
           /\ UNCHANGED <<color, cut, sent>>
  <2>1. c \in Stamp /\ Causal(World') /\ Kept
    BY <1>0, <1>1, <1>2, <1>6, ClockStep
  <2>2. /\ lc' \in [Process -> Nat] /\ vc' \in [Process -> [Process -> Nat]]
        /\ past' \in [Process -> SUBSET EventOf]
        /\ \A r \in Process \ {q} : vc'[r] = vc[r]
    BY <1>2, <1>6, <2>1, SetClockStep, Zenon
  <2>3. cut[q] # <<>> /\ cut'[q] = cut[q]
    BY <1>2, <1>6 DEF ChannelInv
  <2>4. Forward /\ \A k \in Link : At(k)' = At(k)
    BY <1>6, Lengths DEF Forward, At
  <2>5. TypeInv'
    BY <1>1, <1>3, <1>4, <1>6, <2>2 DEF TypeInv, Saved, neighbors
  <2>6. ClockInv'
    BY <1>6, <2>1, ClockInvKept
  <2>7. ChannelInv'
    <3>1. ASSUME NEW k \in Link
          PROVE  /\ Len(delivered'[k]) <= Len(sent[k])
                 /\ cut[k[2]] = <<>> => Len(delivered'[k]) <= At(k)
                 /\ cut[k[2]] # <<>> => cut[k[2]][1].got[k[1]] <= Len(delivered'[k])
      <4>1. CASE k = l
        <5>1. cut[q][1].got[l[1]] <= At(l) /\ cut[q][1].got[l[1]] \in Nat
          BY <1>2, <2>3, Lengths DEF ChannelInv
        <5> QED
          BY <1>1, <1>2, <2>3, <4>1, <5>1
      <4>2. CASE k # l
        BY <1>1, <4>2 DEF ChannelInv
      <4> QED
        BY <4>1, <4>2
    <3>2. \A k \in Link : \A i \in 1 .. Len(sent[k]) : Marks(k, i)'
      BY <1>6, MarksKept
    <3> QED
      BY <1>6, <2>4, <3>1, <3>2 DEF ChannelInv
  <2>8. CutInv'
    BY <1>6, <2>2, <2>3, <2>4 DEF CutInv
  <2>9. RecordInv'
    <3>1. ASSUME NEW i \in Process, NEW r \in neighbors(i), cut[i] # <<>>
          PROVE  Late(r, i)' = Late(r, i)
      <4>1. CASE <<r, i>> # l
        BY <1>1, <2>4, <3>1, <4>1, LinkEnds, LateKept
      <4>2. CASE <<r, i>> = l
        <5>1. {k \in cut[i][1].got[r] + 1 .. At(l) + 1 : k <= At(l)}
                = {k \in cut[i][1].got[r] + 1 .. At(l) : k <= At(l)}
          BY <1>2, <3>1, Lengths
        <5>2. Late(r, i)' = {sent[l][k] : k \in {k \in cut[i][1].got[r] + 1 .. At(l) + 1 : k <= At(l)}}
          <6>1. /\ sent' = sent /\ cut' = cut /\ Len(delivered'[<<r, i>>]) = At(l) + 1
                /\ At(<<r, i>>)' = At(l)
            BY <1>1, <1>2, <1>6, <2>4, <4>2
          <6>2. Late(r, i)' = {sent'[<<r, i>>][k] : k \in {k \in cut'[i][1].got[r] + 1 ..
                                 Len(delivered'[<<r, i>>]) : k <= At(<<r, i>>)'}}
            BY DEF Late
          <6> QED
            BY <4>2, <6>1, <6>2
        <5>3. Late(r, i) = {sent[l][k] : k \in {k \in cut[i][1].got[r] + 1 .. At(l) : k <= At(l)}}
          BY <1>1, <4>2 DEF Late
        <5> QED
          BY <5>1, <5>2, <5>3
      <4> QED
        BY <4>1, <4>2
    <3>2. ASSUME NEW i \in Process, cut[i] # <<>>
          PROVE  {Late(r, i)' : r \in neighbors(i)} = {Late(r, i) : r \in neighbors(i)}
      BY <3>1, <3>2
    <3>3. ASSUME NEW i \in Process
          PROVE  record'[i] = IF cut'[i] = <<>> THEN {}
                              ELSE UNION {Late(r, i)' : r \in neighbors(i)}
      BY <1>3, <1>6, <3>2 DEF RecordInv
    <3> QED
      BY <3>3 DEF RecordInv, neighbors
  <2>10. DoneInv'
    BY <1>1, <1>3, <2>3, <2>4, <2>5, <2>7, <2>9, MarkerDone
  <2> QED
    BY <2>5, <2>6, <2>7, <2>8, <2>9, <2>10
<1> QED
  BY <1>3, <1>5, <1>6

-----------------------------------------------------------------------------
\* Nothing has happened.
LEMMA SnapshotInit ==
  ASSUME Init PROVE SnapshotInv
<1>1. /\ lc = [p \in Process |-> 0] /\ vc = [p \in Process |-> [q \in Process |-> 0]]
      /\ past = [p \in Process |-> {}]
      /\ color = [p \in Process |-> "White"] /\ record = [p \in Process |-> {}]
      /\ snapshotCount = [p \in Process |-> MarkersAwaited(p)]
      /\ cut = [p \in Process |-> <<>>] /\ done = [p \in Process |-> <<>>]
      /\ sent = [l \in Link |-> <<>>] /\ delivered = [l \in Link |-> <<>>]
  BY DEF Init, InitClocks, FIFO!Init
<1>2. \A p \in Process : MarkersAwaited(p) \in Int
  BY SnapshotAssumption, FS_Subset, FS_CardinalityType DEF MarkersAwaited, neighbors
<1>3. TypeInv
  BY <1>1, <1>2 DEF TypeInv
<1>4. World = [p \in Process |-> [lc |-> 0, vc |-> [q \in Process |-> 0], past |-> {}]]
  BY <1>1 DEF World, Clock
<1>5. \A p, q \in Process : Own(World, p, 0) = {} /\ World[p].vc[q] = 0 /\ World[p].past = {}
  BY <1>4 DEF Own
<1>6. \A p \in Process : Numbered(World, p) /\ Latest(World, p) /\ Behind(World, World[p])
  <2>1. ASSUME NEW p \in Process PROVE Numbered(World, p)
    BY <1>5, FS_EmptySet DEF Numbered
  <2>2. ASSUME NEW p \in Process PROVE Latest(World, p) /\ Behind(World, World[p])
    BY <1>5 DEF Latest, Behind
  <2> QED
    BY <2>1, <2>2
<1>7. ClockInv
  BY <1>1, <1>3, <1>6, WorldType DEF ClockInv, Causal
<1>8. \A l \in Link : Len(sent[l]) = 0 /\ Len(delivered[l]) = 0 /\ At(l) = 0
                      /\ cut[l[1]] = <<>> /\ cut[l[2]] = <<>>
  BY <1>1, LinkEnds DEF At
<1>9. ChannelInv
  BY <1>1, <1>8 DEF ChannelInv
<1>10. CutInv
  BY <1>1, <1>8 DEF CutInv, KnowsAtMost
<1>11. RecordInv
  BY <1>1 DEF RecordInv
<1>12. DoneInv
  <2>1. \A p \in Process : Marked(p) = {}
    <3>1. ASSUME NEW p \in Process, NEW q \in neighbors(p)
          PROVE  ~ (Len(delivered[<<q, p>>]) > At(<<q, p>>))
      <4>1. <<q, p>> \in Link
        BY LinkEnds
      <4>2. Len(delivered[<<q, p>>]) = 0 /\ At(<<q, p>>) = 0
        BY <1>8, <4>1
      <4> QED
        BY <4>2
    <3> QED
      BY <3>1 DEF Marked
  <2>2. \A p \in Process : MarkersAwaited(p) - Cardinality({}) = MarkersAwaited(p)
    BY <1>2, FS_EmptySet
  <2>3. \A p \in Process : snapshotCount[p] = MarkersAwaited(p) /\ done[p] = <<>>
    BY <1>1
  <2> QED
    BY <2>1, <2>2, <2>3 DEF DoneInv
<1> QED
  BY <1>3, <1>7, <1>9, <1>10, <1>11, <1>12 DEF SnapshotInv

LEMMA SnapshotStep ==
  ASSUME SnapshotInv, [Next]_vars PROVE SnapshotInv'
<1>1. ASSUME NEW p \in Process, Initiate(p) PROVE SnapshotInv'
  BY <1>1, InitiateStep
<1>2. ASSUME NEW p \in Process, Internal(p) PROVE SnapshotInv'
  BY <1>2, InternalStep
<1>3. ASSUME NEW l \in Link, SendMessage(l[1], l[2]) PROVE SnapshotInv'
  <2>1. l[1] \in Process /\ l[2] \in neighbors(l[1])
    BY LinkEnds
  <2> QED
    BY <1>3, <2>1, SendMessageStep
<1>4. ASSUME NEW l \in Link, Receive(l) PROVE SnapshotInv'
  <2>1. PICK m : Takes(l, m) /\ (ReceivePayload(l[2], m) \/ ReceiveSnapshot(l[2], m))
    BY <1>4 DEF Receive, Takes
  <2> QED
    BY <2>1, ReceivePayloadStep, ReceiveSnapshotStep
<1>5. CASE UNCHANGED vars
  <2>1. UNCHANGED <<lc, vc, past, color, record, snapshotCount, cut, done, sent, delivered>>
    BY <1>5 DEF vars, clockVars, snapVars
  <2>2. /\ World' = World /\ Kept /\ Forward
        /\ \A l \in Link : At(l)' = At(l) /\ delivered'[l] = delivered[l]
    BY <2>1 DEF World, Clock, Kept, Forward, At, SnapshotInv, TypeInv
  <2>3. TypeInv'
    BY <2>1 DEF SnapshotInv, TypeInv, Saved, neighbors
  <2>4. ClockInv'
    BY <2>1, <2>2 DEF SnapshotInv, ClockInv
  <2>5. ChannelInv'
    BY <2>1, <2>2, MarksKept DEF SnapshotInv, ChannelInv
  <2>6. CutInv'
    BY <2>1, <2>2 DEF SnapshotInv, CutInv
  <2>7. RecordInv'
    <3>1. ASSUME NEW q \in Process, NEW p \in neighbors(q) PROVE Late(p, q)' = Late(p, q)
      BY <2>1 DEF Late, At
    <3>2. ASSUME NEW q \in Process
          PROVE  {Late(p, q)' : p \in neighbors(q)} = {Late(p, q) : p \in neighbors(q)}
      BY <3>1
    <3>3. ASSUME NEW q \in Process
          PROVE  record'[q] = IF cut'[q] = <<>> THEN {}
                              ELSE UNION {Late(p, q)' : p \in neighbors(q)}
      BY <2>1, <3>2 DEF SnapshotInv, RecordInv
    <3> QED
      BY <3>3 DEF RecordInv, neighbors
  <2>8. DoneInv'
    BY <2>1, <2>2, DoneKept DEF SnapshotInv
  <2> QED
    BY <2>3, <2>4, <2>5, <2>6, <2>7, <2>8 DEF SnapshotInv
<1> QED
  BY <1>1, <1>2, <1>3, <1>4, <1>5 DEF Next

\* The clocks, the channels, the saved states and the records at any time.
THEOREM SnapshotInvariant == Spec => []SnapshotInv
<1>1. Init => SnapshotInv
  BY SnapshotInit
<1>2. SnapshotInv /\ [Next]_vars => SnapshotInv'
  BY SnapshotStep
<1> QED
  BY <1>1, <1>2, PTL DEF Spec

\* The vector clock of a process counts the events of every process that happened before
\* its state, and Lamport's clock is later than these: the first n events of a process are
\* n, and every stamp holds as many of them as it counts.
THEOREM ClocksAreCausalHolds == Spec => []ClocksAreCausal
<1>1. SnapshotInv => ClocksAreCausal
  <2> SUFFICES ASSUME SnapshotInv, NEW p \in Process
               PROVE  /\ \A q \in Process : vc[p][q] = Cardinality({e \in past[p] : e.process = q})
                      /\ \A e \in past[p] :
                           e.time < lc[p] \/ (e.process = p /\ e.rank = vc[p][p] /\ e.time = lc[p])
    BY DEF ClocksAreCausal
  <2>1. /\ Causal(World) /\ \A q \in Process : World[q] = Clock(q) /\ World[q] \in Stamp
    BY WorldType DEF SnapshotInv, ClockInv
  <2>2. \A q \in Process : World[q].vc = vc[q] /\ World[q].past = past[q] /\ World[q].lc = lc[q]
    <3> TAKE q \in Process
    <3>1. Clock(q) = [lc |-> lc[q], vc |-> vc[q], past |-> past[q]]
      BY DEF Clock
    <3> QED
      BY <2>1, <3>1
  <2>3. ASSUME NEW q \in Process PROVE vc[p][q] = Cardinality({e \in past[p] : e.process = q})
    <3>1. vc[p][q] \in 0 .. World[q].vc[q]
      BY <2>1, <2>2 DEF Causal, Behind, Stamp
    <3>2. {e \in past[p] : e.process = q} = Own(World, q, vc[p][q])
      BY <2>1, <2>2 DEF Causal, Behind
    <3>3. Cardinality(Own(World, q, vc[p][q])) = vc[p][q]
      BY <2>1, <3>1 DEF Causal, Numbered
    <3> QED
      BY <3>2, <3>3
  <2>4. Latest(World, p)
    BY <2>1 DEF Causal
  <2> QED
    BY <2>2, <2>3, <2>4 DEF Latest
<1> QED
  BY <1>1, SnapshotInvariant, PTL

\* The saved states form a consistent cut, however many processes initiate the snapshot:
\* nothing of what is done after a state is saved reaches a process that has not saved its
\* own, but for the markers.
THEOREM ConsistentCutHolds == Spec => []ConsistentCut
<1>1. SnapshotInv => ConsistentCut
  BY DEF SnapshotInv, CutInv, KnowsAtMost, ConsistentCut
<1> QED
  BY <1>1, SnapshotInvariant, PTL

\* What q has recorded was on its way to it across the cut.
LEMMA LateIsCrossing ==
  ASSUME SnapshotInv, NEW q \in Process, cut[q] # <<>>, NEW p \in neighbors(q)
  PROVE  /\ Late(p, q) \subseteq Crossing(p, q)
         /\ MarkerCame(p, q) => Crossing(p, q) \subseteq Late(p, q)
<1> USE DEF SnapshotInv
<1> DEFINE link == <<p, q>>
           first == cut[q][1].got[p] + 1
<1>1. /\ p \in Process /\ link \in Link /\ Len(sent[link]) \in Nat
      /\ Len(delivered[link]) \in Nat /\ At(link) \in Nat
      /\ Len(delivered[link]) <= Len(sent[link])
      /\ cut[q][1].got[p] \in Nat
  BY LinkEnds, Lengths DEF ChannelInv
<1>2. \A k \in 1 .. Len(sent[link]) : Marks(link, k)
  BY <1>1 DEF ChannelInv
<1>3. Crossing(p, q) = {m \in {sent[link][k] : k \in first .. At(link)} : m.type = "Payload"}
  BY DEF Crossing, At
<1>4. Late(p, q) = {sent[link][k] : k \in {k \in first .. Len(delivered[link]) : k <= At(link)}}
  BY DEF Late
<1> HIDE DEF link, first
<1>5. first \in Nat \ {0}
  BY <1>1 DEF first
<1>6. Late(p, q) \subseteq Crossing(p, q)
  <2>1. ASSUME NEW k \in first .. Len(delivered[link]), k <= At(link)
        PROVE  k \in first .. At(link) /\ sent[link][k].type = "Payload"
    <3>1. k \in 1 .. Len(sent[link]) /\ k \in first .. At(link)
      BY <1>1, <1>5, <2>1
    <3> QED
      BY <1>2, <2>1, <3>1 DEF Marks
  <2> QED
    BY <1>3, <1>4, <2>1
<1>7. ASSUME MarkerCame(p, q) PROVE Crossing(p, q) \subseteq Late(p, q)
  <2>1. PICK k \in 1 .. Len(delivered[link]) : sent[link][k].type = "Snapshot"
    BY <1>7 DEF MarkerCame, link
  <2>2. At(link) < Len(delivered[link])
    <3>1. k \in 1 .. Len(sent[link])
      BY <1>1, <2>1
    <3>2. k = At(link) + 1
      BY <1>2, <2>1, <3>1 DEF Marks
    <3> QED
      BY <1>1, <3>2
  <2>3. \A i \in first .. At(link) : i \in first .. Len(delivered[link]) /\ i <= At(link)
    BY <1>1, <1>5, <2>2
  <2> QED
    BY <1>3, <1>4, <2>3
<1> QED
  BY <1>6, <1>7

\* A process records nothing but what was on its way to it across the cut, and all of that
\* in the channels whose markers have come; SnapshotDone is delivered at most once, with
\* such a record.
THEOREM RecordIsExactHolds == Spec => []RecordIsExact
<1>1. SnapshotInv => RecordIsExact
  <2> SUFFICES ASSUME SnapshotInv, NEW q \in Process
               PROVE  /\ Len(done[q]) <= 1
                      /\ done[q] # <<>> => cut[q] # <<>> /\ done[q][1] \subseteq record[q]
                      /\ cut[q] = <<>> => record[q] = {}
                      /\ cut[q] # <<>> =>
                           /\ record[q] \subseteq UNION {Crossing(p, q) : p \in neighbors(q)}
                           /\ \A p \in neighbors(q) :
                                MarkerCame(p, q) => Crossing(p, q) \subseteq record[q]
    BY DEF RecordIsExact
  <2>1. /\ Len(done[q]) <= 1
        /\ done[q] # <<>> => cut[q] # <<>> /\ done[q][1] \subseteq record[q]
    <3>1. done[q] # <<>> => Told(q)
      BY DEF SnapshotInv, DoneInv
    <3>2. done[q] = <<>> => Len(done[q]) <= 1
      OBVIOUS
    <3>3. done[q] # <<>> => Len(done[q]) <= 1
      <4>1. done[q] # <<>> => Len(done[q]) = 1
        BY <3>1, Zenon DEF Told
      <4>2. 1 <= 1
        OBVIOUS
      <4> QED
        BY <4>1, <4>2, Zenon
    <3> QED
      BY <3>1, <3>2, <3>3, Zenon DEF Told
  <2>2. cut[q] = <<>> => record[q] = {}
    BY DEF SnapshotInv, RecordInv
  <2>3. ASSUME cut[q] # <<>>
        PROVE  /\ record[q] \subseteq UNION {Crossing(p, q) : p \in neighbors(q)}
               /\ \A p \in neighbors(q) : MarkerCame(p, q) => Crossing(p, q) \subseteq record[q]
    <3>1. record[q] = UNION {Late(p, q) : p \in neighbors(q)}
      BY <2>3 DEF SnapshotInv, RecordInv
    <3>2. \A p \in neighbors(q) : /\ Late(p, q) \subseteq Crossing(p, q)
                                  /\ MarkerCame(p, q) => Crossing(p, q) \subseteq Late(p, q)
      BY <2>3, LateIsCrossing
    <3> QED
      BY <3>1, <3>2
  <2> QED
    BY <2>1, <2>2, <2>3
<1> QED
  BY <1>1, SnapshotInvariant, PTL

\* Between two processes, or at the end of any branch, the snapshot never ends: where only one
\* marker is awaited snapshotCount is 0 at first, and SnapshotDone is not delivered.
NeverTold == \A q \in Process : Cardinality(neighbors(q)) = 1 => done[q] = <<>>

THEOREM NeverToldHolds == Spec => []NeverTold
<1>1. Init => NeverTold
  BY DEF Init, NeverTold
<1>2. ASSUME SnapshotInv, NeverTold, [Next]_vars PROVE NeverTold'
  <2> SUFFICES ASSUME NEW q \in Process, Cardinality(neighbors(q)) = 1 PROVE done'[q] = <<>>
    BY DEF NeverTold, neighbors
  <2>1. done[q] = <<>>
    BY <1>2 DEF NeverTold
  <2>2. snapshotCount[q] # 1
    <3>1. neighbors(q) \subseteq Process /\ IsFiniteSet(Process)
      BY SnapshotAssumption DEF neighbors
    <3>2. Marked(q) \subseteq neighbors(q) /\ IsFiniteSet(neighbors(q))
      BY <3>1, FS_Subset DEF Marked
    <3>3. Cardinality(Marked(q)) \in Nat
      BY <3>2, FS_Subset, FS_CardinalityType
    <3>4. snapshotCount[q] = (1 - 1) - Cardinality(Marked(q))
      BY <1>2 DEF SnapshotInv, DoneInv, MarkersAwaited
    <3> QED
      BY <3>3, <3>4
  <2>3. done \in [Process -> Seq(SUBSET Message)]
    BY <1>2 DEF SnapshotInv, TypeInv
  <2>4. \/ done' = done
        \/ \E l \in Link : done' = IF snapshotCount[l[2]] = 1
                                   THEN [done EXCEPT ![l[2]] = Append(@, record[l[2]])] ELSE done
    BY <1>2 DEF Next, Initiate, Internal, SendMessage, Receive, ReceivePayload, ReceiveSnapshot,
                snapVars, vars
  <2> QED
    BY <2>1, <2>2, <2>3, <2>4
<1> QED
  BY <1>1, <1>2, SnapshotInvariant, PTL DEF Spec

-----------------------------------------------------------------------------
(* Active clients save a consistent cut.  Their steps are steps of            *)
(* ChandyLamport or leave it alone, so that SnapshotInv holds; ClientInv adds *)
(* that whatever is before SaveState in the queue of a client, or has been    *)
(* received before it, had arrived at the cut.                                *)

Tokens   == [type : {"Token"}, from : Process, token : Nat \ {0}]
EventSet == Tokens \cup {SaveState, SnapshotDone}

ClientTypes ==
  /\ queue \in [Process -> Seq(EventSet)]
  /\ received \in [Process -> SUBSET Tokens]
  /\ saved = [p \in Process |-> saved[p]]

\* A message in e has been delivered to the protocol of p, at all or before its cut.
Arrived(p, e, D) ==
  e.type = "Token" => e.from \in neighbors(p) /\ e.token <= Len(D[<<e.from, p>>])

Early(e, c) == e.type = "Token" => e.token <= c[1].got[e.from]

QueueOK(p) ==
  /\ \A e \in received[p] : Arrived(p, e, delivered)
  /\ \A i \in 1 .. Len(queue[p]) : Arrived(p, queue[p][i], delivered)
  /\ \A j \in 1 .. Len(queue[p]) : queue[p][j].type = "SaveState" =>
       /\ cut[p] # <<>>
       /\ \A e \in received[p] : Early(e, cut[p])
       /\ \A i \in 1 .. j - 1 : Early(queue[p][i], cut[p])

SavedOK(p) ==
  saved[p] # <<>> =>
    /\ cut[p] # <<>>
    /\ \A e \in saved[p][1].got : e \in Tokens /\ Early(e, cut[p])
    /\ \A q \in neighbors(p) : 1 .. cut[p][1].put[q] \subseteq saved[p][1].put[q]

ClientInv == ClientTypes /\ \A p \in Process : QueueOK(p) /\ SavedOK(p)

-----------------------------------------------------------------------------
LEMMA EventTypes ==
  /\ \A e \in EventSet : /\ e.type \in {"Token", "SaveState", "SnapshotDone"}
                         /\ e.type = "Token" => e \in Tokens
  /\ SaveState \in EventSet /\ SnapshotDone \in EventSet
  /\ SaveState.type = "SaveState" /\ SnapshotDone.type = "SnapshotDone"
BY DEF EventSet, Tokens, SaveState, SnapshotDone

LEMMA Concatenation ==
  ASSUME NEW S, NEW s \in Seq(S), NEW t \in Seq(S)
  PROVE  /\ s \o t \in Seq(S) /\ Len(s \o t) = Len(s) + Len(t)
         /\ \A i \in 1 .. Len(s) : (s \o t)[i] = s[i]
         /\ \A i \in 1 .. Len(t) : (s \o t)[Len(s) + i] = t[i]
OBVIOUS

\* Nothing that has arrived is taken back.
LEMMA StepBehind ==
  ASSUME SnapshotInv, [Next]_vars
  PROVE  \A l \in Link : Len(delivered[l]) <= Len(delivered'[l])
<1>1. ASSUME NEW p \in Process, Initiate(p) \/ Internal(p) PROVE delivered' = delivered
  BY <1>1 DEF Initiate, Internal, FIFO!Send
<1>2. ASSUME NEW l \in Link, SendMessage(l[1], l[2]) PROVE delivered' = delivered
  BY <1>2 DEF SendMessage, FIFO!Send
<1>3. ASSUME NEW l \in Link, Receive(l)
      PROVE  \A k \in Link : Len(delivered[k]) <= Len(delivered'[k])
  <2>1. PICK m : Takes(l, m)
    BY <1>3 DEF Receive, Takes
  <2>2. /\ Len(delivered'[l]) = Len(delivered[l]) + 1
        /\ \A k \in Link \ {l} : delivered'[k] = delivered[k]
    BY <2>1, ReceptionStep DEF SnapshotInv
  <2>3. \A k \in Link : Len(delivered[k]) \in Nat
    BY Lengths DEF SnapshotInv
  <2> QED
    BY <2>2, <2>3
<1>4. \A l \in Link : Len(delivered[l]) \in Nat
  BY Lengths DEF SnapshotInv
<1> QED
  BY <1>1, <1>2, <1>3, <1>4 DEF Next, vars

LEMMA ArrivedStays ==
  ASSUME SnapshotInv, [Next]_vars, NEW p \in Process
  PROVE  \A e \in EventSet : Arrived(p, e, delivered) => Arrived(p, e, delivered')
<1> SUFFICES ASSUME NEW e \in EventSet, Arrived(p, e, delivered), e.type = "Token" PROVE Arrived(p, e, delivered')
  BY DEF Arrived
<1>1. e.token \in Nat /\ e.from \in neighbors(p) /\ e.token <= Len(delivered[<<e.from, p>>])
  BY EventTypes DEF Arrived, Tokens
<1>2. <<e.from, p>> \in Link
  BY <1>1, LinkEnds
<1>3. SnapshotInv'
  BY SnapshotStep
<1>4. Len(delivered[<<e.from, p>>]) <= Len(delivered'[<<e.from, p>>])
  BY <1>2, StepBehind
<1>5. Len(delivered[<<e.from, p>>]) \in Nat /\ Len(delivered'[<<e.from, p>>]) \in Nat
  BY <1>2, <1>3, Lengths DEF SnapshotInv, TypeInv
<1>6. e.token <= Len(delivered'[<<e.from, p>>])
  BY <1>1, <1>4, <1>5
<1> QED
  BY <1>1, <1>6 DEF Arrived, neighbors

\* What the protocol delivers to the client of p when it goes on as before.
LEMMA DeliverStep ==
  ASSUME SnapshotInv, [Next]_vars, ClientTypes, NEW p \in Process, QueueOK(p), SavedOK(p),
         NEW es \in Seq(EventSet), queue'[p] = queue[p] \o es,
         received'[p] = received[p], saved'[p] = saved[p], cut'[p] = cut[p],
         \A i \in 1 .. Len(es) : Arrived(p, es[i], delivered') /\ es[i].type # "SaveState"
  PROVE  QueueOK(p)' /\ SavedOK(p)'
<1> DEFINE s == queue[p]
<1>1. /\ s \in Seq(EventSet) /\ received[p] \subseteq EventSet
      /\ \A i \in 1 .. Len(s) : s[i] \in EventSet
  BY DEF ClientTypes, EventSet
<1>2. /\ queue'[p] = s \o es /\ Len(queue'[p]) = Len(s) + Len(es)
      /\ Len(s) \in Nat /\ Len(es) \in Nat
      /\ \A i \in 1 .. Len(s) : queue'[p][i] = s[i]
      /\ \A i \in 1 .. Len(es) : queue'[p][Len(s) + i] = es[i]
  BY <1>1, Concatenation
<1>3. ASSUME NEW e PROVE Early(e, cut'[p]) <=> Early(e, cut[p])
  OBVIOUS
<1>4. SavedOK(p)'
  BY <1>3 DEF SavedOK, neighbors
<1>5. /\ \A e \in received[p] : Arrived(p, e, delivered')
      /\ \A i \in 1 .. Len(s) : Arrived(p, s[i], delivered')
  BY <1>1, ArrivedStays DEF QueueOK
<1>6. \A i \in 1 .. Len(queue'[p]) :
        \/ i \in 1 .. Len(s) /\ queue'[p][i] = s[i]
        \/ \E k \in 1 .. Len(es) : queue'[p][i] = es[k]
  <2> TAKE i \in 1 .. Len(queue'[p])
  <2>1. i \in 1 .. Len(s) \/ i - Len(s) \in 1 .. Len(es)
    BY <1>2
  <2>2. Len(s) + (i - Len(s)) = i
    BY <1>2
  <2> QED
    BY <1>2, <2>1, <2>2
<1>7. \A i \in 1 .. Len(queue'[p]) : Arrived(p, queue'[p][i], delivered')
  <2> TAKE i \in 1 .. Len(queue'[p])
  <2>1. CASE i \in 1 .. Len(s) /\ queue'[p][i] = s[i]
    BY <1>5, <2>1 DEF Arrived
  <2>2. ASSUME NEW k \in 1 .. Len(es), queue'[p][i] = es[k] PROVE Arrived(p, queue'[p][i], delivered')
    BY <2>2 DEF Arrived
  <2> QED
    BY <1>6, <2>1, <2>2
<1>8. ASSUME NEW j \in 1 .. Len(queue'[p]), queue'[p][j].type = "SaveState"
      PROVE  /\ cut'[p] # <<>>
             /\ \A e \in received[p] : Early(e, cut[p])
             /\ \A i \in 1 .. j - 1 : Early(queue'[p][i], cut[p])
  <2>1. j \in 1 .. Len(s) /\ s[j].type = "SaveState"
    BY <1>6, <1>8
  <2>2. \A i \in 1 .. j - 1 : queue'[p][i] = s[i]
    BY <1>2, <2>1
  <2>3. /\ cut[p] # <<>>
        /\ \A e \in received[p] : Early(e, cut[p])
        /\ \A i \in 1 .. j - 1 : Early(s[i], cut[p])
    BY <2>1 DEF QueueOK
  <2> QED
    BY <2>2, <2>3
<1>9. QueueOK(p)'
  BY <1>3, <1>5, <1>7, <1>8 DEF QueueOK
<1> QED
  BY <1>4, <1>9

\* What the protocol delivers to the client of p at its cut: SaveState comes first.
LEMMA CutStep ==
  ASSUME SnapshotInv, [Next]_vars, ClientTypes, NEW p \in Process, QueueOK(p), SavedOK(p),
         NEW es \in Seq(EventSet), queue'[p] = queue[p] \o es,
         received'[p] = received[p], saved'[p] = saved[p],
         cut[p] = <<>>, cut'[p] # <<>>,
         \A q \in neighbors(p) : cut'[p][1].got[q] = Len(delivered[<<q, p>>]),
         \A i \in 1 .. Len(es) : /\ es[i].type # "Token"
                                 /\ es[i].type = "SaveState" => i = 1
  PROVE  QueueOK(p)' /\ SavedOK(p)'
<1> DEFINE s == queue[p]
<1>1. /\ s \in Seq(EventSet) /\ received[p] \subseteq EventSet
      /\ \A i \in 1 .. Len(s) : s[i] \in EventSet
  BY DEF ClientTypes, EventSet
<1>2. /\ queue'[p] = s \o es /\ Len(queue'[p]) = Len(s) + Len(es)
      /\ Len(s) \in Nat /\ Len(es) \in Nat
      /\ \A i \in 1 .. Len(s) : queue'[p][i] = s[i]
      /\ \A i \in 1 .. Len(es) : queue'[p][Len(s) + i] = es[i]
  BY <1>1, Concatenation
<1>3. saved[p] = <<>> /\ \A i \in 1 .. Len(s) : s[i].type # "SaveState"
  BY DEF QueueOK, SavedOK
<1>4. SavedOK(p)'
  BY <1>3 DEF SavedOK
<1>5. /\ \A e \in received[p] : Arrived(p, e, delivered')
      /\ \A i \in 1 .. Len(s) : Arrived(p, s[i], delivered')
  BY <1>1, ArrivedStays DEF QueueOK
<1>6. ASSUME NEW e \in EventSet, Arrived(p, e, delivered) PROVE Early(e, cut'[p])
  BY <1>6 DEF Arrived, Early
<1>7. \A i \in 1 .. Len(queue'[p]) :
        \/ i \in 1 .. Len(s) /\ queue'[p][i] = s[i]
        \/ i \in Len(s) + 1 .. Len(queue'[p]) /\ i - Len(s) \in 1 .. Len(es)
             /\ queue'[p][i] = es[i - Len(s)]
  <2> TAKE i \in 1 .. Len(queue'[p])
  <2>1. i \in 1 .. Len(s) \/ i - Len(s) \in 1 .. Len(es)
    BY <1>2
  <2>2. Len(s) + (i - Len(s)) = i
    BY <1>2
  <2> QED
    BY <1>2, <2>1, <2>2
<1>8. \A i \in 1 .. Len(queue'[p]) : Arrived(p, queue'[p][i], delivered')
  BY <1>5, <1>7 DEF Arrived
<1>9. ASSUME NEW j \in 1 .. Len(queue'[p]), queue'[p][j].type = "SaveState"
      PROVE  /\ cut'[p] # <<>>
             /\ \A e \in received[p] : Early(e, cut'[p])
             /\ \A i \in 1 .. j - 1 : Early(queue'[p][i], cut'[p])
  <2>1. j - Len(s) \in 1 .. Len(es) /\ queue'[p][j] = es[j - Len(s)]
    BY <1>3, <1>7, <1>9
  <2>2. j = Len(s) + 1
    BY <1>2, <1>9, <2>1
  <2>3. \A i \in 1 .. j - 1 : i \in 1 .. Len(s) /\ queue'[p][i] = s[i]
    BY <1>2, <2>2
  <2>4. \A i \in 1 .. j - 1 : Early(queue'[p][i], cut'[p])
    BY <1>1, <1>6, <2>3 DEF QueueOK
  <2>5. \A e \in received[p] : Early(e, cut'[p])
    BY <1>1, <1>6 DEF QueueOK
  <2> QED
    BY <2>4, <2>5
<1>10. QueueOK(p)'
  BY <1>5, <1>8, <1>9 DEF QueueOK
<1> QED
  BY <1>4, <1>10

\* What the client receives when it saves its state had arrived at the cut.
LEMMA ReceiveStep ==
  ASSUME SnapshotInv, ClientInv, NEW p \in Process, ClientReceives(p)
  PROVE  ClientTypes' /\ QueueOK(p)' /\ SavedOK(p)'
<1> DEFINE s == queue[p]
           e == Head(s)
<1>1. /\ s \in Seq(EventSet) /\ s # <<>> /\ received[p] \subseteq Tokens
      /\ e = s[1] /\ e \in EventSet /\ Tail(s) \in Seq(EventSet)
      /\ Len(s) \in Nat \ {0} /\ Len(Tail(s)) = Len(s) - 1
      /\ \A i \in 1 .. Len(s) - 1 : Tail(s)[i] = s[i + 1]
  BY DEF ClientReceives, ClientInv, ClientTypes
<1>2. /\ queue' = [queue EXCEPT ![p] = Tail(s)] /\ queue'[p] = Tail(s)
      /\ UNCHANGED <<cut, delivered, sent>>
  BY DEF ClientReceives, NextEvent, ClientInv, ClientTypes, vars, snapVars
<1>3. \/ /\ e.type = "Token"
         /\ received' = [received EXCEPT ![p] = @ \cup {e}]
         /\ saved' = saved
      \/ /\ e.type = "SaveState"
         /\ saved' = [saved EXCEPT ![p] = <<[put |-> Sent(p), got |-> received[p]]>>]
         /\ received' = received
      \/ e.type = "SnapshotDone" /\ received' = received /\ saved' = saved
  BY DEF ClientReceives, NextEvent
<1>4. ClientTypes'
  <2>1. queue' \in [Process -> Seq(EventSet)]
    BY <1>1, <1>2 DEF ClientInv, ClientTypes
  <2>2. received' \in [Process -> SUBSET Tokens]
    <3>1. received \in [Process -> SUBSET Tokens]
      BY DEF ClientInv, ClientTypes
    <3>2. e.type = "Token" => received[p] \cup {e} \in SUBSET Tokens
      BY <1>1, EventTypes
    <3> HIDE DEF e
    <3> QED
      BY <1>3, <3>1, <3>2
  <2>3. saved' = [q \in Process |-> saved'[q]]
    <3>1. saved = [q \in Process |-> saved[q]]
      BY DEF ClientInv, ClientTypes
    <3> QED
      BY <1>3, <3>1
  <2> QED
    BY <2>1, <2>2, <2>3 DEF ClientTypes
<1>5. /\ \A r \in received[p] : Arrived(p, r, delivered)
      /\ \A i \in 1 .. Len(s) : Arrived(p, s[i], delivered)
      /\ \A j \in 1 .. Len(s) : s[j].type = "SaveState" =>
           /\ cut[p] # <<>>
           /\ \A r \in received[p] : Early(r, cut[p])
           /\ \A i \in 1 .. j - 1 : Early(s[i], cut[p])
  BY DEF ClientInv, QueueOK
<1>6. received'[p] \subseteq received[p] \cup {e}
  BY <1>3 DEF ClientInv, ClientTypes
<1> HIDE DEF s, e
<1>7. QueueOK(p)'
  <2>1. \A r \in received'[p] : Arrived(p, r, delivered)
    BY <1>1, <1>5, <1>6
  <2>2. \A i \in 1 .. Len(Tail(s)) : i + 1 \in 1 .. Len(s) /\ Tail(s)[i] = s[i + 1]
    BY <1>1
  <2>3. \A i \in 1 .. Len(Tail(s)) : Arrived(p, Tail(s)[i], delivered)
    BY <1>5, <2>2
  <2>4. ASSUME NEW j \in 1 .. Len(Tail(s)), Tail(s)[j].type = "SaveState"
        PROVE  /\ cut[p] # <<>>
               /\ \A r \in received'[p] : Early(r, cut[p])
               /\ \A i \in 1 .. j - 1 : Early(Tail(s)[i], cut[p])
    <3>1. j + 1 \in 1 .. Len(s) /\ s[j + 1].type = "SaveState" /\ j \in Nat \ {0}
      BY <1>1, <2>2, <2>4
    <3>2. /\ cut[p] # <<>>
          /\ \A r \in received[p] : Early(r, cut[p])
          /\ \A i \in 1 .. j : Early(s[i], cut[p])
      <4>1. (j + 1) - 1 = j
        BY <3>1
      <4> QED
        BY <1>5, <3>1, <4>1
    <3>3. Early(e, cut[p])
      BY <1>1, <3>1, <3>2
    <3>4. \A i \in 1 .. j - 1 : i + 1 \in 1 .. j /\ i \in 1 .. Len(Tail(s))
      BY <1>1, <2>4
    <3> QED
      BY <1>6, <2>2, <3>2, <3>3, <3>4
  <2> QED
    BY <1>2, <2>1, <2>3, <2>4 DEF QueueOK
<1>8. SavedOK(p)'
  <2>1. SavedOK(p)
    BY DEF ClientInv
  <2>2. CASE saved'[p] = saved[p]
    BY <1>2, <2>1, <2>2 DEF SavedOK, neighbors
  <2>3. CASE e.type = "SaveState" /\ saved'[p] = <<[put |-> Sent(p), got |-> received[p]]>>
    <3>1. cut[p] # <<>> /\ \A r \in received[p] : r \in Tokens /\ Early(r, cut[p])
      BY <1>1, <1>5, <2>3
    <3>2. ASSUME NEW q \in neighbors(p) PROVE 1 .. cut[p][1].put[q] \subseteq Sent(p)[q]
      <4>1. /\ <<p, q>> \in Link /\ At(<<p, q>>) = cut[p][1].put[q] /\ At(<<p, q>>) \in Nat
            /\ At(<<p, q>>) < Len(sent[<<p, q>>]) /\ Len(sent[<<p, q>>]) \in Nat
        BY <3>1, LinkEnds, Lengths DEF SnapshotInv, ChannelInv, At
      <4>2. DOMAIN sent[<<p, q>>] = 1 .. Len(sent[<<p, q>>])
        BY <4>1 DEF SnapshotInv, TypeInv
      <4>3. ASSUME NEW k \in 1 .. At(<<p, q>>)
            PROVE  k \in DOMAIN sent[<<p, q>>] /\ sent[<<p, q>>][k].type = "Payload"
        <5>1. k \in 1 .. Len(sent[<<p, q>>]) /\ k <= At(<<p, q>>)
          BY <4>1
        <5>2. Marks(<<p, q>>, k)
          BY <4>1, <5>1 DEF SnapshotInv, ChannelInv
        <5> QED
          BY <4>2, <5>1, <5>2 DEF Marks
      <4> QED
        BY <4>1, <4>3 DEF Sent
    <3> QED
      BY <1>2, <2>3, <3>1, <3>2 DEF SavedOK, neighbors
  <2> QED
    BY <1>3, <2>2, <2>3 DEF ClientInv, ClientTypes
<1> QED
  BY <1>4, <1>7, <1>8

LEMMA OthersStep ==
  ASSUME SnapshotInv, [Next]_vars, ClientInv, NEW p \in Process, cut'[p] = cut[p],
         queue'[p] = queue[p], received'[p] = received[p], saved'[p] = saved[p]
  PROVE  QueueOK(p)' /\ SavedOK(p)'
<1>1. queue[p] \in Seq(EventSet)
  BY DEF ClientInv, ClientTypes
<1> DEFINE es == <<>>
<1>2. queue[p] = queue[p] \o es /\ es \in Seq(EventSet) /\ Len(es) = 0
  BY <1>1
<1> HIDE DEF es
<1>3. \A i \in 1 .. Len(es) : Arrived(p, es[i], delivered') /\ es[i].type # "SaveState"
  BY <1>2
<1>4. ClientTypes /\ QueueOK(p) /\ SavedOK(p) /\ queue'[p] = queue[p] \o es
  BY <1>2 DEF ClientInv
<1> QED
  BY <1>2, <1>3, <1>4, DeliverStep

\* Appending es to the queue of p, when only the queues of the clients change.
LEMMA DeliverTypes ==
  ASSUME ClientTypes, NEW p \in Process, NEW es \in Seq(EventSet), deliver(p, es),
         UNCHANGED <<received, saved, returned>>
  PROVE  /\ ClientTypes' /\ received' = received /\ saved' = saved
         /\ queue'[p] = queue[p] \o es
         /\ \A q \in Process \ {p} : queue'[q] = queue[q]
<1>1. queue \in [Process -> Seq(EventSet)]
  BY DEF ClientTypes
<1>2. queue[p] \o es \in Seq(EventSet)
  BY <1>1, Concatenation
<1>3. queue' = [queue EXCEPT ![p] = queue[p] \o es]
  BY DEF deliver
<1> QED
  BY <1>1, <1>2, <1>3 DEF ClientTypes

LEMMA ActiveInitiateStep ==
  ASSUME SnapshotInv, ClientInv, NEW p \in Process, ActiveInitiate(p) PROVE ClientInv'
<1>1. [Next]_vars /\ Initiate(p)
  BY DEF ActiveInitiate, Next
<1> DEFINE es == <<SaveState>>
<1>2. es \in Seq(EventSet) /\ Len(es) = 1 /\ es[1] = SaveState
  BY EventTypes
<1>3. deliver(p, es) /\ UNCHANGED <<received, saved, returned>>
  BY DEF ActiveInitiate
<1> HIDE DEF es
<1>4. /\ ClientTypes' /\ received' = received /\ saved' = saved
      /\ queue'[p] = queue[p] \o es /\ \A q \in Process \ {p} : queue'[q] = queue[q]
  BY <1>2, <1>3, DeliverTypes DEF ClientInv
<1>5. cut = [q \in Process |-> cut[q]] /\ cut' = [cut EXCEPT ![p] = Local(p, Clock(p))]
  BY <1>1 DEF SnapshotInv, TypeInv, Initiate
<1>6. cut[p] = <<>> /\ cut'[p] = Local(p, Clock(p)) /\ \A q \in Process \ {p} : cut'[q] = cut[q]
  BY <1>1, <1>5 DEF SnapshotInv, ChannelInv, Initiate
<1>7. cut'[p] # <<>> /\ \A q \in neighbors(p) : cut'[p][1].got[q] = Len(delivered[<<q, p>>])
  BY <1>6 DEF Local
<1>8. \A i \in 1 .. Len(es) : es[i].type # "Token" /\ (es[i].type = "SaveState" => i = 1)
  BY <1>2, EventTypes
<1>9. QueueOK(p)' /\ SavedOK(p)'
  BY <1>1, <1>2, <1>4, <1>6, <1>7, <1>8, CutStep DEF ClientInv
<1>10. \A q \in Process \ {p} : QueueOK(q)' /\ SavedOK(q)'
  BY <1>1, <1>4, <1>6, OthersStep
<1> QED
  BY <1>4, <1>9, <1>10 DEF ClientInv

LEMMA ActiveSendStep ==
  ASSUME SnapshotInv, ClientInv,
         \/ \E l \in Link : ActiveSend(l[1], l[2])
         \/ \E p \in Process : ActiveInternal(p)
  PROVE  ClientInv'
<1>1. [Next]_vars /\ cut' = cut /\ UNCHANGED clientVars
  BY DEF ActiveSend, ActiveInternal, Next, SendMessage, Internal, snapVars
<1>2. \A p \in Process : QueueOK(p)' /\ SavedOK(p)'
  BY <1>1, OthersStep DEF clientVars
<1>3. ClientTypes'
  BY <1>1 DEF ClientInv, ClientTypes, clientVars
<1> QED
  BY <1>2, <1>3 DEF ClientInv

LEMMA ActiveReceiveStep ==
  ASSUME SnapshotInv, ClientInv, NEW l \in Link, ActiveReceive(l) PROVE ClientInv'
<1> DEFINE k  == Len(delivered[l]) + 1
           q  == l[2]
           es == Delivers(l)
<1>1. [Next]_vars /\ Receive(l) /\ deliver(q, es) /\ UNCHANGED <<received, saved, returned>>
  BY DEF ActiveReceive, Next
<1>2. q \in Process /\ l[1] \in neighbors(q) /\ l[1] \in Process /\ l = <<l[1], q>>
  BY LinkEnds
<1>3. PICK m : Takes(l, m) /\ (ReceivePayload(q, m) \/ ReceiveSnapshot(q, m))
  BY <1>1 DEF Receive, Takes
<1>4. /\ k \in Nat \ {0} /\ Len(delivered'[l]) = k /\ m = sent[l][k]
  <2>1. Len(delivered[l]) \in Nat
    BY Lengths DEF SnapshotInv
  <2>2. Len(delivered'[l]) = Len(delivered[l]) + 1
    BY <1>3, ReceptionStep DEF SnapshotInv
  <2> QED
    BY <1>3, <2>1, <2>2 DEF Takes
<1>5. /\ m.type = "Payload" => es = <<Token(l[1], k)>>
      /\ m.type = "Snapshot" =>
           es = (IF color[q] = "White" THEN <<SaveState>> ELSE <<>>)
                  \o (IF snapshotCount[q] = 1 THEN <<SnapshotDone>> ELSE <<>>)
  BY <1>4 DEF Delivers
<1>6. Token(l[1], k) \in Tokens /\ Token(l[1], k) \in EventSet
  BY <1>2, <1>4 DEF Token, Tokens, EventSet
<1>7. m.type \in {"Payload", "Snapshot"}
  BY <1>3 DEF ReceivePayload, ReceiveSnapshot
<1> HIDE DEF es, q, k
<1>8. /\ es \in Seq(EventSet)
      /\ m.type = "Payload" => Len(es) = 1 /\ es[1] = Token(l[1], k)
      /\ m.type = "Snapshot" => \A i \in 1 .. Len(es) :
           /\ es[i].type # "Token"
           /\ es[i].type = "SaveState" => i = 1 /\ color[q] = "White"
  <2>1. CASE m.type = "Payload"
    <3>1. es = <<Token(l[1], k)>>
      BY <1>5, <2>1
    <3> QED
      BY <1>6, <2>1, <3>1
  <2>2. CASE m.type = "Snapshot"
    <3> DEFINE none == <<>>
               save == <<SaveState>>
               end  == <<SnapshotDone>>
    <3>1. /\ none \in Seq(EventSet) /\ save \in Seq(EventSet) /\ end \in Seq(EventSet)
          /\ Len(none) = 0 /\ Len(save) = 1 /\ Len(end) = 1
          /\ save[1] = SaveState /\ end[1] = SnapshotDone
      BY EventTypes
    <3>2. PICK s \in {none, save}, t \in {none, end} :
            es = s \o t /\ (s = save => color[q] = "White")
      BY <1>5, <2>2
    <3> HIDE DEF none, save, end
    <3>3. /\ es \in Seq(EventSet) /\ Len(es) = Len(s) + Len(t)
          /\ \A i \in 1 .. Len(s) : es[i] = s[i]
          /\ \A i \in 1 .. Len(t) : es[Len(s) + i] = t[i]
      <4>1. s \in Seq(EventSet) /\ t \in Seq(EventSet)
        BY <3>1, <3>2
      <4>2. /\ s \o t \in Seq(EventSet) /\ Len(s \o t) = Len(s) + Len(t)
            /\ \A i \in 1 .. Len(s) : (s \o t)[i] = s[i]
            /\ \A i \in 1 .. Len(t) : (s \o t)[Len(s) + i] = t[i]
        BY <4>1, Concatenation
      <4> QED
        BY <3>2, <4>2
    <3>4. ASSUME NEW i \in 1 .. Len(es)
          PROVE  \/ es[i] = SaveState /\ i = 1 /\ color[q] = "White"
                 \/ es[i] = SnapshotDone
      <4>1. CASE i \in 1 .. Len(s)
        <5>1. s = save /\ i = 1
          BY <3>1, <3>2, <4>1
        <5> QED
          BY <3>1, <3>2, <3>3, <4>1, <5>1
      <4>2. CASE i \notin 1 .. Len(s)
        <5>1. Len(s) \in Nat /\ Len(t) \in Nat
          BY <3>1, <3>2
        <5>2. i - Len(s) \in 1 .. Len(t) /\ Len(s) + (i - Len(s)) = i
          BY <3>3, <4>2, <5>1
        <5>3. t = end /\ i - Len(s) = 1
          BY <3>1, <3>2, <5>2
        <5> QED
          BY <3>1, <3>3, <5>2, <5>3
      <4> QED
        BY <4>1, <4>2
    <3> QED
      BY <2>2, <3>3, <3>4, EventTypes
  <2> QED
    BY <1>7, <2>1, <2>2
<1>9. /\ ClientTypes' /\ received' = received /\ saved' = saved
      /\ queue'[q] = queue[q] \o es /\ \A p \in Process \ {q} : queue'[p] = queue[p]
  BY <1>1, <1>2, <1>8, DeliverTypes DEF ClientInv
<1>10. cut = [p \in Process |-> cut[p]] /\ (color[q] = "White" <=> cut[q] = <<>>)
  BY <1>2 DEF SnapshotInv, TypeInv, ChannelInv
<1>11. CASE m.type = "Payload" \/ color[q] # "White"
  <2>1. cut' = cut
    BY <1>3, <1>11 DEF ReceivePayload, ReceiveSnapshot
  <2>2. \A i \in 1 .. Len(es) : Arrived(q, es[i], delivered') /\ es[i].type # "SaveState"
    <3>1. CASE m.type = "Payload"
      <4>1. Token(l[1], k).type = "Token" /\ Token(l[1], k).from = l[1] /\ Token(l[1], k).token = k
        BY DEF Token
      <4>2. l[1] \in neighbors(q) /\ k <= Len(delivered'[<<l[1], q>>])
        BY <1>2, <1>4
      <4>3. Arrived(q, Token(l[1], k), delivered')
        BY <4>1, <4>2 DEF Arrived
      <4>4. ASSUME NEW i \in 1 .. Len(es) PROVE es[i] = Token(l[1], k)
        <5>1. Len(es) = 1 /\ es[1] = Token(l[1], k)
          BY <1>8, <3>1
        <5>2. i = 1
          BY <5>1
        <5> QED
          BY <5>1, <5>2
      <4> QED
        BY <4>1, <4>3, <4>4
    <3>2. CASE m.type = "Snapshot"
      BY <1>8, <1>11, <3>2 DEF Arrived
    <3> QED
      BY <1>7, <3>1, <3>2
  <2>3. QueueOK(q)' /\ SavedOK(q)'
    BY <1>1, <1>2, <1>8, <1>9, <2>1, <2>2, DeliverStep DEF ClientInv
  <2>4. \A p \in Process \ {q} : QueueOK(p)' /\ SavedOK(p)'
    BY <1>1, <1>9, <2>1, OthersStep
  <2> QED
    BY <1>9, <2>3, <2>4 DEF ClientInv
<1>12. CASE m.type = "Snapshot" /\ color[q] = "White"
  <2>1. PICK c : cut' = [cut EXCEPT ![q] = Local(q, c)]
    BY <1>3, <1>12 DEF ReceivePayload, ReceiveSnapshot
  <2>2. cut[q] = <<>> /\ cut'[q] = Local(q, c) /\ \A p \in Process \ {q} : cut'[p] = cut[p]
    BY <1>2, <1>10, <1>12, <2>1
  <2>3. cut'[q] # <<>> /\ \A p \in neighbors(q) : cut'[q][1].got[p] = Len(delivered[<<p, q>>])
    BY <2>2 DEF Local
  <2>4. QueueOK(q)' /\ SavedOK(q)'
    BY <1>1, <1>2, <1>8, <1>9, <1>12, <2>2, <2>3, CutStep DEF ClientInv
  <2>5. \A p \in Process \ {q} : QueueOK(p)' /\ SavedOK(p)'
    BY <1>1, <1>9, <2>2, OthersStep
  <2> QED
    BY <1>9, <2>4, <2>5 DEF ClientInv
<1> QED
  BY <1>7, <1>11, <1>12

LEMMA ClientReceivesStep ==
  ASSUME SnapshotInv, ClientInv, NEW p \in Process, ClientReceives(p) PROVE ClientInv'
<1>1. ClientTypes' /\ QueueOK(p)' /\ SavedOK(p)'
  BY ReceiveStep
<1>2. UNCHANGED vars /\ cut' = cut
  BY DEF ClientReceives, vars, snapVars
<1>3. ASSUME NEW q \in Process \ {p} PROVE QueueOK(q)' /\ SavedOK(q)'
  <2>1. queue'[q] = queue[q]
    BY DEF ClientReceives, ClientInv, ClientTypes
  <2>2. received'[q] = received[q] /\ saved'[q] = saved[q]
    BY DEF ClientReceives, ClientInv, ClientTypes
  <2> QED
    BY <1>2, <2>1, <2>2, OthersStep
<1> QED
  BY <1>1, <1>3 DEF ClientInv

LEMMA ActiveStep ==
  ASSUME SnapshotInv, ClientInv, [ActiveNext]_activeVars PROVE SnapshotInv' /\ ClientInv'
<1>1. [Next]_vars
  BY DEF ActiveNext, ActiveInitiate, ActiveSend, ActiveInternal, ActiveReceive, ClientReceives, Next, activeVars
<1>2. SnapshotInv'
  BY <1>1, SnapshotStep
<1>3. CASE UNCHANGED activeVars
  <2>1. cut' = cut /\ UNCHANGED clientVars
    BY <1>3 DEF activeVars, vars, snapVars
  <2>2. \A p \in Process : QueueOK(p)' /\ SavedOK(p)'
    BY <1>1, <2>1, OthersStep DEF clientVars
  <2>3. ClientTypes'
    BY <2>1 DEF ClientInv, ClientTypes, clientVars
  <2> QED
    BY <1>2, <2>2, <2>3 DEF ClientInv
<1> QED
  BY <1>2, <1>3, ActiveInitiateStep, ActiveSendStep, ActiveReceiveStep, ClientReceivesStep
  DEF ActiveNext

LEMMA ActiveInitial == ActiveInit => SnapshotInv /\ ClientInv
<1> SUFFICES ASSUME ActiveInit PROVE SnapshotInv /\ ClientInv
  OBVIOUS
<1>1. SnapshotInv
  BY SnapshotInit DEF ActiveInit
<1>2. ClientTypes
  <2>1. <<>> \in Seq(EventSet)
    OBVIOUS
  <2> QED
    BY <2>1 DEF ActiveInit, ClientTypes
<1>3. \A p \in Process : QueueOK(p) /\ SavedOK(p)
  BY DEF ActiveInit, QueueOK, SavedOK
<1> QED
  BY <1>1, <1>2, <1>3 DEF ClientInv

LEMMA ActiveInvariant == ActiveSpec => [](SnapshotInv /\ ClientInv)
BY ActiveInitial, ActiveStep, PTL DEF ActiveSpec

-----------------------------------------------------------------------------
\* Below active clients the protocol goes on as it does alone: a client adds no behaviour.
THEOREM ImplementsSnapshot == ActiveSpec => Spec
<1>1. ActiveInit => Init
  BY DEF ActiveInit
<1>2. [ActiveNext]_activeVars => [Next]_vars
  BY DEF ActiveNext, ActiveInitiate, ActiveSend, ActiveInternal, ActiveReceive, ClientReceives, Next, activeVars
<1> QED
  BY <1>1, <1>2, PTL DEF ActiveSpec, Spec

\* The states that active clients save form a consistent cut: SaveState comes in the queue
\* before every message that arrived after the cut, and after all that the client sent before.
THEOREM NoOrphansHolds == ActiveSpec => []NoOrphans
<1>1. SnapshotInv /\ ClientInv => NoOrphans
  <2> SUFFICES ASSUME SnapshotInv, ClientInv, NEW p \in Process, NEW q \in neighbors(p),
                      saved[p] # <<>>, saved[q] # <<>>,
                      NEW m \in saved[p][1].got, m.from = q
               PROVE  m.token \in saved[q][1].put[p]
    BY DEF NoOrphans
  <2>1. <<q, p>> \in Link /\ q \in Process /\ p \in neighbors(q)
    BY LinkEnds
  <2>2. cut[p] # <<>> /\ m \in Tokens /\ Early(m, cut[p])
    BY DEF ClientInv, SavedOK
  <2>3. cut[q] # <<>> /\ 1 .. cut[q][1].put[p] \subseteq saved[q][1].put[p]
    BY <2>1 DEF ClientInv, SavedOK
  <2>4. m.type = "Token" /\ m.token \in Nat \ {0} /\ m.token <= cut[p][1].got[q]
    BY <2>2 DEF Tokens, Early
  <2>5. cut[p][1].got[q] <= At(<<q, p>>) /\ At(<<q, p>>) = cut[q][1].put[p]
    BY <2>1, <2>2, <2>3 DEF SnapshotInv, ChannelInv, At
  <2>6. cut[p][1].got[q] \in Nat /\ cut[q][1].put[p] \in Nat
    BY <2>1, <2>2, <2>3, Lengths DEF SnapshotInv
  <2>7. m.token \in 1 .. cut[q][1].put[p]
    BY <2>4, <2>5, <2>6
  <2> QED
    BY <2>3, <2>7
<1> QED
  BY <1>1, ActiveInvariant, PTL
=============================================================================
