---------------------------- MODULE RoundsProofs ----------------------------
(***************************************************************************)
(* Rounds are whole, in step, and a crash is final: for any number of        *)
(* processes and of rounds, below each of the four stacks of protocols.       *)
(***************************************************************************)
EXTENDS Rounds, FiniteSetTheorems, SequenceTheorems, TLAPS

-----------------------------------------------------------------------------
(* What the client sends in one round, in one message or in two.              *)

\* A fold over a sequence takes its elements from the left.
Fold(s, ms, g) ==
  g = [t \in SUBSET (DOMAIN ms) |-> IF t = {} THEN s ELSE OnSend(g[t \ {Max(t)}], ms[Max(t)])]

theFold(s, ms) == CHOOSE g : Fold(s, ms, g)

Sent(s, ms) == FoldLeft(OnSend, s, ms)

LEMMA FoldIs ==
  ASSUME NEW s, NEW ms
  PROVE  Sent(s, ms) = theFold(s, ms)[DOMAIN ms]
BY DEF Sent, FoldLeft, MapThenFoldSet, Fold, theFold

\* A solution of its equation, whatever it is, makes the fold another one.
LEMMA FoldComputes ==
  ASSUME NEW s, NEW ms, NEW h, Fold(s, ms, h)
  PROVE  \A t \in SUBSET (DOMAIN ms) :
           theFold(s, ms)[t]
             = IF t = {} THEN s ELSE OnSend(theFold(s, ms)[t \ {Max(t)}], ms[Max(t)])
<1>1. Fold(s, ms, theFold(s, ms))
  BY DEF theFold
<1> QED
  BY <1>1 DEF Fold

LEMMA MaxIs == Max({1}) = 1 /\ Max({2}) = 2 /\ Max({1, 2}) = 2
BY DEF Max

LEMMA FoldNone == ASSUME NEW s PROVE Sent(s, <<>>) = s
<1>1. DOMAIN <<>> = {} /\ SUBSET {} = {{}}
  OBVIOUS
<1>2. Fold(s, <<>>, [t \in SUBSET (DOMAIN <<>>) |-> s])
  BY <1>1 DEF Fold
<1>3. theFold(s, <<>>)[{}] = s
  BY <1>1, <1>2, FoldComputes
<1> QED
  BY <1>1, <1>3, FoldIs

LEMMA FoldOne == ASSUME NEW s, NEW m PROVE Sent(s, <<m>>) = OnSend(s, m)
<1> DEFINE ms == <<m>>
           h == [t \in SUBSET (DOMAIN ms) |-> IF t = {} THEN s ELSE OnSend(s, m)]
<1>1. DOMAIN ms = {1} /\ ms[1] = m
  OBVIOUS
<1>2. /\ {1} # {} /\ {1} \ {1} = {}
      /\ \A t \in SUBSET {1} : t = {} \/ t = {1}
  OBVIOUS
<1> HIDE DEF ms
<1>3. h[{}] = s /\ h[{1}] = OnSend(s, m)
  BY <1>1, <1>2
<1>4. \A t \in SUBSET {1} :
        (IF t = {} THEN s ELSE OnSend(s, m))
          = IF t = {} THEN s ELSE OnSend(h[t \ {Max(t)}], ms[Max(t)])
  <2> HIDE DEF h
  <2>1. OnSend(s, m) = OnSend(h[{1} \ {Max({1})}], ms[Max({1})])
    BY <1>1, <1>2, <1>3, MaxIs
  <2> QED
    BY <2>1, <1>2
<1>5. Fold(s, ms, h)
  BY <1>1, <1>4 DEF Fold
<1> HIDE DEF h
<1>6. \A t \in SUBSET (DOMAIN ms) :
         theFold(s, ms)[t] =
           IF t = {} THEN s ELSE OnSend(theFold(s, ms)[t \ {Max(t)}], ms[Max(t)])
  BY <1>5, FoldComputes
<1>7. theFold(s, ms)[{}] = s
  BY <1>1, <1>6
<1>8. theFold(s, ms)[{1}] = OnSend(theFold(s, ms)[{}], m)
  BY <1>1, <1>2, <1>6, MaxIs
<1> QED
  BY <1>1, <1>7, <1>8, FoldIs DEF ms

LEMMA FoldTwo ==
  ASSUME NEW s, NEW m, NEW n
  PROVE  Sent(s, <<m, n>>) = OnSend(OnSend(s, m), n)
<1> DEFINE ms == <<m, n>>
           V(t) == IF t = {} THEN s
                   ELSE IF t = {1} THEN OnSend(s, m)
                   ELSE IF t = {2} THEN OnSend(s, n) ELSE OnSend(OnSend(s, m), n)
           h == [t \in SUBSET (DOMAIN ms) |-> V(t)]
<1>1. DOMAIN ms = {1, 2} /\ ms[1] = m /\ ms[2] = n
  OBVIOUS
<1>2. /\ {1} \ {1} = {} /\ {2} \ {2} = {} /\ {1, 2} \ {2} = {1}
      /\ {1} # {} /\ {2} # {} /\ {1, 2} # {} /\ {1} # {2} /\ {1, 2} # {1} /\ {1, 2} # {2}
      /\ {1} \in SUBSET {1, 2} /\ {2} \in SUBSET {1, 2} /\ {1, 2} \in SUBSET {1, 2}
  OBVIOUS
<1>3. \A t \in SUBSET {1, 2} : t = {} \/ t = {1} \/ t = {2} \/ t = {1, 2}
  OBVIOUS
<1> HIDE DEF ms
<1>4. /\ V({}) = s /\ V({1}) = OnSend(s, m) /\ V({2}) = OnSend(s, n)
      /\ V({1, 2}) = OnSend(OnSend(s, m), n)
  BY <1>2
<1> HIDE DEF V
<1>5. h[{}] = s /\ h[{1}] = OnSend(s, m)
  BY <1>1, <1>2, <1>4
<1>6. \A t \in SUBSET {1, 2} :
        V(t) = IF t = {} THEN s ELSE OnSend(h[t \ {Max(t)}], ms[Max(t)])
  <2> HIDE DEF h
  <2>1. OnSend(s, m) = OnSend(h[{1} \ {Max({1})}], ms[Max({1})])
    BY <1>1, <1>2, <1>5, MaxIs
  <2>2. OnSend(s, n) = OnSend(h[{2} \ {Max({2})}], ms[Max({2})])
    BY <1>1, <1>2, <1>5, MaxIs
  <2>3. OnSend(OnSend(s, m), n) = OnSend(h[{1, 2} \ {Max({1, 2})}], ms[Max({1, 2})])
    BY <1>1, <1>2, <1>5, MaxIs
  <2> QED
    BY <2>1, <2>2, <2>3, <1>2, <1>3, <1>4
<1>7. Fold(s, ms, h)
  BY <1>1, <1>6 DEF Fold
<1> HIDE DEF h
<1>8. \A t \in SUBSET (DOMAIN ms) :
         theFold(s, ms)[t] =
           IF t = {} THEN s ELSE OnSend(theFold(s, ms)[t \ {Max(t)}], ms[Max(t)])
  BY <1>7, FoldComputes
<1>9. theFold(s, ms)[{}] = s
  BY <1>1, <1>8
<1>10. theFold(s, ms)[{1}] = OnSend(theFold(s, ms)[{}], m)
  BY <1>1, <1>2, <1>8, MaxIs
<1>11. theFold(s, ms)[{1, 2}] = OnSend(theFold(s, ms)[{1}], n)
  BY <1>1, <1>2, <1>8, MaxIs
<1> QED
  BY <1>1, <1>9, <1>10, <1>11, FoldIs DEF ms

\* So does the sum of what the messages of a batch are for.
Counted(B, g) ==
  g = [t \in SUBSET B |->
         IF t = {} THEN 0
         ELSE Cardinality((CHOOSE x \in t : TRUE).to) + g[t \ {CHOOSE x \in t : TRUE}]]

LEMMA CompleteIs ==
  ASSUME NEW B
  PROVE  Complete(B) <=> (CHOOSE g : Counted(B, g))[B] = Cardinality(ALL)
BY DEF Complete, MapThenSumSet, MapThenFoldSet, Counted

LEMMA CountOne ==
  ASSUME NEW m, Cardinality(m.to) \in Nat
  PROVE  Complete({m}) <=> Cardinality(m.to) = Cardinality(ALL)
<1> DEFINE B == {m}
           h == [t \in SUBSET B |-> IF t = {} THEN 0 ELSE Cardinality(m.to)]
           g == CHOOSE f : Counted(B, f)
<1>1. \A t \in SUBSET B : t = {} \/ t = B
  OBVIOUS
<1>2. B # {} /\ B \ {m} = {} /\ (CHOOSE x \in B : TRUE) = m
  OBVIOUS
<1> HIDE DEF B
<1>0. Complete(B) <=> g[B] = Cardinality(ALL)
  BY CompleteIs
<1>3. h[{}] = 0
  OBVIOUS
<1>4. \A t \in SUBSET B :
        (IF t = {} THEN 0 ELSE Cardinality(m.to))
          = IF t = {} THEN 0
            ELSE Cardinality((CHOOSE x \in t : TRUE).to) + h[t \ {CHOOSE x \in t : TRUE}]
  <2> DEFINE one(t) == CHOOSE x \in t : TRUE
  <2>1. one(B) = m
    BY <1>2
  <2> HIDE DEF h, one
  <2>2. Cardinality(one(B).to) + h[B \ {one(B)}] = Cardinality(m.to)
    <3>1. one(B).to = m.to /\ B \ {one(B)} = {}
      BY <1>2, <2>1
    <3>2. Cardinality(m.to) + h[{}] = Cardinality(m.to)
      BY <1>3
    <3> QED
      BY <3>1, <3>2
  <2>3. \A t \in SUBSET B :
          (IF t = {} THEN 0 ELSE Cardinality(m.to))
            = IF t = {} THEN 0 ELSE Cardinality(one(t).to) + h[t \ {one(t)}]
    BY <1>1, <1>2, <2>2
  <2> QED
    BY <2>3 DEF one
<1>5. Counted(B, h)
  BY <1>4 DEF Counted
<1> HIDE DEF h
<1>6. Counted(B, g)
  BY <1>5
<1> HIDE DEF g
<1>7. g[{}] = 0
  BY <1>6 DEF Counted
<1>8. g[B] = Cardinality(m.to) + g[{}]
  BY <1>6, <1>2 DEF Counted
<1> QED
  BY <1>0, <1>7, <1>8 DEF B

LEMMA CountTwo ==
  ASSUME NEW m, NEW n, m # n, Cardinality(m.to) \in Nat, Cardinality(n.to) \in Nat
  PROVE  Complete({m, n}) <=> Cardinality(m.to) + Cardinality(n.to) = Cardinality(ALL)
<1> DEFINE B == {m, n}
           V(t) == IF t = {} THEN 0
                   ELSE IF t = {m} THEN Cardinality(m.to)
                   ELSE IF t = {n} THEN Cardinality(n.to)
                   ELSE Cardinality(m.to) + Cardinality(n.to)
           h == [t \in SUBSET B |-> V(t)]
           g == CHOOSE f : Counted(B, f)
           one(t) == CHOOSE x \in t : TRUE
<1>1. \A t \in SUBSET B : t = {} \/ t = {m} \/ t = {n} \/ t = B
  OBVIOUS
<1>2. /\ B # {} /\ {m} # {} /\ {n} # {} /\ {m} # {n} /\ {m} # B /\ {n} # B
      /\ B \ {m} = {n} /\ B \ {n} = {m} /\ {m} \ {m} = {} /\ {n} \ {n} = {}
      /\ one({m}) = m /\ one({n}) = n /\ one(B) \in {m, n}
      /\ {m} \in SUBSET B /\ {n} \in SUBSET B /\ B \in SUBSET B /\ {} \in SUBSET B
  OBVIOUS
<1> HIDE DEF B
<1>0. Complete(B) <=> g[B] = Cardinality(ALL)
  BY CompleteIs
<1>3. /\ V({}) = 0 /\ V({m}) = Cardinality(m.to) /\ V({n}) = Cardinality(n.to)
      /\ V(B) = Cardinality(m.to) + Cardinality(n.to)
  BY <1>2
<1> HIDE DEF V, one
<1>4. h[{}] = 0 /\ h[{m}] = Cardinality(m.to) /\ h[{n}] = Cardinality(n.to)
  BY <1>2, <1>3
<1>5. \A t \in SUBSET B :
        V(t) = IF t = {} THEN 0 ELSE Cardinality(one(t).to) + h[t \ {one(t)}]
  <2> HIDE DEF h
  <2> DEFINE sum(t, x) == Cardinality(x.to) + h[t \ {x}]
  <2>0. /\ sum({m}, m) = Cardinality(m.to) /\ sum({n}, n) = Cardinality(n.to)
        /\ sum(B, m) = V(B) /\ sum(B, n) = V(B)
    <3>1. sum({m}, m) = Cardinality(m.to) + h[{}] /\ sum({n}, n) = Cardinality(n.to) + h[{}]
      BY <1>2
    <3>2. sum(B, m) = Cardinality(m.to) + h[{n}] /\ sum(B, n) = Cardinality(n.to) + h[{m}]
      BY <1>2
    <3> HIDE DEF sum, h
    <3> QED
      BY <3>1, <3>2, <1>3, <1>4
  <2> HIDE DEF sum
  <2>1. V({m}) = sum({m}, one({m}))
    BY <1>2, <1>3, <2>0
  <2>2. V({n}) = sum({n}, one({n}))
    BY <1>2, <1>3, <2>0
  <2>3. V(B) = sum(B, one(B))
    BY <1>2, <2>0
  <2>4. \A t \in SUBSET B : V(t) = IF t = {} THEN 0 ELSE sum(t, one(t))
    BY <1>1, <1>2, <1>3, <2>1, <2>2, <2>3
  <2> QED
    BY <2>4 DEF sum
<1>6. Counted(B, h)
  BY <1>5 DEF Counted, one
<1> HIDE DEF h
<1>7. Counted(B, g)
  BY <1>6
<1> HIDE DEF g
<1>8. \A t \in SUBSET B : g[t] = IF t = {} THEN 0 ELSE Cardinality(one(t).to) + g[t \ {one(t)}]
  BY <1>7 DEF Counted, one
<1> DEFINE sum(t, x) == Cardinality(x.to) + g[t \ {x}]
<1>9. \A t \in SUBSET B : g[t] = IF t = {} THEN 0 ELSE sum(t, one(t))
  BY <1>8
<1>10. g[B] = Cardinality(m.to) + Cardinality(n.to)
  <2>1. sum({m}, m) = Cardinality(m.to) + g[{}] /\ sum({n}, n) = Cardinality(n.to) + g[{}]
    BY <1>2
  <2>2. sum(B, m) = Cardinality(m.to) + g[{n}] /\ sum(B, n) = Cardinality(n.to) + g[{m}]
    BY <1>2
  <2> HIDE DEF sum
  <2>3. g[{}] = 0
    BY <1>2, <1>9
  <2>4. g[{m}] = Cardinality(m.to) /\ g[{n}] = Cardinality(n.to)
    BY <1>2, <1>9, <2>1, <2>3
  <2>5. g[B] = sum(B, m) \/ g[B] = sum(B, n)
    BY <1>2, <1>9
  <2> QED
    BY <2>2, <2>4, <2>5
<1> QED
  BY <1>0, <1>10 DEF B

-----------------------------------------------------------------------------
(* The messages of a round leave together, and the next round of sending begins.  *)

Fresh(n) == [sendRound |-> n, sendBatch |-> {}, out |-> {}]

\* p has sent W: it goes to the network, and p is left with the round n of sending.
Sends(p, n, inFlight, W) ==
  /\ sender' = [sender EXCEPT ![p] = Fresh(n)]
  /\ network' = inFlight \cup W

LEMMA SendIs ==
  ASSUME NEW p, NEW ms, NEW inFlight, Send(p, ms, inFlight), NEW n, NEW out,
         Sent(sender[p], ms) = [sendRound |-> n, sendBatch |-> {}, out |-> out]
  PROVE  Sends(p, n, inFlight, out)
<1> DEFINE s == Sent(sender[p], ms)
<1>1. sender' = [sender EXCEPT ![p] = [s EXCEPT !.out = {}]] /\ network' = inFlight \cup s.out
  BY Zenon DEF Send, Sent
<1>2. [s EXCEPT !.out = {}] = Fresh(n) /\ s.out = out
  BY DEF Fresh
<1> HIDE DEF s
<1> QED
  BY <1>1, <1>2 DEF Sends

LEMMA InPackets ==
  ASSUME NEW M, NEW r
  PROVE  \A k : k \in Packets(M, r) <=>
           \E a \in M : \E q \in ALL : q \in a.to /\ k = Packet(a, r, q)
<1> TAKE k
<1>1. ASSUME k \in Packets(M, r)
      PROVE  \E a \in M : \E q \in ALL : q \in a.to /\ k = Packet(a, r, q)
  <2>1. PICK x \in M \X ALL : x[2] \in x[1].to /\ k = Packet(x[1], r, x[2])
    BY <1>1 DEF Packets
  <2> QED
    BY <2>1
<1>2. ASSUME NEW a \in M, NEW q \in ALL, q \in a.to, k = Packet(a, r, q)
      PROVE  k \in Packets(M, r)
  <2>1. <<a, q>> \in {y \in M \X ALL : y[2] \in y[1].to}
    BY <1>2
  <2>2. k = Packet(<<a, q>>[1], r, <<a, q>>[2])
    BY <1>2
  <2> QED
    BY <2>1, <2>2 DEF Packets
<1> QED
  BY <1>1, <1>2

\* One message to all processes,
LEMMA SendOne ==
  ASSUME NEW p \in ALL, NEW n \in Nat, sender[p] = Fresh(n), IsFiniteSet(ALL),
         NEW a, a.to = ALL, NEW inFlight, Send(p, <<a>>, inFlight)
  PROVE  Sends(p, n + 1, inFlight, Packets({a}, n))
<1>1. Complete({a})
  BY CountOne, FS_CardinalityType
<1>2. OnSend(Fresh(n), a) = [sendRound |-> n + 1, sendBatch |-> {}, out |-> Packets({a}, n)]
  BY <1>1 DEF OnSend, Fresh
<1>3. Sent(sender[p], <<a>>) = OnSend(Fresh(n), a)
  BY FoldOne
<1> QED
  BY <1>2, <1>3, SendIs

\* or two messages, to some of them and to the others.
LEMMA SendTwo ==
  ASSUME NEW p \in ALL, NEW n \in Nat, sender[p] = Fresh(n), IsFiniteSet(ALL),
         NEW a, NEW b, a.to \subseteq ALL, b.to = ALL \ a.to, a.to # {}, b.to # {},
         NEW inFlight, Send(p, <<a, b>>, inFlight)
  PROVE  Sends(p, n + 1, inFlight, Packets({a, b}, n))
<1>1. /\ IsFiniteSet(a.to) /\ IsFiniteSet(b.to)
      /\ Cardinality(a.to) \in Nat /\ Cardinality(b.to) \in Nat /\ Cardinality(ALL) \in Nat
      /\ Cardinality(b.to) # 0
  BY FS_Subset, FS_CardinalityType, FS_EmptySet
<1>2. Cardinality(a.to) + Cardinality(b.to) = Cardinality(ALL)
  <2>1. a.to \cap b.to = {} /\ a.to \cup b.to = ALL
    OBVIOUS
  <2>2. Cardinality(a.to \cup b.to)
          = Cardinality(a.to) + Cardinality(b.to) - Cardinality(a.to \cap b.to)
    BY <1>1, FS_Union
  <2>3. Cardinality(a.to \cap b.to) = 0
    BY <2>1, FS_EmptySet
  <2> QED
    BY <1>1, <2>1, <2>2, <2>3
<1>3. ~ Complete({a})
  BY <1>1, <1>2, CountOne
<1>4. a # b
  OBVIOUS
<1>5. Complete({a, b})
  BY <1>1, <1>2, <1>4, CountTwo
<1>6. OnSend(Fresh(n), a) = [sendRound |-> n, sendBatch |-> {a}, out |-> {}]
  BY <1>3 DEF OnSend, Fresh
<1>7. OnSend([sendRound |-> n, sendBatch |-> {a}, out |-> {}], b)
        = [sendRound |-> n + 1, sendBatch |-> {}, out |-> Packets({a, b}, n)]
  <2>1. {a} \cup {b} = {a, b} /\ a.to \cap b.to = {}
    OBVIOUS
  <2> QED
    BY <1>5, <2>1 DEF OnSend
<1>8. Sent(sender[p], <<a, b>>) = OnSend(OnSend(Fresh(n), a), b)
  BY FoldTwo
<1> QED
  BY <1>6, <1>7, <1>8, SendIs

\* or nothing.
LEMMA SendNone ==
  ASSUME NEW p \in ALL, NEW n, sender[p] = Fresh(n), NEW inFlight, Send(p, <<>>, inFlight)
  PROVE  Sends(p, n, inFlight, {})
<1>1. Sent(sender[p], <<>>) = [sendRound |-> n, sendBatch |-> {}, out |-> {}]
  BY FoldNone DEF Fresh
<1> QED
  BY <1>1, SendIs

\* A wave is what one process sends in one round: a packet to each process.
Wave(p, n, W) ==
  /\ \A m \in W : m.to \in ALL /\ m.from = p /\ m.round = n
  /\ \A m, k \in W : m.to = k.to => m = k

LEMMA WaveOne ==
  ASSUME NEW p \in ALL, NEW n, NEW a, a.to = ALL, a.from = p
  PROVE  /\ Wave(p, n, Packets({a}, n))
         /\ \A m \in Packets({a}, n) : m.wrote = a.wrote /\ m.lost = a.lost /\ m.to \in a.to
<1>1. \A m \in Packets({a}, n) : \E q \in ALL : m = Packet(a, n, q)
  BY InPackets
<1> QED
  BY <1>1 DEF Wave, Packet

LEMMA WaveTwo ==
  ASSUME NEW p \in ALL, NEW n, NEW a, NEW b, a.from = p, b.from = p,
         a.to \subseteq ALL, b.to = ALL \ a.to
  PROVE  /\ Wave(p, n, Packets({a, b}, n))
         /\ \A m \in Packets({a, b}, n) :
              \/ m.wrote = a.wrote /\ m.lost = a.lost /\ m.to \in a.to
              \/ m.wrote = b.wrote /\ m.lost = b.lost /\ m.to \in b.to
<1>1. \A m \in Packets({a, b}, n) :
        \E q \in ALL : (q \in a.to /\ m = Packet(a, n, q)) \/ (q \in b.to /\ m = Packet(b, n, q))
  BY InPackets
<1>2. \A q : ~ (q \in a.to /\ q \in b.to)
  OBVIOUS
<1> QED
  BY <1>1, <1>2 DEF Wave, Packet

IsLost(m) == m.to \in m.lost

\* What the client writes in round r reaches everybody;
Writes(p, r, n, inFlight, W) ==
  /\ Wave(p, n, W)
  /\ r >= LastRound => W = {}
  /\ Sends(p, IF r >= LastRound THEN n ELSE n + 1, inFlight, W)
  /\ \A m \in W : m.wrote = r /\ ~ IsLost(m)

LEMMA ClientWrites ==
  ASSUME NEW p \in ALL, NEW n \in Nat, sender[p] = Fresh(n), IsFiniteSet(ALL),
         NEW r, NEW ms \in ClientSends(p, r), NEW inFlight, Send(p, ms, inFlight)
  PROVE  \E W : Writes(p, r, n, inFlight, W)
<1>1. CASE r >= LastRound
  <2>1. ms = <<>>
    BY <1>1 DEF ClientSends
  <2>2. Sends(p, n, inFlight, {})
    BY <2>1, SendNone
  <2> QED
    BY <1>1, <2>2 DEF Writes, Wave
<1>2. CASE ~ (r >= LastRound) /\ ms = <<Message(p, r, ALL)>>
  <2> DEFINE a == Message(p, r, ALL)
  <2>1. a.from = p /\ a.to = ALL /\ a.wrote = r /\ a.lost = {}
    BY DEF Message
  <2> HIDE DEF a
  <2>2. Sends(p, n + 1, inFlight, Packets({a}, n))
    BY <1>2, <2>1, SendOne DEF a
  <2> QED
    BY <1>2, <2>1, <2>2, WaveOne DEF Writes, IsLost
<1>3. ASSUME ~ (r >= LastRound), NEW q \in ALL, ALL # {q},
             ms = <<Message(p, r, {q}), Message(p, r, ALL \ {q})>>
      PROVE  \E W : Writes(p, r, n, inFlight, W)
  <2> DEFINE a == Message(p, r, {q})
             b == Message(p, r, ALL \ {q})
  <2>1. /\ a.from = p /\ a.to = {q} /\ a.wrote = r /\ a.lost = {}
        /\ b.from = p /\ b.to = ALL \ {q} /\ b.wrote = r /\ b.lost = {}
    BY DEF Message
  <2>2. ms = <<a, b>>
    BY <1>3
  <2> HIDE DEF a, b
  <2>3. a.to # {} /\ b.to # {} /\ a.to \subseteq ALL /\ b.to = ALL \ a.to
    BY <1>3, <2>1
  <2>4. Sends(p, n + 1, inFlight, Packets({a, b}, n))
    BY <2>2, <2>3, SendTwo
  <2> QED
    BY <1>3, <2>1, <2>3, <2>4, WaveTwo DEF Writes, IsLost
<1> QED
  BY <1>1, <1>2, <1>3 DEF ClientSends

LEMMA Pair == ASSUME NEW a, NEW b PROVE <<a>> \o <<b>> = <<a, b>>
<1> DEFINE s == <<a>> \o <<b>>
           t == <<a, b>>
<1>1. <<a>> \in Seq({a, b}) /\ <<b>> \in Seq({a, b}) /\ t \in Seq({a, b})
  OBVIOUS
<1>2. s \in Seq({a, b}) /\ Len(s) = 2 /\ s[1] = a /\ s[2] = b
  BY <1>1
<1>3. Len(t) = 2 /\ t[1] = a /\ t[2] = b /\ \A i \in 1 .. 2 : i = 1 \/ i = 2
  OBVIOUS
<1> HIDE DEF s, t
<1>4. s = t
  BY <1>1, <1>2, <1>3, SeqEqual
<1> QED
  BY <1>4 DEF s, t

\* that of a crashing process reaches one process,
LEMMA CrashingWrites ==
  ASSUME NEW p \in ALL, NEW n \in Nat, sender[p] = Fresh(n), IsFiniteSet(ALL),
         NEW r, ~ (r >= LastRound), NEW ms \in ClientSends(p, r),
         NEW cs \in CrashingSends(p, Head(ms)), NEW inFlight, Send(p, cs, inFlight)
  PROVE  \E W : /\ Wave(p, n, W) /\ Sends(p, n + 1, inFlight, W)
                /\ \A m \in W : ~ IsLost(m) => m.wrote = r
<1> DEFINE h == Head(ms)
<1>1. PICK D \in SUBSET ALL : D # {} /\ h = Message(p, r, D)
  <2>1. CASE ms = <<Message(p, r, ALL)>>
    BY <2>1
  <2>2. ASSUME NEW q \in ALL, ms = <<Message(p, r, {q}), Message(p, r, ALL \ {q})>>
        PROVE  \E D \in SUBSET ALL : D # {} /\ h = Message(p, r, D)
    BY <2>2
  <2> QED
    BY <2>1, <2>2 DEF ClientSends
<1> HIDE DEF h
<1>2. PICK q \in h.to :
        cs = <<[h EXCEPT !.lost = h.to \ {q}]>>
               \o (IF h.to = ALL THEN <<>> ELSE <<CrashedMessage(p, ALL \ h.to)>>)
  BY DEF CrashingSends, h
<1> DEFINE a == [h EXCEPT !.lost = h.to \ {q}]
           b == CrashedMessage(p, ALL \ D)
<1>3. /\ a.from = p /\ a.to = D /\ a.wrote = r
      /\ b.from = p /\ b.to = ALL \ D /\ b.lost = ALL \ D
  BY <1>1 DEF Message, CrashedMessage
<1>4. cs = IF D = ALL THEN <<a>> ELSE <<a, b>>
  <2>1. h.to = D
    BY <1>1 DEF Message
  <2>2. cs = <<a>> \o (IF D = ALL THEN <<>> ELSE <<b>>)
    BY <1>2, <2>1
  <2> HIDE DEF a, b
  <2>3. <<a>> \o <<>> = <<a>>
    OBVIOUS
  <2> QED
    BY <2>2, <2>3, Pair
<1> HIDE DEF a, b
<1>5. CASE D = ALL
  <2>1. Sends(p, n + 1, inFlight, Packets({a}, n))
    BY <1>3, <1>4, <1>5, SendOne
  <2> QED
    BY <1>3, <1>5, <2>1, WaveOne
<1>6. CASE D # ALL
  <2>1. a.to # {} /\ b.to # {} /\ a.to \subseteq ALL /\ b.to = ALL \ a.to
    BY <1>1, <1>3, <1>6
  <2>2. Sends(p, n + 1, inFlight, Packets({a, b}, n))
    BY <1>4, <1>6, <2>1, SendTwo
  <2> QED
    BY <1>3, <2>1, <2>2, WaveTwo DEF IsLost
<1> QED
  BY <1>5, <1>6

\* and that of a crashed process nobody.
LEMMA CrashedWrites ==
  ASSUME NEW p \in ALL, NEW n \in Nat, sender[p] = Fresh(n), IsFiniteSet(ALL),
         NEW inFlight, SendCrashed(p, inFlight)
  PROVE  \E W : /\ Wave(p, n, W) /\ Sends(p, n + 1, inFlight, W)
                /\ \A m \in W : IsLost(m)
<1> DEFINE a == CrashedMessage(p, ALL)
<1>1. a.from = p /\ a.to = ALL /\ a.lost = ALL
  BY DEF CrashedMessage
<1>2. Send(p, <<a>>, inFlight)
  BY DEF SendCrashed
<1> HIDE DEF a
<1>3. Sends(p, n + 1, inFlight, Packets({a}, n))
  BY <1>1, <1>2, SendOne
<1> QED
  BY <1>1, <1>3, WaveOne DEF IsLost

-----------------------------------------------------------------------------
(* Packets below RoundBased: on their way, or stashed.                        *)

\* What has been sent and not handled: in the network or in the queue of a thread.
Travelling == network \cup UNION {Range(messageQueue[p]) : p \in ALL}

Stashes == UNION {UNION {recvStash[q][r] : r \in Round} : q \in ALL}

Pending == Travelling \cup Stashes

\* The round of the client in which the messages of round r were written.
Wrote(st, r) == IF st = "RoundBasedWithFailures" /\ r > 0 THEN r - 1 ELSE r

\* A packet that its destination has still to count: its round is not over there, and its
\* sender is past it.  It is lost only if the sender is one of dead.
Good(st, rr, sr, dead, m) ==
  /\ m.to \in ALL /\ m.from \in ALL /\ m.round \in Nat
  /\ rr[m.to] <= m.round /\ m.round < sr[m.from]
  /\ ~ IsLost(m) => m.wrote = Wrote(st, m.round)
  /\ IsLost(m) => m.from \in dead

\* There is at most one packet of each round from each process to each process, and a
\* process that has lost one of round 1 or later loses all that follow.
PacketInv(st, P, rr, sr, dead) ==
  /\ \A m \in P : Good(st, rr, sr, dead, m)
  /\ \A m, n \in P : m.to = n.to /\ m.from = n.from /\ m.round = n.round => m = n
  /\ \A m, n \in P : /\ m.to = n.to /\ m.from = n.from
                     /\ IsLost(m) /\ m.round >= 1 /\ n.round > m.round
                     => IsLost(n)

\* What is stashed has arrived, and is filed by its destination and its round.
Filed(q, r, S, T) == \A m \in S : m.to = q /\ m.round = r /\ m \notin T

StashInv ==
  /\ recvStash = [q \in ALL |-> [r \in Round |-> recvStash[q][r]]]
  /\ \A q \in ALL : \A r \in Round : Filed(q, r, recvStash[q][r], Travelling)

\* The queue of a thread holds packets for it, each once.
QueueOf(q, s, net) ==
  /\ s \in Seq(Range(s))
  /\ \A i \in 1 .. Len(s) : /\ s[i].to = q /\ s[i] \notin net
                            /\ \A j \in 1 .. Len(s) : s[i] = s[j] => i = j

QueueInv ==
  /\ messageQueue = [q \in ALL |-> messageQueue[q]]
  /\ \A q \in ALL : QueueOf(q, messageQueue[q], network)

Sending(p) == sender[p].sendRound
Sendings   == [p \in ALL |-> Sending(p)]

\* The processes some of whose messages may have been lost.
Dead == {p \in ALL : state[p] = "Crashed" \/ (state[p] = "Crashing" /\ preStarted[p] = 1)}

Smallest(a, b) == IF a <= b THEN a ELSE b

\* How far a process is: its rounds of the client, of receiving and of sending.
Progress(st, cr, rr, sr, s, started) ==
  \/ /\ st # "RoundBasedWithFailures"
     /\ s = "Running"
     /\ \/ cr = -1 /\ rr = 0 /\ sr = 0
        \/ cr \in 0 .. LastRound /\ rr = cr /\ sr = Smallest(cr + 1, LastRound)
  \/ /\ st = "RoundBasedWithFailures"
     /\ \/ started = 0 /\ s = "Running" /\ cr = -1 /\ rr = 0 /\ sr = 0
        \/ started = 1 /\ s \in {"Running", "Crashing", "Crashed"} /\ cr = 0 /\ rr = 0 /\ sr = 1
        \/ /\ started = 2 /\ s \in {"Running", "Crashing"}
           /\ cr \in Nat /\ rr = cr /\ sr = Smallest(cr, LastRound - 1) + 2
        \/ /\ started = 2 /\ s = "Crashed"
           /\ cr \in Nat /\ rr \in Nat /\ cr <= rr /\ sr = rr + 2

ProgressInv ==
  /\ sender = [p \in ALL |-> Fresh(Sending(p))]
  /\ recvRound = [p \in ALL |-> recvRound[p]] /\ clientRound = [p \in ALL |-> clientRound[p]]
  /\ state = [p \in ALL |-> state[p]] /\ preStarted = [p \in ALL |-> preStarted[p]]
  /\ \A p \in ALL :
       /\ Progress(stack, clientRound[p], recvRound[p], Sending(p), state[p], preStarted[p])
       /\ p \notin faultySet => state[p] = "Running"
  /\ \A p, q \in ALL : recvRound[p] <= Sending(q)

\* What p has from q in its last batch.
BatchOf(st, P, cr, ba, s, p, q) ==
  cr[p] >= 1 =>
    \/ ba[p][q] = Wrote(st, cr[p] - 1)
    \/ /\ ba[p][q] = None /\ s[q] = "Crashed"
       /\ cr[p] >= 2 => \A m \in P : m.to = p /\ m.from = q => IsLost(m)

BatchInv ==
  /\ batch = [p \in ALL |-> batch[p]]
  /\ \A p, q \in ALL : BatchOf(stack, Pending, clientRound, batch, state, p, q)

SystemInv ==
  /\ stack \in Stack /\ ALL = 1 .. Size[stack]
  /\ faultySet \subseteq ALL /\ faultySet # ALL

RoundInv ==
  /\ ProgressInv /\ QueueInv /\ StashInv /\ BatchInv
  /\ PacketInv(stack, Pending, recvRound, Sendings, Dead)

-----------------------------------------------------------------------------
(* Packets leave, and a wave of one process is added.                         *)

LEMMA PacketStep ==
  ASSUME NEW st, NEW P, NEW rr, NEW sr, NEW dead, PacketInv(st, P, rr, sr, dead),
         NEW p \in ALL, NEW W, Wave(p, sr[p], W),
         NEW P2 \in SUBSET (P \cup W), NEW rr2, NEW sr2, NEW dead2, dead \subseteq dead2,
         \A q \in ALL : sr[q] \in Nat /\ sr2[q] \in Nat /\ sr[q] <= sr2[q],
         W # {} => sr2[p] > sr[p],
         \A m \in P2 : rr2[m.to] <= m.round,
         \A m \in P : rr[m.to] \in Nat,
         \A m \in P2 : rr2[m.to] \in Nat,
         \A m \in W : /\ ~ IsLost(m) => m.wrote = Wrote(st, sr[p])
                      /\ IsLost(m) => p \in dead2,
         p \in dead /\ sr[p] >= 2 => \A m \in W : IsLost(m)
  PROVE  PacketInv(st, P2, rr2, sr2, dead2)
<1>1. \A m \in P2 : Good(st, rr2, sr2, dead2, m)
  BY DEF PacketInv, Good, Wave
<1>2. \A m \in P : Good(st, rr, sr, dead, m)
  BY DEF PacketInv
<1>3. \A m, n \in P2 : m.to = n.to /\ m.from = n.from /\ m.round = n.round => m = n
  BY <1>2 DEF PacketInv, Good, Wave
<1>4. ASSUME NEW m \in P2, NEW n \in P2, m.to = n.to, m.from = n.from, IsLost(m),
             m.round >= 1, n.round > m.round
      PROVE  IsLost(n)
  <2>1. CASE m \in P /\ n \in P
    BY <1>4, <2>1 DEF PacketInv
  <2>2. CASE m \in P /\ n \in W
    <3>1. m.from = p /\ m.from \in dead /\ m.round < sr[p] /\ m.round \in Nat
      BY <1>2, <1>4, <2>2 DEF Good, Wave
    <3> QED
      BY <1>4, <2>2, <3>1
  <2>3. CASE m \in W
    <3>1. m.from = p /\ m.round = sr[p]
      BY <2>3 DEF Wave
    <3>2. n \in P => n.round < sr[p] /\ n.round \in Nat
      BY <1>2, <1>4, <3>1 DEF Good
    <3>3. n \in W => n.round = sr[p]
      BY DEF Wave
    <3> QED
      BY <1>4, <3>1, <3>2, <3>3
  <2> QED
    BY <2>1, <2>2, <2>3
<1> QED
  BY <1>1, <1>3, <1>4 DEF PacketInv

\* The packets of a wave are new.
LEMMA WaveIsNew ==
  ASSUME NEW st, NEW P, NEW rr, NEW sr, NEW dead, PacketInv(st, P, rr, sr, dead),
         NEW p \in ALL, NEW W, Wave(p, sr[p], W), sr[p] \in Nat
  PROVE  \A m \in W : m \notin P
BY DEF PacketInv, Good, Wave

LEMMA BatchStep ==
  ASSUME NEW st, NEW P, NEW cr, NEW ba, NEW s, NEW x, NEW q, BatchOf(st, P, cr, ba, s, x, q),
         NEW p, NEW n, NEW W, Wave(p, n, W), NEW P2 \in SUBSET (P \cup W),
         NEW cr2, NEW ba2, NEW s2, cr2[x] >= 1 => cr2[x] = cr[x] /\ ba2[x] = ba[x],
         cr2[x] >= 1 /\ s[q] = "Crashed" => s2[q] = "Crashed",
         s[p] = "Crashed" => \A m \in W : IsLost(m)
  PROVE  BatchOf(st, P2, cr2, ba2, s2, x, q)
BY DEF BatchOf, Wave

\* A set of packets with one of each process at most, and as many as there are processes.
LEMMA FromAll ==
  ASSUME NEW S, \A x \in S : x.from \in ALL, \A x, y \in S : x.from = y.from => x = y,
         IsFiniteSet(ALL), Cardinality(S) = Cardinality(ALL)
  PROVE  \A q \in ALL : \E x \in S : x.from = q
<1> DEFINE f == [x \in S |-> x.from]
<1>1. f \in Injection(S, ALL)
  BY DEF Injection, IsInjective
<1>2. f \in Surjection(S, ALL)
  BY <1>1, FS_Injection
<1> QED
  BY <1>2 DEF Surjection

\* The queue of a thread: one more packet at its end, one less at its head.
LEMMA QueueAppend ==
  ASSUME NEW q, NEW s, NEW net, QueueOf(q, s, net), NEW m \in net, m.to = q
  PROVE  QueueOf(q, Append(s, m), net \ {m}) /\ Range(Append(s, m)) = Range(s) \cup {m}
<1> DEFINE t == Append(s, m)
           R == Range(s) \cup {m}
<1>1. s \in Seq(R) /\ m \in R /\ Range(s) \subseteq R
  BY DEF QueueOf
<1> HIDE DEF R
<1>2. /\ t \in Seq(R) /\ Len(t) = Len(s) + 1 /\ t[Len(s) + 1] = m /\ Len(s) \in Nat
      /\ \A i \in 1 .. Len(s) : t[i] = s[i]
  BY <1>1
<1>3. Range(t) = {t[i] : i \in 1 .. Len(t)} /\ Range(s) = {s[i] : i \in 1 .. Len(s)}
  BY <1>1, <1>2 DEF Range
<1> HIDE DEF t
<1>4. Range(t) = R
  BY <1>2, <1>3 DEF R
<1>5. \A i \in 1 .. Len(t) : i \in 1 .. Len(s) \/ i = Len(s) + 1
  BY <1>2
<1>6. \A i \in 1 .. Len(s) : s[i] # m
  BY DEF QueueOf
<1> QED
  BY <1>2, <1>4, <1>5, <1>6 DEF QueueOf, t, R

LEMMA QueueTail ==
  ASSUME NEW q, NEW s, NEW net, QueueOf(q, s, net), s # <<>>
  PROVE  /\ QueueOf(q, Tail(s), net)
         /\ Head(s).to = q /\ Head(s) \in Range(s) /\ Head(s) \notin net
         /\ Range(Tail(s)) = Range(s) \ {Head(s)}
<1> DEFINE t == Tail(s)
           R == Range(s)
<1>1. s \in Seq(R)
  BY DEF QueueOf
<1> HIDE DEF R
<1>2. /\ t \in Seq(R) /\ Len(t) = Len(s) - 1 /\ Len(s) \in Nat \ {0}
      /\ Head(s) = s[1] /\ \A i \in 1 .. Len(t) : t[i] = s[i + 1]
  BY <1>1
<1> HIDE DEF t
<1>3. Range(t) = {t[i] : i \in 1 .. Len(t)} /\ Range(s) = {s[i] : i \in 1 .. Len(s)}
  BY <1>1, <1>2 DEF Range
<1>4. \A i, j \in 1 .. Len(s) : s[i] = s[j] => i = j
  BY DEF QueueOf
<1>5. \A i \in 1 .. Len(t) : i + 1 \in 1 .. Len(s) /\ i + 1 # 1
  BY <1>2
<1>6. \A i \in 1 .. Len(s) : i = 1 \/ (i - 1 \in 1 .. Len(t) /\ t[i - 1] = s[i])
  BY <1>2
<1>7. 1 \in 1 .. Len(s)
  BY <1>2
<1>8. Range(t) = Range(s) \ {s[1]}
  <2>1. \A i \in 1 .. Len(t) : t[i] \in Range(s) /\ t[i] # s[1]
    BY <1>2, <1>3, <1>4, <1>5, <1>7
  <2>2. \A i \in 1 .. Len(s) : s[i] = s[1] \/ s[i] \in Range(t)
    BY <1>3, <1>6
  <2> QED
    BY <2>1, <2>2, <1>3
<1>9. t \in Seq(Range(t))
  <2>1. \A i \in 1 .. Len(t) : t[i] \in Range(t)
    BY <1>3
  <2> QED
    BY <1>2, <2>1
<1>10. \A i \in 1 .. Len(t) : t[i].to = q /\ t[i] \notin net
  BY <1>2, <1>5 DEF QueueOf
<1>11. \A i, j \in 1 .. Len(t) : t[i] = t[j] => i = j
  <2> TAKE i, j \in 1 .. Len(t)
  <2>1. t[i] = s[i + 1] /\ t[j] = s[j + 1]
    BY <1>2
  <2>2. s[i + 1] = s[j + 1] => i + 1 = j + 1
    BY <1>4, <1>5
  <2> QED
    BY <2>1, <2>2
<1>12. s[1].to = q /\ s[1] \in Range(s) /\ s[1] \notin net
  BY <1>3, <1>7 DEF QueueOf
<1>13. QueueOf(q, t, net)
  BY <1>9, <1>10, <1>11 DEF QueueOf
<1> QED
  BY <1>2, <1>8, <1>12, <1>13 DEF t

\* It does not care about what is added to the network.
LEMMA QueueKept ==
  ASSUME NEW q, NEW s, NEW net, QueueOf(q, s, net), NEW net2, NEW W, net2 \subseteq net \cup W,
         \A m \in W : m \notin Range(s)
  PROVE  QueueOf(q, s, net2)
<1>1. \A i \in 1 .. Len(s) : s[i] \in Range(s)
  BY DEF QueueOf, Range
<1> QED
  BY <1>1 DEF QueueOf

-----------------------------------------------------------------------------
(* The steps of the three protocols below which the network delivers rounds.    *)

Kept == UNCHANGED <<ALL, faultySet, stack>>

LEMMA Members ==
  ASSUME ALL' = ALL
  PROVE  /\ \A k : k \in Travelling <=>
              k \in network \/ \E q \in ALL : k \in Range(messageQueue[q])
         /\ \A k : k \in Travelling' <=>
              k \in network' \/ \E q \in ALL : k \in Range(messageQueue'[q])
         /\ \A k : k \in Stashes <=> \E q \in ALL : \E r \in Round : k \in recvStash[q][r]
         /\ \A k : k \in Stashes' <=> \E q \in ALL : \E r \in Round : k \in recvStash'[q][r]
<1>1. \A k : k \in Travelling <=> k \in network \/ \E q \in ALL : k \in Range(messageQueue[q])
  BY DEF Travelling
<1>2. \A k : k \in Travelling' <=> k \in network' \/ \E q \in ALL : k \in Range(messageQueue'[q])
  BY DEF Travelling
<1>3. \A k : k \in Stashes <=> \E q \in ALL : \E r \in Round : k \in recvStash[q][r]
  BY DEF Stashes
<1>4. \A k : k \in Stashes' <=> \E q \in ALL : \E r \in Round : k \in recvStash'[q][r]
  <2>1. Stashes' = UNION {UNION {recvStash'[q][r] : r \in Round} : q \in ALL}
    BY DEF Stashes, Round
  <2> QED
    BY <2>1
<1> QED
  BY <1>1, <1>2, <1>3, <1>4

\* The last round of a correct process bounds those of all.
LEMMA Bounds ==
  ASSUME SystemInv, ProgressInv
  PROVE  /\ IsFiniteSet(ALL)
         /\ \A p \in ALL : /\ Sending(p) \in Nat /\ recvRound[p] \in Nat /\ clientRound[p] \in Int
                           /\ clientRound[p] <= recvRound[p]
                           /\ Sending(p) <= recvRound[p] + 2
                           /\ recvRound[p] <= LastRound + 1
<1>1. \A p \in ALL : /\ Sending(p) \in Nat /\ recvRound[p] \in Nat /\ clientRound[p] \in Int
                     /\ clientRound[p] <= recvRound[p]
                     /\ Sending(p) <= recvRound[p] + 2
  BY RoundAssumption DEF ProgressInv, Progress, Smallest
<1>2. PICK c \in ALL : c \notin faultySet
  BY DEF SystemInv
<1>3. Sending(c) <= LastRound + 1
  BY <1>2, RoundAssumption DEF ProgressInv, Progress, Smallest
<1>4. \A p \in ALL : recvRound[p] <= Sending(c)
  BY DEF ProgressInv
<1>5. IsFiniteSet(ALL)
  BY RoundsAssumption, FS_Interval DEF SystemInv
<1> QED
  BY <1>1, <1>3, <1>4, <1>5, RoundAssumption

LEMMA RoundsInRange ==
  ASSUME SystemInv, ProgressInv, PacketInv(stack, Pending, recvRound, Sendings, Dead)
  PROVE  \A m \in Pending : /\ m.to \in ALL /\ m.from \in ALL /\ m.round \in Round
                            /\ recvRound[m.to] \in Round /\ recvRound[m.to] <= m.round
                            /\ m.round < Sending(m.from)
<1>1. \A m \in Pending : Good(stack, recvRound, Sendings, Dead, m)
  BY DEF PacketInv
<1> QED
  BY <1>1, Bounds, RoundAssumption DEF Good, Sendings, Round

OnlyAt(f, g, p) == g = [q \in ALL |-> g[q]] /\ \A q \in ALL \ {p} : g[q] = f[q]

\* A round starts, or not, at p, whose round of receiving is rr now: it sends W.
Told(p, rr, inFlight, W) ==
  /\ Wave(p, Sending(p), W)
  /\ \/ W = {} /\ Sends(p, Sending(p), inFlight, W)
     \/ Sends(p, Sending(p) + 1, inFlight, W)
  /\ \A m \in W : /\ ~ IsLost(m) => m.wrote = Wrote(stack, Sending(p))
                  /\ IsLost(m) => p \in Dead'
  /\ (p \in Dead /\ Sending(p) >= 2) \/ state[p] = "Crashed" => \A m \in W : IsLost(m)
  /\ OnlyAt(clientRound, clientRound', p)
  /\ OnlyAt(state, state', p)
  /\ OnlyAt(preStarted, preStarted', p)
  /\ state[p] = "Crashed" => state'[p] = "Crashed"
  /\ p \in Dead => p \in Dead'
  /\ p \notin faultySet => state'[p] = "Running"
  /\ Progress(stack, clientRound'[p], rr, sender'[p].sendRound, state'[p], preStarted'[p])

LEMMA ToldDead ==
  ASSUME Kept, NEW p \in ALL, NEW rr, NEW inFlight, NEW W, Told(p, rr, inFlight, W)
  PROVE  Dead \subseteq Dead'
BY DEF Kept, Told, OnlyAt, Dead

LEMMA ToldSender ==
  ASSUME SystemInv, ProgressInv, Kept,
         NEW p \in ALL, NEW rr, NEW inFlight, NEW W, Told(p, rr, inFlight, W)
  PROVE  /\ sender' = [q \in ALL |-> Fresh(Sending(q)')]
         /\ \A q \in ALL : Sending(q)' \in Nat /\ Sending(q) <= Sending(q)'
         /\ W # {} => Sending(p)' > Sending(p)
         /\ network' = inFlight \cup W
         /\ Sendings' = [q \in ALL |-> Sending(q)']
<1>1. PICK n \in {Sending(p), Sending(p) + 1} :
        /\ sender' = [sender EXCEPT ![p] = Fresh(n)] /\ network' = inFlight \cup W
        /\ W # {} => n = Sending(p) + 1
  BY DEF Told, Sends
<1>2. sender = [q \in ALL |-> Fresh(Sending(q))]
  BY DEF ProgressInv
<1>3. Fresh(n).sendRound = n
  BY DEF Fresh
<1>4. \A q \in ALL : Sending(q)' = IF q = p THEN n ELSE Sending(q)
  BY <1>1, <1>2, <1>3 DEF Sending
<1>5. sender' = [q \in ALL |-> Fresh(Sending(q)')]
  BY <1>1, <1>2, <1>4
<1>6. Sendings' = [q \in ALL |-> Sending(q)']
  BY DEF Sendings, Kept
<1>7. \A q \in ALL : Sending(q) \in Nat
  BY Bounds
<1>8. /\ \A q \in ALL : Sending(q)' \in Nat /\ Sending(q) <= Sending(q)'
      /\ W # {} => Sending(p)' > Sending(p)
  BY <1>1, <1>4, <1>7
<1> QED
  BY <1>1, <1>5, <1>6, <1>8

LEMMA ToldIsNew ==
  ASSUME SystemInv, RoundInv, NEW p \in ALL, NEW rr, NEW inFlight, NEW W, Told(p, rr, inFlight, W)
  PROVE  /\ Wave(p, Sendings[p], W)
         /\ \A k \in W : k \notin Pending /\ k.from = p /\ k.round = Sending(p) /\ k.to \in ALL
<1>1. Sendings[p] = Sending(p) /\ Sending(p) \in Nat
  BY Bounds DEF Sendings, RoundInv
<1>2. Wave(p, Sendings[p], W)
  BY <1>1 DEF Told
<1>3. PacketInv(stack, Pending, recvRound, Sendings, Dead)
  BY DEF RoundInv
<1>4. \A k \in W : k \notin Pending
  BY <1>1, <1>2, <1>3, WaveIsNew
<1> QED
  BY <1>1, <1>2, <1>4 DEF Wave

\* The packet m is taken from the network, or from the head of the queue of a thread.
Taken(m, inFlight) ==
  \/ m \in network /\ inFlight = network \ {m} /\ UNCHANGED messageQueue
  \/ \E q \in ALL : /\ messageQueue[q] # <<>> /\ m = Head(messageQueue[q])
                    /\ messageQueue' = [messageQueue EXCEPT ![q] = Tail(messageQueue[q])]
                    /\ inFlight = network

LEMMA QueueApart ==
  ASSUME NEW q, NEW s, NEW net, QueueOf(q, s, net)
  PROVE  \A k \in Range(s) : k \notin net /\ k.to = q
BY DEF QueueOf, Range

LEMMA TakenStep ==
  ASSUME Kept, QueueInv, NEW m, NEW inFlight, Taken(m, inFlight),
         NEW W, \A k \in W : k \notin Travelling, network' = inFlight \cup W
  PROVE  /\ m \in Travelling
         /\ \A k \in Travelling' : k # m /\ (k \in Travelling \/ k \in W)
         /\ QueueInv'
<1>1. ALL' = ALL
  BY DEF Kept
<1>2. \A q \in ALL : QueueOf(q, messageQueue[q], network)
  BY DEF QueueInv
<1>3. \A q \in ALL : \A k \in Range(messageQueue[q]) : k \notin network /\ k.to = q
  BY <1>2, QueueApart
<1>4. \A q \in ALL : \A k \in W : k \notin Range(messageQueue[q])
  BY <1>1, Members
<1>5. \A q \in ALL : QueueOf(q, messageQueue[q], network')
  <2> TAKE q \in ALL
  <2>1. network' \subseteq network \cup W
    BY DEF Taken
  <2> QED
    BY <1>2, <1>4, <2>1, QueueKept
<1>6. CASE m \in network /\ inFlight = network \ {m} /\ UNCHANGED messageQueue
  <2>1. m \in Travelling /\ m \notin W
    BY <1>1, <1>6, Members
  <2>2. \A k \in Travelling' : k # m /\ (k \in Travelling \/ k \in W)
    BY <1>1, <1>3, <1>6, <2>1, Members
  <2>3. QueueInv'
    BY <1>1, <1>5, <1>6 DEF QueueInv
  <2> QED
    BY <2>1, <2>2, <2>3
<1>7. ASSUME NEW q \in ALL, messageQueue[q] # <<>>, m = Head(messageQueue[q]),
             messageQueue' = [messageQueue EXCEPT ![q] = Tail(messageQueue[q])],
             inFlight = network
      PROVE  /\ m \in Travelling
             /\ \A k \in Travelling' : k # m /\ (k \in Travelling \/ k \in W)
             /\ QueueInv'
  <2> DEFINE t == Tail(messageQueue[q])
  <2>1. /\ m \in Range(messageQueue[q]) /\ Range(t) = Range(messageQueue[q]) \ {m}
        /\ m.to = q /\ m \notin network
    BY <1>2, <1>7, QueueTail
  <2>2. QueueOf(q, t, network')
    BY <1>5, <1>7, QueueTail
  <2>3. /\ messageQueue = [x \in ALL |-> messageQueue[x]]
        /\ messageQueue' = [messageQueue EXCEPT ![q] = t]
    BY <1>7 DEF QueueInv
  <2> HIDE DEF t
  <2>4. \A x \in ALL : messageQueue'[x] = IF x = q THEN t ELSE messageQueue[x]
    BY <2>3
  <2>5. messageQueue' = [x \in ALL |-> messageQueue'[x]]
    BY <2>3
  <2>6. QueueInv'
    BY <1>1, <1>5, <2>2, <2>4, <2>5 DEF QueueInv
  <2>7. m \in Travelling /\ m \notin W
    BY <1>1, <2>1, Members
  <2>8. \A x \in ALL : m \notin Range(messageQueue'[x])
    BY <1>3, <2>1, <2>4
  <2>9. \A x \in ALL : Range(messageQueue'[x]) \subseteq Range(messageQueue[x])
    BY <2>1, <2>4
  <2>10. \A k \in Travelling' : k # m /\ (k \in Travelling \/ k \in W)
    BY <1>1, <1>7, <2>1, <2>7, <2>8, <2>9, Members
  <2> QED
    BY <2>6, <2>7, <2>10
<1> QED
  BY <1>6, <1>7 DEF Taken

\* The stash with one packet more.
LEMMA StashedIs ==
  ASSUME SystemInv, RoundInv, NEW m \in Pending
  PROVE  /\ Stashed(m.to, m) = [r \in Round |-> Stashed(m.to, m)[r]]
         /\ \A r \in Round : Stashed(m.to, m)[r]
              = IF r = m.round THEN recvStash[m.to][r] \cup {m} ELSE recvStash[m.to][r]
<1>1. m.to \in ALL /\ m.round \in Round /\ recvRound[m.to] <= m.round
  BY RoundsInRange DEF RoundInv
<1> DEFINE f == recvStash[m.to]
           R == Round
<1>2. f = [r \in R |-> f[r]]
  <2>1. recvStash = [q \in ALL |-> [r \in Round |-> recvStash[q][r]]]
    BY DEF RoundInv, StashInv
  <2> DEFINE g(q) == [r \in Round |-> recvStash[q][r]]
  <2>2. recvStash = [q \in ALL |-> g(q)]
    BY <2>1
  <2> HIDE DEF g
  <2>3. recvStash[m.to] = g(m.to)
    BY <1>1, <2>2
  <2> QED
    BY <2>3 DEF g
<1>3. Stashed(m.to, m) = [f EXCEPT ![m.round] = @ \cup {m}]
  BY <1>1, RoundsInRange, Bounds, RoundAssumption DEF Stashed, RoundInv, Round
<1>4. m.round \in R
  BY <1>1
<1> HIDE DEF f, R
<1> DEFINE g == Stashed(m.to, m)
<1>5. g = [r \in R |-> g[r]] /\ \A r \in R : g[r] = IF r = m.round THEN f[r] \cup {m} ELSE f[r]
  BY <1>2, <1>3, <1>4
<1> QED
  BY <1>5 DEF f, R

\* Wherever a packet goes, it stays where it is looked for.
LEMMA StashStep ==
  ASSUME Kept, StashInv, NEW m \in Travelling, NEW W, \A k \in W : k \notin Pending,
         \A k \in Travelling' : k # m /\ (k \in Travelling \/ k \in W),
         recvStash' = [q \in ALL |-> [r \in Round |-> recvStash'[q][r]]],
         \A q \in ALL : \A r \in Round : \A k \in recvStash'[q][r] :
           k \in recvStash[q][r] \/ (k = m /\ q = m.to /\ r = m.round)
  PROVE  StashInv' /\ Pending' \in SUBSET (Pending \cup W)
<1>1. ALL' = ALL
  BY DEF Kept
<1>2. \A q \in ALL : \A r \in Round : \A k \in recvStash[q][r] :
        k \in Pending /\ k.to = q /\ k.round = r /\ k \notin Travelling
  BY <1>1, Members DEF StashInv, Filed, Pending
<1>3. \A q \in ALL : \A r \in Round : \A k \in recvStash'[q][r] :
        k.to = q /\ k.round = r /\ k \notin Travelling' /\ k \in Pending
  BY <1>2 DEF Pending
<1>4. \A q \in ALL : \A r \in Round : Filed(q, r, recvStash'[q][r], Travelling')
  BY <1>3 DEF Filed
<1>5. StashInv'
  BY <1>1, <1>4 DEF StashInv, Round
<1>6. \A k \in Pending' : k \in Travelling' \/ k \in Stashes'
  BY DEF Pending
<1>7. \A k \in Pending' : k \in Pending \cup W
  BY <1>1, <1>3, <1>6, Members DEF Pending
<1> QED
  BY <1>5, <1>7

LEMMA ProgressStep ==
  ASSUME SystemInv, ProgressInv, Kept,
         NEW p \in ALL, NEW rr \in Nat, NEW inFlight, NEW W, Told(p, rr, inFlight, W),
         OnlyAt(recvRound, recvRound', p), recvRound'[p] = rr, \A q \in ALL : rr <= Sending(q)
  PROVE  ProgressInv'
<1>1. \A q \in ALL \ {p} : Sending(q)' = Sending(q)
  BY DEF Told, Sends, ProgressInv, Sending
<1>2. \A q \in ALL : Sending(q)' \in Nat /\ Sending(q) <= Sending(q)' /\ Sending(q) \in Nat
  BY ToldSender, Bounds
<1>3. Sending(p)' = sender'[p].sendRound
  BY DEF Sending
<1>4. \A q \in ALL :
        /\ Progress(stack, clientRound'[q], recvRound'[q], Sending(q)', state'[q], preStarted'[q])
        /\ q \notin faultySet => state'[q] = "Running"
  <2> TAKE q \in ALL
  <2>1. CASE q = p
    BY <2>1, <1>3 DEF Told
  <2>2. CASE q # p
    BY <2>2, <1>1 DEF Told, OnlyAt, ProgressInv
  <2> QED
    BY <2>1, <2>2
<1>5. \A q, x \in ALL : recvRound'[q] <= Sending(x)'
  <2>1. \A q, x \in ALL : recvRound[q] <= Sending(x) /\ recvRound[q] \in Nat
    BY Bounds DEF ProgressInv
  <2> QED
    BY <2>1, <1>2 DEF OnlyAt
<1>6. \A q \in ALL :
        Progress(stack, clientRound[q], recvRound[q], Sending(q), state[q], preStarted[q])'
          <=> Progress(stack, clientRound'[q], recvRound'[q], Sending(q)', state'[q],
                       preStarted'[q])
  BY DEF Kept, Progress
<1>7. sender' = [q \in ALL |-> Fresh(Sending(q)')]
  BY ToldSender
<1> QED
  BY <1>4, <1>5, <1>6, <1>7 DEF ProgressInv, Kept, Told, OnlyAt

LEMMA PacketsKept ==
  ASSUME SystemInv, RoundInv, Kept, ProgressInv',
         NEW p \in ALL, NEW rr, NEW inFlight, NEW W, Told(p, rr, inFlight, W),
         Pending' \in SUBSET (Pending \cup W),
         \A k \in Pending' : recvRound'[k.to] <= k.round
  PROVE  PacketInv(stack, Pending, recvRound, Sendings, Dead)'
<1>1. PacketInv(stack, Pending, recvRound, Sendings, Dead)
  BY DEF RoundInv
<1>2. Wave(p, Sendings[p], W) /\ \A k \in W : k.to \in ALL
  BY ToldIsNew
<1>3. Dead \subseteq Dead'
  BY ToldDead
<1>4. /\ \A q \in ALL : /\ Sendings[q] = Sending(q) /\ Sendings'[q] = Sending(q)'
                        /\ Sendings[q] \in Nat /\ Sendings'[q] \in Nat
                        /\ Sendings[q] <= Sendings'[q]
      /\ W # {} => Sendings'[p] > Sendings[p]
  <2>1. \A q \in ALL : Sendings[q] = Sending(q)
    BY DEF Sendings
  <2>2. \A q \in ALL : Sendings'[q] = Sending(q)'
    BY ToldSender DEF RoundInv
  <2> QED
    BY <2>1, <2>2, ToldSender, Bounds DEF RoundInv
<1>5. \A k \in Pending : k.to \in ALL /\ recvRound[k.to] \in Nat
  BY <1>1, Bounds DEF PacketInv, Good, RoundInv
<1>6. \A q \in ALL : recvRound'[q] \in Nat
  BY RoundAssumption DEF ProgressInv, Progress, Kept
<1>7. \A k \in Pending' : recvRound'[k.to] \in Nat
  BY <1>2, <1>5, <1>6
<1>8. \A k \in W : /\ ~ IsLost(k) => k.wrote = Wrote(stack, Sendings[p])
                   /\ IsLost(k) => p \in Dead'
  BY <1>4 DEF Told
<1>9. p \in Dead /\ Sendings[p] >= 2 => \A k \in W : IsLost(k)
  BY <1>4 DEF Told
<1>10. PacketInv(stack, Pending', recvRound', Sendings', Dead')
  BY <1>1, <1>2, <1>3, <1>4, <1>5, <1>7, <1>8, <1>9, PacketStep
<1> QED
  BY <1>10 DEF PacketInv, Good, Kept

\* A process that starts sends what it writes at first.
LEMMA Emission ==
  ASSUME SystemInv, RoundInv, Kept, NEW p \in ALL, NEW W,
         Told(p, recvRound[p], network, W), clientRound'[p] = 0,
         UNCHANGED <<recvRound, recvStash, messageQueue, batch>>
  PROVE  RoundInv'
<1>1. ALL' = ALL
  BY DEF Kept
<1>2. ProgressInv'
  <2>1. recvRound[p] \in Nat /\ \A q \in ALL : recvRound[p] <= Sending(q)
    BY Bounds DEF RoundInv, ProgressInv
  <2>2. OnlyAt(recvRound, recvRound', p) /\ recvRound'[p] = recvRound[p]
    BY DEF OnlyAt, RoundInv, ProgressInv
  <2> QED
    BY <2>1, <2>2, ProgressStep DEF RoundInv
<1>3. network' = network \cup W
  BY ToldSender DEF RoundInv
<1>4. \A k \in W : k \notin Pending /\ k.to \in ALL /\ k.round = Sending(p)
  BY ToldIsNew
<1>5. \A k \in Travelling' : k \in Travelling \/ k \in W
  BY <1>1, <1>3, Members
<1>6. QueueInv'
  <2>1. \A q \in ALL : \A k \in W : k \notin Range(messageQueue[q])
    BY <1>1, <1>4, Members DEF Pending
  <2>2. \A q \in ALL : QueueOf(q, messageQueue[q], network')
    BY <2>1, <1>3, QueueKept DEF RoundInv, QueueInv
  <2> QED
    BY <1>1, <2>2 DEF QueueInv, RoundInv
<1>7. StashInv'
  <2>1. \A q \in ALL : \A r \in Round : \A k \in recvStash[q][r] : k \in Pending
    BY <1>1, Members DEF Pending
  <2> QED
    BY <1>1, <1>4, <1>5, <2>1 DEF StashInv, RoundInv, Filed, Round
<1>8. Pending' \in SUBSET (Pending \cup W)
  <2>1. Stashes' = Stashes
    BY <1>1 DEF Stashes, Round
  <2> QED
    BY <1>5, <2>1 DEF Pending
<1>9. \A k \in Pending' : recvRound'[k.to] <= k.round
  <2>1. \A k \in Pending : recvRound[k.to] <= k.round
    BY RoundsInRange DEF RoundInv
  <2>2. \A k \in W : recvRound[k.to] <= k.round
    BY <1>4 DEF RoundInv, ProgressInv
  <2> QED
    BY <2>1, <2>2, <1>8
<1>10. PacketInv(stack, Pending, recvRound, Sendings, Dead)'
  BY <1>2, <1>8, <1>9, PacketsKept
<1>11. BatchInv'
  <2>1. \A x, q \in ALL : BatchOf(stack, Pending', clientRound', batch', state', x, q)
    <3> TAKE x, q \in ALL
    <3>1. BatchOf(stack, Pending, clientRound, batch, state, x, q)
      BY DEF RoundInv, BatchInv
    <3>2. clientRound'[x] >= 1 => clientRound'[x] = clientRound[x] /\ batch'[x] = batch[x]
      BY DEF Told, OnlyAt
    <3>3. state[q] = "Crashed" => state'[q] = "Crashed"
      BY DEF Told, OnlyAt
    <3>4. Wave(p, Sending(p), W) /\ (state[p] = "Crashed" => \A k \in W : IsLost(k))
      BY DEF Told
    <3> QED
      BY <1>8, <3>1, <3>2, <3>3, <3>4, BatchStep
  <2> QED
    BY <1>1, <2>1 DEF BatchInv, BatchOf, Kept, RoundInv
<1> QED
  BY <1>2, <1>6, <1>7, <1>10, <1>11 DEF RoundInv

\* A process that goes on as it is.
LEMMA NothingTold ==
  ASSUME SystemInv, RoundInv, Kept, NEW p \in ALL, NEW inFlight,
         network' = inFlight, UNCHANGED <<sender, clientRound, state, preStarted>>
  PROVE  Told(p, recvRound[p], inFlight, {})
<1>1. sender[p] = Fresh(Sending(p))
  BY DEF RoundInv, ProgressInv
<1>2. Sends(p, Sending(p), inFlight, {})
  BY <1>1 DEF Sends, RoundInv, ProgressInv
<1>3. Dead' = Dead
  BY DEF Kept, Dead
<1>4. sender'[p].sendRound = Sending(p)
  BY DEF Sending
<1> QED
  BY <1>2, <1>3, <1>4 DEF Told, Wave, OnlyAt, RoundInv, ProgressInv

\* A message is queued, before the thread of its destination takes it.
LEMMA Enqueuing ==
  ASSUME SystemInv, RoundInv, Kept, NEW m, Enqueue(m), UNCHANGED <<state, preStarted>>
  PROVE  RoundInv'
<1>1. ALL' = ALL
  BY DEF Kept
<1>2. m \in network /\ m \in Pending /\ m.to \in ALL
  <2>1. m \in network /\ m \in Pending
    BY <1>1, Members DEF Enqueue, Pending
  <2> QED
    BY <2>1, RoundsInRange DEF RoundInv
<1> DEFINE p == m.to
<1>3. Told(p, recvRound[p], network', {})
  BY <1>2, NothingTold DEF Enqueue
<1>4. ProgressInv'
  <2>1. recvRound[p] \in Nat /\ \A q \in ALL : recvRound[p] <= Sending(q)
    BY <1>2, Bounds DEF RoundInv, ProgressInv
  <2>2. OnlyAt(recvRound, recvRound', p) /\ recvRound'[p] = recvRound[p]
    BY DEF OnlyAt, RoundInv, ProgressInv, Enqueue
  <2> QED
    BY <1>2, <1>3, <2>1, <2>2, ProgressStep DEF RoundInv
<1>5. \A q \in ALL : /\ QueueOf(q, messageQueue'[q], network')
                     /\ \A k \in Range(messageQueue'[q]) : k = m \/ k \in Range(messageQueue[q])
  <2> TAKE q \in ALL
  <2>1. QueueOf(q, messageQueue[q], network)
    BY DEF RoundInv, QueueInv
  <2>2. CASE q = p
    <3>1. messageQueue'[q] = Append(messageQueue[q], m) /\ network' = network \ {m}
      BY <2>2 DEF Enqueue, RoundInv, QueueInv
    <3> DEFINE t == messageQueue[q]
    <3>2. QueueOf(q, t, network) /\ m.to = q /\ m \in network
      BY <2>1, <2>2, <1>2
    <3> HIDE DEF t
    <3>3. QueueOf(q, Append(t, m), network \ {m}) /\ Range(Append(t, m)) = Range(t) \cup {m}
      BY <3>2, QueueAppend
    <3> QED
      BY <3>1, <3>3 DEF t
  <2>3. CASE q # p
    <3> DEFINE t == messageQueue[q]
               W == {}
    <3>1. /\ messageQueue'[q] = t /\ network' \subseteq network \cup W
          /\ \A k \in W : k \notin Range(t)
      BY <2>3 DEF Enqueue, RoundInv, QueueInv
    <3>2. QueueOf(q, t, network)
      BY <2>1
    <3> HIDE DEF t, W
    <3>3. QueueOf(q, t, network')
      BY <3>1, <3>2, QueueKept
    <3> QED
      BY <3>1, <3>3 DEF t
  <2> QED
    BY <2>2, <2>3
<1>6. QueueInv'
  <2>1. messageQueue' = [q \in ALL |-> messageQueue'[q]]
    BY DEF Enqueue, RoundInv, QueueInv
  <2> QED
    BY <1>1, <1>5, <2>1 DEF QueueInv
<1>7. \A k \in Travelling' : k \in Travelling
  <2>1. \A k \in network' : k \in network
    BY DEF Enqueue
  <2> QED
    BY <1>1, <1>2, <1>5, <2>1, Members
<1>8. StashInv'
  BY <1>1, <1>7 DEF StashInv, RoundInv, Filed, Round, Enqueue
<1>9. Pending' \in SUBSET (Pending \cup {})
  <2>1. Stashes' = Stashes
    BY <1>1 DEF Stashes, Round, Enqueue
  <2> QED
    BY <1>7, <2>1 DEF Pending
<1>10. \A k \in Pending' : recvRound'[k.to] <= k.round
  BY <1>9, RoundsInRange DEF RoundInv, Enqueue
<1>11. PacketInv(stack, Pending, recvRound, Sendings, Dead)'
  BY <1>2, <1>3, <1>4, <1>9, <1>10, PacketsKept
<1>12. BatchInv'
  <2>1. \A x, q \in ALL : BatchOf(stack, Pending', clientRound', batch', state', x, q)
    BY <1>9 DEF RoundInv, BatchInv, BatchOf, Enqueue
  <2> QED
    BY <1>1, <2>1 DEF BatchInv, BatchOf, Kept, RoundInv, Enqueue
<1> QED
  BY <1>4, <1>6, <1>8, <1>11, <1>12 DEF RoundInv

\* A message is stashed, and its round is not complete.
LEMMA Stashing ==
  ASSUME SystemInv, RoundInv, Kept, NEW m, NEW inFlight, Taken(m, inFlight),
         Stash(m.to, m, inFlight), UNCHANGED <<state, preStarted>>
  PROVE  RoundInv'
<1>1. ALL' = ALL
  BY DEF Kept
<1> DEFINE W == {}
<1>2. network' = inFlight \cup W /\ (\A k \in W : k \notin Travelling) /\ QueueInv
  BY DEF Stash, RoundInv
<1> HIDE DEF W
<1>3. /\ m \in Travelling /\ QueueInv'
      /\ \A k \in Travelling' : k # m /\ (k \in Travelling \/ k \in W)
  BY <1>2, TakenStep
<1> USE DEF W
<1>4. m \in Pending /\ m.to \in ALL
  <2>1. m \in Pending
    BY <1>3 DEF Pending
  <2> QED
    BY <2>1, RoundsInRange DEF RoundInv
<1> DEFINE p == m.to
<1>5. Told(p, recvRound[p], network', {})
  BY <1>4, NothingTold DEF Stash
<1>6. ProgressInv'
  <2>1. recvRound[p] \in Nat /\ \A q \in ALL : recvRound[p] <= Sending(q)
    BY <1>4, Bounds DEF RoundInv, ProgressInv
  <2>2. OnlyAt(recvRound, recvRound', p) /\ recvRound'[p] = recvRound[p]
    BY DEF OnlyAt, RoundInv, ProgressInv, Stash
  <2> QED
    BY <1>4, <1>5, <2>1, <2>2, ProgressStep DEF RoundInv
<1>7. StashInv' /\ Pending' \in SUBSET (Pending \cup {})
  <2> DEFINE f == Stashed(p, m)
  <2>1. /\ f = [r \in Round |-> f[r]]
        /\ \A r \in Round :
             f[r] = IF r = m.round THEN recvStash[p][r] \cup {m} ELSE recvStash[p][r]
    BY <1>4, StashedIs
  <2>2. recvStash = [q \in ALL |-> [r \in Round |-> recvStash[q][r]]]
    BY DEF RoundInv, StashInv
  <2>3. recvStash' = [recvStash EXCEPT ![p] = f]
    BY DEF Stash
  <2> HIDE DEF f
  <2>4. \A q \in ALL : recvStash'[q] = IF q = p THEN f ELSE recvStash[q]
    BY <2>2, <2>3
  <2>5. recvStash' = [q \in ALL |-> recvStash'[q]]
    BY <2>2, <2>3
  <2>6. \A q \in ALL : recvStash[q] = [r \in Round |-> recvStash[q][r]]
    BY <2>2
  <2>7. \A q \in ALL : recvStash'[q] = [r \in Round |-> recvStash'[q][r]]
    BY <2>1, <2>4, <2>6
  <2>8. recvStash' = [q \in ALL |-> [r \in Round |-> recvStash'[q][r]]]
    BY <2>5, <2>7
  <2>9. \A q \in ALL : \A r \in Round : \A k \in recvStash'[q][r] :
          k \in recvStash[q][r] \/ (k = m /\ q = m.to /\ r = m.round)
    BY <2>1, <2>4
  <2> QED
    BY <1>3, <2>8, <2>9, StashStep DEF RoundInv
<1>8. \A k \in Pending' : recvRound'[k.to] <= k.round
  BY <1>7, RoundsInRange DEF RoundInv, Stash
<1>9. PacketInv(stack, Pending, recvRound, Sendings, Dead)'
  BY <1>4, <1>5, <1>6, <1>7, <1>8, PacketsKept
<1>10. BatchInv'
  <2>1. \A x, q \in ALL : BatchOf(stack, Pending', clientRound', batch', state', x, q)
    BY <1>7 DEF RoundInv, BatchInv, BatchOf, Stash
  <2> QED
    BY <1>1, <2>1 DEF BatchInv, BatchOf, Kept, RoundInv, Stash
<1> QED
  BY <1>3, <1>6, <1>7, <1>9, <1>10 DEF RoundInv

\* A batch that is complete is all that the process still had to count for its round.
LEMMA Whole ==
  ASSUME SystemInv, RoundInv, NEW m \in Pending, Completes(m.to, m)
  PROVE  /\ \A k \in Released(m.to, m) :
              /\ k \in Pending /\ k.to = m.to /\ k.round = recvRound[m.to]
              /\ k = m \/ k \in recvStash[m.to][recvRound[m.to]]
         /\ \A q \in ALL : \E k \in Released(m.to, m) : k.from = q
         /\ \A k \in Pending : k.to = m.to /\ k.round = recvRound[m.to] => k \in Released(m.to, m)
<1> DEFINE p == m.to
           r == recvRound[p]
           S == Released(p, m)
<1>1. p \in ALL /\ r \in Round
  BY RoundsInRange DEF RoundInv
<1>2. /\ PacketInv(stack, Pending, recvRound, Sendings, Dead)
      /\ \A k \in Pending : k.from \in ALL
  BY RoundsInRange DEF RoundInv
<1>3. \A k \in recvStash[p][r] : k \in Pending /\ k.to = p /\ k.round = r
  <2>1. Filed(p, r, recvStash[p][r], Travelling)
    BY <1>1 DEF RoundInv, StashInv
  <2>2. \A k \in recvStash[p][r] : k \in Stashes
    BY <1>1 DEF Stashes
  <2> QED
    BY <2>1, <2>2 DEF Filed, Pending
<1>4. S = IF r = m.round THEN recvStash[p][r] \cup {m} ELSE recvStash[p][r]
  BY <1>1, StashedIs DEF Released
<1>5. Cardinality(S) = Cardinality(ALL)
  BY DEF Completes, Released
<1> HIDE DEF S, r, p
<1>6. \A k \in S : /\ k \in Pending /\ k.to = p /\ k.round = r
                   /\ k = m \/ k \in recvStash[p][r]
  BY <1>3, <1>4 DEF p
<1>7. \A k, l \in Pending : k.to = l.to /\ k.from = l.from /\ k.round = l.round => k = l
  BY <1>2 DEF PacketInv
<1>8. \A k, l \in S : k.from = l.from => k = l
  BY <1>6, <1>7
<1>9. \A k \in S : k.from \in ALL
  BY <1>2, <1>6
<1>10. IsFiniteSet(ALL)
  BY Bounds DEF RoundInv
<1>11. \A q \in ALL : \E k \in S : k.from = q
  BY <1>5, <1>8, <1>9, <1>10, FromAll
<1>12. \A k \in Pending : k.to = p /\ k.round = r => k \in S
  BY <1>2, <1>6, <1>7, <1>11
<1> QED
  BY <1>6, <1>11, <1>12 DEF S, p, r

\* The batch of p is made of the messages of msgs that are not lost.
Delivered(p, msgs) ==
  /\ OnlyAt(batch, batch', p)
  /\ \A q \in ALL :
       \/ batch'[p][q] = None /\ \A k \in msgs : k.from = q => IsLost(k)
       \/ \E k \in msgs : k.from = q /\ ~ IsLost(k) /\ batch'[p][q] = k.wrote

\* What a release takes away, and what it adds.
LEMMA ReleaseStep ==
  ASSUME SystemInv, RoundInv, Kept, NEW m, NEW inFlight, Taken(m, inFlight), Release(m.to, m),
         NEW W, Told(m.to, recvRound[m.to] + 1, inFlight, W)
  PROVE  /\ m \in Pending /\ m.to \in ALL /\ recvRound[m.to] \in Nat
         /\ ProgressInv' /\ QueueInv' /\ StashInv'
         /\ Pending' \in SUBSET (Pending \cup W)
         /\ \A k \in Pending' : recvRound'[k.to] <= k.round
         /\ recvRound'[m.to] = recvRound[m.to] + 1
<1> DEFINE p == m.to
           r == recvRound[p]
           S == Released(p, m)
<1>1. ALL' = ALL
  BY DEF Kept
<1>2. m \in Travelling /\ m \in Pending /\ p \in ALL
  <2>1. m \in Travelling
    <3>1. CASE m \in network
      BY <1>1, <3>1, Members
    <3>2. ASSUME NEW q \in ALL, messageQueue[q] # <<>>, m = Head(messageQueue[q])
          PROVE  m \in Travelling
      <4>1. m \in Range(messageQueue[q])
        BY <3>2, QueueTail DEF RoundInv, QueueInv
      <4> QED
        BY <1>1, <4>1, Members
    <3> QED
      BY <3>1, <3>2 DEF Taken
  <2>2. m \in Pending
    BY <2>1 DEF Pending
  <2> QED
    BY <2>1, <2>2, RoundsInRange DEF RoundInv
<1>3. r \in Nat /\ r \in Round /\ Sending(p) \in Nat
  BY <1>2, Bounds, RoundsInRange DEF RoundInv
<1>4. /\ \A k \in S : k \in Pending /\ k.to = p /\ k.round = r /\ (k = m \/ k \in recvStash[p][r])
      /\ \A q \in ALL : \E k \in S : k.from = q
      /\ \A k \in Pending : k.to = p /\ k.round = r => k \in S
  BY <1>2, Whole DEF Release
<1>5. \A k \in Pending : /\ k.round < Sending(k.from) /\ recvRound[k.to] <= k.round
                         /\ k.round \in Nat
  BY RoundsInRange, RoundAssumption DEF RoundInv, Round
<1>6. \A q \in ALL : r + 1 <= Sending(q)
  <2> TAKE q \in ALL
  <2>1. PICK k \in S : k.from = q
    BY <1>4
  <2>2. r < Sending(q)
    BY <1>4, <1>5, <2>1
  <2>3. Sending(q) \in Nat
    BY Bounds DEF RoundInv
  <2> QED
    BY <1>3, <2>2, <2>3
<1>7. OnlyAt(recvRound, recvRound', p) /\ recvRound'[p] = r + 1
  BY <1>2 DEF OnlyAt, RoundInv, ProgressInv, Release
<1>8. ProgressInv'
  BY <1>2, <1>3, <1>6, <1>7, ProgressStep DEF RoundInv
<1>9. network' = inFlight \cup W
  BY <1>2, ToldSender DEF RoundInv
<1>10. \A k \in W : /\ k \notin Pending /\ k \notin Travelling
                    /\ k.round = Sending(p) /\ k.to \in ALL
  BY <1>2, ToldIsNew DEF Pending
<1>11. /\ QueueInv'
       /\ \A k \in Travelling' : k # m /\ (k \in Travelling \/ k \in W)
  <2>1. QueueInv /\ \A k \in W : k \notin Travelling
    BY <1>10 DEF RoundInv
  <2> QED
    BY <1>9, <2>1, TakenStep
<1>12. /\ recvStash' = [q \in ALL |-> [x \in Round |-> recvStash'[q][x]]]
       /\ \A q \in ALL : \A x \in Round : \A k \in recvStash'[q][x] :
            k \in recvStash[q][x] \/ (k = m /\ q = p /\ x = m.round)
       /\ recvStash'[p][r] = {}
  <2> DEFINE f == Stashed(p, m)
             g == [f EXCEPT ![r] = {}]
  <2>1. /\ f = [x \in Round |-> f[x]]
        /\ \A x \in Round :
             f[x] = IF x = m.round THEN recvStash[p][x] \cup {m} ELSE recvStash[p][x]
    BY <1>2, StashedIs
  <2>2. recvStash = [q \in ALL |-> [x \in Round |-> recvStash[q][x]]]
    BY DEF RoundInv, StashInv
  <2>3. recvStash' = [recvStash EXCEPT ![p] = g]
    BY DEF Release
  <2> HIDE DEF f
  <2>4. g = [x \in Round |-> g[x]] /\ \A x \in Round : g[x] = IF x = r THEN {} ELSE f[x]
    BY <2>1, <1>3
  <2> HIDE DEF g
  <2>5. \A q \in ALL : recvStash'[q] = IF q = p THEN g ELSE recvStash[q]
    BY <2>2, <2>3
  <2>6. recvStash' = [q \in ALL |-> recvStash'[q]]
    BY <2>2, <2>3
  <2>7. \A q \in ALL : recvStash[q] = [x \in Round |-> recvStash[q][x]]
    BY <2>2
  <2>8. \A q \in ALL : recvStash'[q] = [x \in Round |-> recvStash'[q][x]]
    BY <2>4, <2>5, <2>7
  <2>9. recvStash' = [q \in ALL |-> [x \in Round |-> recvStash'[q][x]]]
    BY <2>6, <2>8
  <2>10. \A q \in ALL : \A x \in Round : \A k \in recvStash'[q][x] :
           k \in recvStash[q][x] \/ (k = m /\ q = m.to /\ x = m.round)
    BY <2>1, <2>4, <2>5
  <2>11. recvStash'[p][r] = {}
    BY <1>2, <1>3, <2>4, <2>5
  <2> QED
    BY <2>9, <2>10, <2>11
<1>13. StashInv' /\ Pending' \in SUBSET (Pending \cup W)
  <2>1. StashInv /\ \A k \in W : k \notin Pending
    BY <1>10 DEF RoundInv
  <2> QED
    BY <2>1, <1>2, <1>11, <1>12, StashStep
<1>14. ASSUME NEW k \in Pending' PROVE recvRound'[k.to] <= k.round
  <2>1. CASE k \in W
    <3>1. \A q \in ALL \ {p} : recvRound'[q] = recvRound[q] /\ recvRound[q] <= Sending(p)
      BY <1>2, <1>7 DEF OnlyAt, RoundInv, ProgressInv
    <3> QED
      BY <1>2, <1>6, <1>7, <1>10, <2>1, <3>1
  <2>2. CASE k \in Pending /\ k.to # p
    BY <1>5, <1>7, <2>2, RoundsInRange DEF OnlyAt, RoundInv
  <2>3. CASE k \in Pending /\ k.to = p
    <3>1. SUFFICES ASSUME k.round = r PROVE FALSE
      BY <1>3, <1>5, <1>7, <2>3
    <3>2. k \in S
      BY <1>4, <2>3, <3>1
    <3>3. k = m \/ k \notin Travelling
      <4>1. Filed(p, r, recvStash[p][r], Travelling)
        BY <1>2, <1>3 DEF RoundInv, StashInv
      <4> QED
        BY <1>4, <3>2, <4>1 DEF Filed
    <3>4. k \notin Travelling'
      BY <1>10, <1>11, <2>3, <3>3
    <3>5. PICK q \in ALL, x \in Round : k \in recvStash'[q][x]
      BY <1>1, <3>4, Members DEF Pending
    <3>6. Filed(q, x, recvStash'[q][x], Travelling')
      BY <1>1, <1>13 DEF StashInv, Round
    <3>7. q = p /\ x = r
      BY <2>3, <3>1, <3>5, <3>6 DEF Filed
    <3> QED
      BY <1>12, <3>5, <3>7
  <2> QED
    BY <1>13, <2>1, <2>2, <2>3
<1> QED
  BY <1>2, <1>3, <1>7, <1>8, <1>11, <1>13, <1>14

\* The batch of a round is what each process wrote for it, but for crashed ones.
LEMMA Releasing ==
  ASSUME SystemInv, RoundInv, Kept, NEW m, NEW inFlight, Taken(m, inFlight), Release(m.to, m),
         NEW W, Told(m.to, recvRound[m.to] + 1, inFlight, W),
         \/ clientRound'[m.to] = clientRound[m.to] /\ UNCHANGED batch
         \/ /\ clientRound'[m.to] = recvRound[m.to] + 1
            /\ Delivered(m.to, Released(m.to, m))
            /\ \A q \in Dead : state[q] = "Crashed" /\ q # m.to
  PROVE  RoundInv'
<1> DEFINE p == m.to
           r == recvRound[p]
           S == Released(p, m)
<1>1. /\ m \in Pending /\ p \in ALL /\ r \in Nat
      /\ ProgressInv' /\ QueueInv' /\ StashInv'
      /\ Pending' \in SUBSET (Pending \cup W)
      /\ \A k \in Pending' : recvRound'[k.to] <= k.round
      /\ recvRound'[p] = r + 1
  BY ReleaseStep
<1>2. PacketInv(stack, Pending, recvRound, Sendings, Dead)'
  BY <1>1, PacketsKept
<1>3. PacketInv(stack, Pending, recvRound, Sendings, Dead)
  BY DEF RoundInv
<1>4. /\ \A k \in S : k \in Pending /\ k.to = p /\ k.round = r
      /\ \A q \in ALL : \E k \in S : k.from = q
      /\ \A k \in Pending : k.to = p /\ k.round = r => k \in S
  BY <1>1, Whole DEF Release
<1>5. \A x, q \in ALL : BatchOf(stack, Pending', clientRound', batch', state', x, q)
  <2> TAKE x, q \in ALL
  <2>1. BatchOf(stack, Pending, clientRound, batch, state, x, q)
    BY DEF RoundInv, BatchInv
  <2>2. state[q] = "Crashed" => state'[q] = "Crashed"
    BY DEF Told, OnlyAt
  <2>3. Wave(p, Sending(p), W) /\ (state[p] = "Crashed" => \A k \in W : IsLost(k))
    BY DEF Told
  <2>4. CASE clientRound'[x] = clientRound[x] /\ batch'[x] = batch[x]
    BY <1>1, <2>1, <2>2, <2>3, <2>4, BatchStep
  <2>5. CASE ~ (clientRound'[x] = clientRound[x] /\ batch'[x] = batch[x])
    <3>1. x = p
      BY <2>5 DEF Told, OnlyAt, Delivered
    <3>2. /\ clientRound'[p] = r + 1 /\ Delivered(p, S)
          /\ \A y \in Dead : state[y] = "Crashed" /\ y # p
      BY <2>5, <3>1
    <3>3. CASE \E k \in S : k.from = q /\ ~ IsLost(k) /\ batch'[p][q] = k.wrote
      <4>1. PICK k \in S : k.from = q /\ ~ IsLost(k) /\ batch'[p][q] = k.wrote
        BY <3>3
      <4>2. k.wrote = Wrote(stack, r)
        BY <1>3, <1>4, <4>1 DEF PacketInv, Good
      <4>3. clientRound'[p] - 1 = r
        BY <1>1, <3>2
      <4> QED
        BY <3>1, <4>1, <4>2, <4>3 DEF BatchOf
    <3>4. CASE batch'[p][q] = None /\ \A k \in S : k.from = q => IsLost(k)
      <4>1. PICK k \in S : k.from = q
        BY <1>4
      <4>2. q \in Dead
        BY <1>3, <1>4, <3>4, <4>1 DEF PacketInv, Good
      <4>3. state'[q] = "Crashed" /\ q # p
        BY <2>2, <3>2, <4>2
      <4>4. ASSUME r + 1 >= 2, NEW l \in Pending', l.to = p, l.from = q PROVE IsLost(l)
        <5>1. l \in Pending
          BY <1>1, <2>3, <4>3, <4>4 DEF Wave
        <5>2. l.round >= r + 1 /\ l.round \in Nat
          BY <1>1, <1>3, <4>4, <5>1 DEF PacketInv, Good
        <5> QED
          BY <1>1, <1>3, <1>4, <3>4, <4>1, <4>4, <5>1, <5>2 DEF PacketInv
      <4> QED
        BY <3>1, <3>2, <3>4, <4>3, <4>4 DEF BatchOf
    <3> QED
      BY <3>2, <3>3, <3>4 DEF Delivered
  <2> QED
    BY <2>4, <2>5
<1>6. batch' = [q \in ALL |-> batch'[q]]
  BY DEF Delivered, OnlyAt, RoundInv, BatchInv
<1>7. BatchInv'
  BY <1>5, <1>6 DEF BatchInv, BatchOf, Kept
<1> QED
  BY <1>1, <1>2, <1>7 DEF RoundInv

-----------------------------------------------------------------------------
(* RoundBased and SynchronousRounds.                                         *)

LEMMA ReleaseBound ==
  ASSUME SystemInv, RoundInv, NEW m \in Pending, Completes(m.to, m)
  PROVE  \A q \in ALL : recvRound[m.to] + 1 <= Sending(q)
<1> TAKE q \in ALL
<1>1. PICK k \in Released(m.to, m) : k.from = q /\ k \in Pending /\ k.round = recvRound[m.to]
  BY Whole
<1>2. k.round < Sending(q)
  BY <1>1, RoundsInRange DEF RoundInv
<1>3. Sending(q) \in Nat /\ recvRound[m.to] \in Nat
  BY RoundsInRange, Bounds DEF RoundInv
<1> QED
  BY <1>1, <1>2, <1>3

LEMMA TakenIsPending ==
  ASSUME QueueInv, NEW m, NEW inFlight, Taken(m, inFlight)
  PROVE  m \in Travelling /\ m \in Pending
<1>1. CASE m \in network
  BY <1>1 DEF Travelling, Pending
<1>2. ASSUME NEW q \in ALL, messageQueue[q] # <<>>, m = Head(messageQueue[q])
      PROVE  m \in Travelling /\ m \in Pending
  <2>1. m \in Range(messageQueue[q])
    BY <1>2, QueueTail DEF QueueInv
  <2> QED
    BY <2>1 DEF Travelling, Pending
<1> QED
  BY <1>1, <1>2 DEF Taken

Plain == stack # "RoundBasedWithFailures"

LEMMA NobodyDies ==
  ASSUME RoundInv, Plain
  PROVE  (\A p \in ALL : state[p] = "Running") /\ Dead = {}
BY DEF RoundInv, ProgressInv, Progress, Plain, Dead

LEMMA PlainInit ==
  ASSUME SystemInv, RoundInv, Kept, Plain, NEW p \in ALL, clientRound[p] = -1,
         InitRound(p, network),
         UNCHANGED <<recvRound, recvStash, messageQueue, state, preStarted>>
  PROVE  RoundInv'
<1>1. Sending(p) = 0 /\ recvRound[p] = 0 /\ state[p] = "Running"
  BY DEF RoundInv, ProgressInv, Progress, Plain
<1>2. sender[p] = Fresh(0) /\ IsFiniteSet(ALL)
  BY <1>1, Bounds DEF RoundInv, ProgressInv
<1>3. PICK ms \in ClientSends(p, 0) : Send(p, ms, network)
  BY DEF InitRound
<1>4. PICK W : Writes(p, 0, 0, network, W)
  BY <1>2, <1>3, ClientWrites
<1>5. Wave(p, 0, W) /\ Sends(p, 1, network, W) /\ \A k \in W : k.wrote = 0 /\ ~ IsLost(k)
  BY <1>4, RoundAssumption DEF Writes
<1>6. sender'[p].sendRound = 1
  BY <1>5 DEF Sends, Fresh, RoundInv, ProgressInv
<1>7. /\ OnlyAt(clientRound, clientRound', p) /\ clientRound'[p] = 0
      /\ OnlyAt(state, state', p) /\ OnlyAt(preStarted, preStarted', p)
  BY DEF InitRound, OnlyAt, RoundInv, ProgressInv
<1>8. Progress(stack, 0, 0, 1, "Running", preStarted'[p])
  BY RoundAssumption DEF Progress, Plain, Smallest
<1>9. Dead = {} /\ 0 + 1 = 1 /\ Wrote(stack, 0) = 0
  BY NobodyDies DEF Wrote
<1>10. Told(p, recvRound[p], network, W)
  BY <1>1, <1>5, <1>6, <1>7, <1>8, <1>9 DEF Told
<1> QED
  BY <1>7, <1>10, Emission DEF InitRound

LEMMA PlainRelease ==
  ASSUME SystemInv, RoundInv, Kept, Plain, NEW m, NEW inFlight, Taken(m, inFlight),
         Release(m.to, m), StartRound(m.to, recvRound[m.to] + 1, Released(m.to, m), inFlight),
         UNCHANGED <<state, preStarted>>
  PROVE  RoundInv'
<1> DEFINE p == m.to
           r == recvRound[p]
           S == Released(p, m)
<1>1. m \in Pending /\ p \in ALL
  BY TakenIsPending, RoundsInRange DEF RoundInv
<1>2. r \in Nat /\ r + 1 <= Sending(p) /\ Sending(p) \in Nat /\ IsFiniteSet(ALL)
  BY <1>1, ReleaseBound, Bounds DEF RoundInv, Release
<1>3. /\ clientRound[p] = r /\ Sending(p) = r + 1 /\ r + 1 <= LastRound
      /\ state[p] = "Running"
  BY <1>1, <1>2, RoundAssumption DEF RoundInv, ProgressInv, Progress, Plain, Smallest
<1>4. sender[p] = Fresh(r + 1) /\ r + 1 \in Nat
  BY <1>1, <1>2, <1>3 DEF RoundInv, ProgressInv
<1>5. PICK ms \in ClientSends(p, r + 1) : Send(p, ms, inFlight)
  BY DEF StartRound
<1>6. PICK W : Writes(p, r + 1, r + 1, inFlight, W)
  BY <1>1, <1>2, <1>4, <1>5, ClientWrites
<1> DEFINE n == Smallest(r + 2, LastRound)
<1>7. /\ Wave(p, r + 1, W) /\ Sends(p, n, inFlight, W)
      /\ W = {} \/ n = r + 2
      /\ n = r + 1 => W = {}
      /\ \A k \in W : k.wrote = r + 1 /\ ~ IsLost(k)
  BY <1>2, <1>3, <1>6, RoundAssumption DEF Writes, Smallest
<1>8. n = r + 1 \/ n = r + 2
  BY <1>2, <1>3, RoundAssumption DEF Smallest
<1>9. sender'[p].sendRound = n
  BY <1>1, <1>7 DEF Sends, Fresh, RoundInv, ProgressInv
<1>10. /\ OnlyAt(clientRound, clientRound', p) /\ clientRound'[p] = r + 1
       /\ OnlyAt(state, state', p) /\ OnlyAt(preStarted, preStarted', p)
  BY <1>1 DEF StartRound, OnlyAt, RoundInv, ProgressInv
<1>11. Progress(stack, r + 1, r + 1, n, "Running", preStarted'[p])
  BY <1>2, <1>3, RoundAssumption DEF Progress, Plain, Smallest
<1>12. Dead = {} /\ Wrote(stack, r + 1) = r + 1
  BY NobodyDies DEF Wrote, Plain
<1>13. \/ W = {} /\ Sends(p, Sending(p), inFlight, W)
       \/ Sends(p, Sending(p) + 1, inFlight, W)
  <2>1. Sending(p) + 1 = r + 2
    BY <1>2, <1>3
  <2> QED
    BY <1>3, <1>7, <1>8, <2>1
<1>14. state'[p] = "Running"
  BY <1>3
<1> HIDE DEF n
<1>15. Told(p, r + 1, inFlight, W)
  BY <1>3, <1>7, <1>9, <1>10, <1>11, <1>12, <1>13, <1>14 DEF Told
<1>16. Delivered(p, S)
  <2> DEFINE b == [q \in ALL |-> IF \E k \in S : k.from = q
                                 THEN (CHOOSE k \in S : k.from = q).wrote ELSE None]
  <2>1. batch' = [batch EXCEPT ![p] = b] /\ batch = [q \in ALL |-> batch[q]]
    BY DEF StartRound, RoundInv, BatchInv
  <2>2. \A k \in S : k \in Pending /\ ~ IsLost(k)
    BY <1>1, <1>12, Whole DEF RoundInv, PacketInv, Good, Release
  <2>3. \A q \in ALL : \E k \in S : k.from = q /\ ~ IsLost(k) /\ b[q] = k.wrote
    <3> TAKE q \in ALL
    <3>1. \E k \in S : k.from = q
      BY <1>1, Whole DEF Release
    <3> DEFINE c == CHOOSE k \in S : k.from = q
    <3>2. c \in S /\ c.from = q
      BY <3>1
    <3>3. b[q] = c.wrote
      BY <3>1
    <3> QED
      BY <2>2, <3>2, <3>3
  <2> HIDE DEF b
  <2>4. batch'[p] = b /\ OnlyAt(batch, batch', p)
    BY <1>1, <2>1 DEF OnlyAt
  <2> QED
    BY <2>3, <2>4 DEF Delivered
<1>17. \A q \in Dead : state[q] = "Crashed" /\ q # p
  BY <1>12
<1> QED
  BY <1>10, <1>15, <1>16, <1>17, Releasing

LEMMA PlainHandle ==
  ASSUME SystemInv, RoundInv, Kept, Plain, NEW m, NEW inFlight, Taken(m, inFlight),
         HandleRound(m.to, m, inFlight), UNCHANGED <<state, preStarted>>
  PROVE  RoundInv'
<1>1. CASE Stash(m.to, m, inFlight)
  BY <1>1, Stashing
<1>2. CASE Release(m.to, m) /\ StartRound(m.to, recvRound[m.to] + 1, Released(m.to, m), inFlight)
  BY <1>2, PlainRelease
<1> QED
  BY <1>1, <1>2 DEF HandleRound

LEMMA PlainNext ==
  ASSUME SystemInv, RoundInv, Kept, Plain, UNCHANGED <<state, preStarted>>,
         NextRoundBased \/ NextSynchronous
  PROVE  RoundInv'
<1>1. ASSUME NEW p \in ALL, PreStart(p) PROVE RoundInv'
  BY <1>1, PlainInit DEF PreStart
<1>2. ASSUME NEW m \in network, OnReceive(m) PROVE RoundInv'
  BY <1>2, PlainHandle DEF OnReceive, Taken
<1>3. ASSUME NEW p \in ALL, Run(p) PROVE RoundInv'
  BY <1>3, PlainInit DEF Run
<1>4. ASSUME NEW p \in ALL, Loop(p) PROVE RoundInv'
  <2> DEFINE m == Head(messageQueue[p])
  <2>1. m.to = p
    BY <1>4, QueueTail DEF Loop, RoundInv, QueueInv
  <2>2. Taken(m, network)
    BY <1>4 DEF Loop, Taken
  <2>3. HandleRound(m.to, m, network)
    BY <1>4, <2>1 DEF Loop
  <2> QED
    BY <2>2, <2>3, PlainHandle
<1>5. ASSUME NEW m \in network, Enqueue(m) PROVE RoundInv'
  BY <1>5, Enqueuing
<1> QED
  BY <1>1, <1>2, <1>3, <1>4, <1>5 DEF NextRoundBased, NextSynchronous

-----------------------------------------------------------------------------
(* RoundBasedWithFailures.                                                   *)

Failing == stack = "RoundBasedWithFailures"

\* The client of p, told in state s that round r starts, leaves p in state t and sends W.
Tells(p, r, s, recheck, n, inFlight, W, t) ==
  /\ clientRound' = [clientRound EXCEPT ![p] = r]
  /\ state' = [state EXCEPT ![p] = t]
  /\ Wave(p, n, W)
  /\ r >= LastRound => W = {} /\ Sends(p, n, inFlight, W)
  /\ ~ (r >= LastRound) => Sends(p, n + 1, inFlight, W)
  /\ \A k \in W : ~ IsLost(k) => k.wrote = r
  /\ \/ /\ s = "Crashing" /\ ~ (r >= LastRound)
        /\ t = "Crashed" \/ (t = "Crashing" /\ recheck)
     \/ /\ ~ (s = "Crashing" /\ ~ (r >= LastRound))
        /\ \A k \in W : ~ IsLost(k)
        /\ t = s \/ (t = "Crashing" /\ recheck /\ p \in faultySet)

LEMMA ClientTells ==
  ASSUME SystemInv, RoundInv, NEW p \in ALL, NEW r, NEW s, NEW recheck \in BOOLEAN, NEW inFlight,
         ClientTold(p, r, s, recheck, inFlight)
  PROVE  \E W, t : Tells(p, r, s, recheck, Sending(p), inFlight, W, t)
<1> DEFINE n == Sending(p)
<1>1. sender[p] = Fresh(n) /\ n \in Nat /\ IsFiniteSet(ALL)
  BY Bounds DEF RoundInv, ProgressInv
<1> HIDE DEF n
<1>2. PICK ms \in ClientSends(p, r) :
        \/ /\ s = "Crashing" /\ ms # <<>>
           /\ \E cs \in CrashingSends(p, Head(ms)) : Send(p, cs, inFlight)
           /\ \E t \in {"Crashed", "Crashing"} :
                /\ t = "Crashed" \/ recheck
                /\ state' = [state EXCEPT ![p] = t]
        \/ /\ ~ (s = "Crashing" /\ ms # <<>>)
           /\ Send(p, ms, inFlight)
           /\ \E t \in {s, "Crashing"} :
                /\ t = s \/ (recheck /\ p \in faultySet)
                /\ state' = [state EXCEPT ![p] = t]
  BY DEF ClientTold, AfterCheck
<1>3. ms = <<>> <=> r >= LastRound
  <2>1. \A a, b : <<a>> # <<>> /\ <<a, b>> # <<>>
    OBVIOUS
  <2>2. CASE r >= LastRound
    BY <2>2 DEF ClientSends
  <2>3. CASE ~ (r >= LastRound)
    BY <2>1, <2>3 DEF ClientSends
  <2> QED
    BY <2>2, <2>3
<1>4. clientRound' = [clientRound EXCEPT ![p] = r]
  BY DEF ClientTold
<1>5. CASE s = "Crashing" /\ ~ (r >= LastRound)
  <2>1. PICK cs \in CrashingSends(p, Head(ms)) : Send(p, cs, inFlight)
    BY <1>2, <1>3, <1>5
  <2>2. PICK t \in {"Crashed", "Crashing"} :
          (t = "Crashed" \/ recheck) /\ state' = [state EXCEPT ![p] = t]
    BY <1>2, <1>3, <1>5
  <2>3. PICK W : /\ Wave(p, n, W) /\ Sends(p, n + 1, inFlight, W)
                 /\ \A k \in W : ~ IsLost(k) => k.wrote = r
    BY <1>1, <1>5, <2>1, CrashingWrites
  <2>4. Tells(p, r, s, recheck, n, inFlight, W, t)
    BY <1>4, <1>5, <2>2, <2>3 DEF Tells
  <2> QED
    BY <2>4 DEF n
<1>6. CASE ~ (s = "Crashing" /\ ~ (r >= LastRound))
  <2>1. Send(p, ms, inFlight)
    BY <1>2, <1>3, <1>6
  <2>2. PICK t \in {s, "Crashing"} :
          (t = s \/ (recheck /\ p \in faultySet)) /\ state' = [state EXCEPT ![p] = t]
    BY <1>2, <1>3, <1>6
  <2>3. PICK W : Writes(p, r, n, inFlight, W)
    BY <1>1, <2>1, ClientWrites
  <2>4. Tells(p, r, s, recheck, n, inFlight, W, t)
    BY <1>4, <1>6, <2>2, <2>3 DEF Tells, Writes
  <2> QED
    BY <2>4 DEF n
<1> QED
  BY <1>5, <1>6

LEMMA AfterTells ==
  ASSUME RoundInv, NEW p \in ALL, NEW r, NEW s, NEW recheck \in BOOLEAN, NEW inFlight,
         NEW W, NEW t, Tells(p, r, s, recheck, Sending(p), inFlight, W, t)
  PROVE  /\ OnlyAt(clientRound, clientRound', p) /\ clientRound'[p] = r
         /\ OnlyAt(state, state', p) /\ state'[p] = t
         /\ r >= LastRound => sender'[p].sendRound = Sending(p)
         /\ ~ (r >= LastRound) => sender'[p].sendRound = Sending(p) + 1
         /\ \/ W = {} /\ Sends(p, Sending(p), inFlight, W)
            \/ Sends(p, Sending(p) + 1, inFlight, W)
<1>1. /\ OnlyAt(clientRound, clientRound', p) /\ clientRound'[p] = r
      /\ OnlyAt(state, state', p) /\ state'[p] = t
  BY DEF Tells, OnlyAt, RoundInv, ProgressInv
<1>2. /\ r >= LastRound => sender'[p].sendRound = Sending(p)
      /\ ~ (r >= LastRound) => sender'[p].sendRound = Sending(p) + 1
  BY DEF Tells, Sends, Fresh, RoundInv, ProgressInv
<1> QED
  BY <1>1, <1>2 DEF Tells

\* A crashed process goes on sending messages that reach nobody.
LEMMA CrashedTells ==
  ASSUME SystemInv, RoundInv, Kept, NEW p \in ALL, state[p] = "Crashed", NEW inFlight, NEW rr,
         SendCrashed(p, inFlight), UNCHANGED <<clientRound, state>>,
         OnlyAt(preStarted, preStarted', p),
         Progress(stack, clientRound[p], rr, Sending(p) + 1, "Crashed", preStarted'[p])
  PROVE  \E W : Told(p, rr, inFlight, W)
<1>1. sender[p] = Fresh(Sending(p)) /\ Sending(p) \in Nat /\ IsFiniteSet(ALL)
  BY Bounds DEF RoundInv, ProgressInv
<1>2. PICK W : /\ Wave(p, Sending(p), W) /\ Sends(p, Sending(p) + 1, inFlight, W)
               /\ \A k \in W : IsLost(k)
  BY <1>1, CrashedWrites
<1>3. sender'[p].sendRound = Sending(p) + 1
  BY <1>2 DEF Sends, Fresh, RoundInv, ProgressInv
<1>4. p \in Dead'
  BY DEF Dead, Kept
<1>5. /\ OnlyAt(clientRound, clientRound', p) /\ OnlyAt(state, state', p)
      /\ clientRound'[p] = clientRound[p]
  BY DEF OnlyAt, RoundInv, ProgressInv
<1>6. p \in faultySet
  BY DEF RoundInv, ProgressInv
<1>7. Told(p, rr, inFlight, W)
  BY <1>2, <1>3, <1>4, <1>5, <1>6 DEF Told
<1> QED
  BY <1>7

LEMMA FirstPreStart ==
  ASSUME SystemInv, RoundInv, Kept, Failing, NEW p \in ALL, PreStartFailures(p)
  PROVE  RoundInv'
<1>1. /\ preStarted[p] = 0 /\ state[p] = "Running" /\ Sending(p) = 0 /\ recvRound[p] = 0
  BY DEF PreStartFailures, RoundInv, ProgressInv, Progress, Failing
<1>2. /\ OnlyAt(preStarted, preStarted', p) /\ preStarted'[p] = 1
      /\ UNCHANGED <<recvRound, recvStash, messageQueue, batch>>
  BY DEF PreStartFailures, OnlyAt, RoundInv, ProgressInv
<1>3. PICK s \in AfterCheck(p, state[p]) : ClientTold(p, 0, s, TRUE, network)
  BY DEF PreStartFailures, OnInitRound
<1>4. PICK W, t : Tells(p, 0, s, TRUE, Sending(p), network, W, t)
  BY <1>3, ClientTells
<1>5. /\ OnlyAt(clientRound, clientRound', p) /\ clientRound'[p] = 0
      /\ OnlyAt(state, state', p) /\ state'[p] = t
      /\ sender'[p].sendRound = 1
      /\ \/ W = {} /\ Sends(p, Sending(p), network, W)
         \/ Sends(p, Sending(p) + 1, network, W)
  <2>1. /\ OnlyAt(clientRound, clientRound', p) /\ clientRound'[p] = 0
        /\ OnlyAt(state, state', p) /\ state'[p] = t
        /\ ~ (0 >= LastRound) => sender'[p].sendRound = Sending(p) + 1
        /\ \/ W = {} /\ Sends(p, Sending(p), network, W)
           \/ Sends(p, Sending(p) + 1, network, W)
    BY <1>4, AfterTells
  <2> QED
    BY <1>1, <2>1, RoundAssumption
<1>6. s \in {"Running", "Crashing"} /\ (p \notin faultySet => s = "Running")
  BY <1>1, <1>3 DEF AfterCheck
<1>7. /\ Wave(p, Sending(p), W) /\ \A k \in W : ~ IsLost(k) => k.wrote = 0
      /\ t \in {"Running", "Crashing", "Crashed"} /\ (p \notin faultySet => t = "Running")
      /\ \A k \in W : IsLost(k) => t \in {"Crashing", "Crashed"}
  BY <1>4, <1>6, RoundAssumption DEF Tells
<1>8. t \in {"Crashing", "Crashed"} => p \in Dead'
  BY <1>2, <1>5 DEF Dead, Kept
<1>9. Progress(stack, 0, 0, 1, t, 1)
  BY <1>7 DEF Progress, Failing
<1>10. p \notin Dead /\ Wrote(stack, 0) = 0
  BY <1>1 DEF Dead, Wrote
<1>11. Told(p, recvRound[p], network, W)
  BY <1>1, <1>2, <1>5, <1>7, <1>8, <1>9, <1>10 DEF Told
<1> QED
  BY <1>2, <1>5, <1>11, Emission

LEMMA SecondPreStart ==
  ASSUME SystemInv, RoundInv, Kept, Failing, NEW p \in ALL, PreStartRoundBased(p)
  PROVE  RoundInv'
<1>1. /\ preStarted[p] = 1 /\ state[p] \in {"Running", "Crashing", "Crashed"}
      /\ Sending(p) = 1 /\ recvRound[p] = 0 /\ clientRound[p] = 0
      /\ p \notin faultySet => state[p] = "Running"
  BY DEF PreStartRoundBased, RoundInv, ProgressInv, Progress, Failing
<1>2. /\ OnlyAt(preStarted, preStarted', p) /\ preStarted'[p] = 2
      /\ UNCHANGED <<recvRound, recvStash, messageQueue, batch>>
  BY DEF PreStartRoundBased, OnlyAt, RoundInv, ProgressInv
<1>3. CASE state[p] = "Crashed"
  <2>1. SendCrashed(p, network) /\ UNCHANGED <<state, clientRound>>
    BY <1>3 DEF PreStartRoundBased
  <2>2. Progress(stack, clientRound[p], recvRound[p], Sending(p) + 1, "Crashed", preStarted'[p])
    BY <1>1, <1>2 DEF Progress, Failing
  <2>3. PICK W : Told(p, recvRound[p], network, W)
    BY <1>2, <1>3, <2>1, <2>2, CrashedTells
  <2>4. clientRound'[p] = 0
    BY <1>1, <2>1
  <2> QED
    BY <1>2, <2>3, <2>4, Emission
<1>4. CASE state[p] # "Crashed"
  <2>1. PICK s \in AfterCheck(p, state[p]) : ClientTold(p, 0, s, FALSE, network)
    BY <1>4 DEF PreStartRoundBased, OnInitRound
  <2>2. PICK W, t : Tells(p, 0, s, FALSE, Sending(p), network, W, t)
    BY <2>1, ClientTells
  <2>3. /\ OnlyAt(clientRound, clientRound', p) /\ clientRound'[p] = 0
        /\ OnlyAt(state, state', p) /\ state'[p] = t
        /\ sender'[p].sendRound = 2
        /\ \/ W = {} /\ Sends(p, Sending(p), network, W)
           \/ Sends(p, Sending(p) + 1, network, W)
    <3>1. /\ OnlyAt(clientRound, clientRound', p) /\ clientRound'[p] = 0
          /\ OnlyAt(state, state', p) /\ state'[p] = t
          /\ ~ (0 >= LastRound) => sender'[p].sendRound = Sending(p) + 1
          /\ \/ W = {} /\ Sends(p, Sending(p), network, W)
             \/ Sends(p, Sending(p) + 1, network, W)
      <4>1. RoundInv /\ p \in ALL /\ FALSE \in BOOLEAN
        OBVIOUS
      <4> QED
        BY ONLY <2>2, <4>1, AfterTells, ZenonT(30)
    <3> QED
      BY <1>1, <3>1, RoundAssumption
  <2>4. /\ s \in {"Running", "Crashing"} /\ (p \notin faultySet => s = "Running")
        /\ state[p] = "Crashing" => s = "Crashing"
    BY <1>1, <1>4, <2>1 DEF AfterCheck
  <2>5. /\ Wave(p, Sending(p), W) /\ \A k \in W : ~ IsLost(k) => k.wrote = 0
        /\ t = IF s = "Crashing" THEN "Crashed" ELSE "Running"
        /\ \A k \in W : IsLost(k) => t = "Crashed"
    BY <2>2, <2>4, RoundAssumption DEF Tells
  <2>6. t = "Crashed" => p \in Dead'
    BY <2>3 DEF Dead, Kept
  <2>7. Progress(stack, 0, 0, 2, t, 2)
    BY <2>5, RoundAssumption DEF Progress, Failing, Smallest
  <2>8. Wrote(stack, 1) = 0 /\ (p \in Dead => state[p] = "Crashing")
    BY <1>4 DEF Dead, Wrote, Failing
  <2>9. Told(p, recvRound[p], network, W)
    BY <1>1, <1>2, <1>4, <2>3, <2>4, <2>5, <2>6, <2>7, <2>8 DEF Told
  <2> QED
    BY <1>2, <2>3, <2>9, Emission
<1> QED
  BY <1>3, <1>4

\* A round that starts in a process that has not crashed delivers what is not lost.
LEMMA Delivering ==
  ASSUME SystemInv, RoundInv, NEW m, NEW inFlight, Taken(m, inFlight), Release(m.to, m),
         state[m.to] # "Crashed",
         OnStartRound(m.to, recvRound[m.to] + 1, Released(m.to, m), inFlight)
  PROVE  Delivered(m.to, Released(m.to, m))
<1> DEFINE p == m.to
           S == Released(p, m)
           b == [q \in ALL |-> IF \E k \in S : k.from = q /\ p \notin k.lost
                               THEN (CHOOSE k \in S : k.from = q /\ p \notin k.lost).wrote
                               ELSE None]
<1>1. m \in Pending /\ p \in ALL
  BY TakenIsPending, RoundsInRange DEF RoundInv
<1>2. batch' = [batch EXCEPT ![p] = b] /\ batch = [q \in ALL |-> batch[q]]
  BY DEF OnStartRound, RoundInv, BatchInv
<1>3. \A k \in S : k.to = p
  BY <1>1, Whole DEF Release
<1>4. \A q \in ALL : \/ b[q] = None /\ \A k \in S : k.from = q => IsLost(k)
                     \/ \E k \in S : k.from = q /\ ~ IsLost(k) /\ b[q] = k.wrote
  <2> TAKE q \in ALL
  <2>1. CASE \E k \in S : k.from = q /\ p \notin k.lost
    <3> DEFINE c == CHOOSE k \in S : k.from = q /\ p \notin k.lost
    <3>1. c \in S /\ c.from = q /\ p \notin c.lost
      BY <2>1
    <3>2. b[q] = c.wrote
      BY <2>1
    <3> QED
      BY <1>3, <3>1, <3>2 DEF IsLost
  <2>2. CASE ~ \E k \in S : k.from = q /\ p \notin k.lost
    BY <1>3, <2>2 DEF IsLost
  <2> QED
    BY <2>1, <2>2
<1> HIDE DEF b
<1>5. batch'[p] = b /\ OnlyAt(batch, batch', p)
  BY <1>1, <1>2 DEF OnlyAt
<1> QED
  BY <1>4, <1>5 DEF Delivered

LEMMA FailingRelease ==
  ASSUME SystemInv, RoundInv, Kept, Failing, NEW m, NEW inFlight, Taken(m, inFlight),
         \A q \in ALL : preStarted[q] = 2, Release(m.to, m), UNCHANGED preStarted,
         OnStartRound(m.to, recvRound[m.to] + 1, Released(m.to, m), inFlight)
  PROVE  RoundInv'
<1> DEFINE p == m.to
           r == recvRound[p]
           S == Released(p, m)
<1>1. m \in Pending /\ p \in ALL
  BY TakenIsPending, RoundsInRange DEF RoundInv
<1>2. r \in Nat /\ Sending(p) \in Nat
  BY <1>1, Bounds DEF RoundInv
<1>3. /\ \A q \in Dead : state[q] = "Crashed"
      /\ p \notin faultySet => state[p] = "Running"
      /\ Progress(stack, clientRound[p], r, Sending(p), state[p], 2)
  BY <1>1 DEF Dead, RoundInv, ProgressInv
<1>4. OnlyAt(preStarted, preStarted', p) /\ preStarted'[p] = 2
  BY <1>1 DEF OnlyAt, RoundInv, ProgressInv
<1>5. CASE state[p] = "Crashed"
  <2>1. SendCrashed(p, inFlight) /\ UNCHANGED <<state, clientRound, batch>>
    BY <1>5 DEF OnStartRound
  <2>2. Progress(stack, clientRound[p], r + 1, Sending(p) + 1, "Crashed", preStarted'[p])
    BY <1>2, <1>3, <1>4, <1>5 DEF Progress, Failing
  <2>3. PICK W : Told(p, r + 1, inFlight, W)
    BY <1>1, <1>4, <1>5, <2>1, <2>2, CrashedTells
  <2> QED
    BY <2>1, <2>3, Releasing
<1>6. CASE state[p] # "Crashed"
  <2>1. \E s \in AfterCheck(p, state[p]) : ClientTold(p, r + 1, s, FALSE, inFlight)
    BY <1>6 DEF OnStartRound
  <2>2. PICK s \in AfterCheck(p, state[p]) : ClientTold(p, r + 1, s, FALSE, inFlight)
    BY <2>1
  <2>3. PICK W, t : Tells(p, r + 1, s, FALSE, Sending(p), inFlight, W, t)
    BY <1>1, <2>2, ClientTells
  <2>4. /\ OnlyAt(clientRound, clientRound', p) /\ clientRound'[p] = r + 1
        /\ OnlyAt(state, state', p) /\ state'[p] = t
        /\ r + 1 >= LastRound => sender'[p].sendRound = Sending(p)
        /\ ~ (r + 1 >= LastRound) => sender'[p].sendRound = Sending(p) + 1
        /\ \/ W = {} /\ Sends(p, Sending(p), inFlight, W)
           \/ Sends(p, Sending(p) + 1, inFlight, W)
    <3> HIDE DEF p, r, S
    <3> QED
      BY <1>1, <2>3, AfterTells
  <2>5. /\ state[p] \in {"Running", "Crashing"}
        /\ clientRound[p] = r /\ Sending(p) = Smallest(r, LastRound - 1) + 2
    BY <1>3, <1>6 DEF Progress, Failing
  <2>6. s \in {"Running", "Crashing"} /\ (p \notin faultySet => s = "Running")
    BY <1>3, <2>2, <2>5 DEF AfterCheck
  <2>7. /\ Wave(p, Sending(p), W) /\ \A k \in W : ~ IsLost(k) => k.wrote = r + 1
        /\ t \in {"Running", "Crashing", "Crashed"} /\ (p \notin faultySet => t = "Running")
        /\ \A k \in W : IsLost(k) => t = "Crashed"
        /\ t = "Crashed" => ~ (r + 1 >= LastRound)
        /\ r + 1 >= LastRound => W = {}
    BY <2>3, <2>6 DEF Tells
  <2>8. t = "Crashed" => p \in Dead'
    BY <1>1, <2>4 DEF Dead, Kept
  <2>9. Progress(stack, r + 1, r + 1, sender'[p].sendRound, t, 2)
    <3>1. CASE r + 1 >= LastRound
      <4>1. sender'[p].sendRound = LastRound + 1 /\ Smallest(r + 1, LastRound - 1) = LastRound - 1
        BY <1>2, <2>4, <2>5, <3>1, RoundAssumption DEF Smallest
      <4> QED
        BY <1>2, <2>7, <3>1, <4>1, RoundAssumption DEF Progress, Failing
    <3>2. CASE ~ (r + 1 >= LastRound)
      <4>1. sender'[p].sendRound = r + 3 /\ Smallest(r + 1, LastRound - 1) = r + 1
        BY <1>2, <2>4, <2>5, <3>2, RoundAssumption DEF Smallest
      <4> QED
        BY <1>2, <2>7, <4>1 DEF Progress, Failing
    <3> QED
      BY <3>1, <3>2
  <2>10. \A k \in W : ~ IsLost(k) => k.wrote = Wrote(stack, Sending(p))
    <3>1. CASE r + 1 >= LastRound
      BY <2>7, <3>1
    <3>2. CASE ~ (r + 1 >= LastRound)
      <4>1. Sending(p) = r + 2 /\ Wrote(stack, r + 2) = r + 1
        BY <1>2, <2>5, <3>2, RoundAssumption DEF Smallest, Wrote, Failing
      <4> QED
        BY <2>7, <4>1
    <3> QED
      BY <3>1, <3>2
  <2>11. p \notin Dead
    BY <1>3, <1>6
  <2>12. Told(p, r + 1, inFlight, W)
    BY <1>4, <1>6, <2>4, <2>7, <2>8, <2>9, <2>10, <2>11 DEF Told
  <2>13. Delivered(p, S)
    BY <1>6, Delivering
  <2>14. \A q \in Dead : state[q] = "Crashed" /\ q # p
    BY <1>3, <2>11
  <2> QED
    BY <2>4, <2>12, <2>13, <2>14, Releasing
<1> QED
  BY <1>5, <1>6

LEMMA FailingNext ==
  ASSUME SystemInv, RoundInv, Kept, Failing, NextWithFailures
  PROVE  RoundInv'
<1>1. ASSUME NEW p \in ALL, PreStartFailures(p) PROVE RoundInv'
  BY <1>1, FirstPreStart
<1>2. ASSUME NEW p \in ALL, PreStartRoundBased(p) PROVE RoundInv'
  BY <1>2, SecondPreStart
<1>3. ASSUME NEW m \in network, OnReceiveFailures(m) PROVE RoundInv'
  <2> DEFINE inFlight == network \ {m}
  <2>1. /\ Taken(m, inFlight) /\ UNCHANGED preStarted /\ \A q \in ALL : preStarted[q] = 2
        /\ \/ Stash(m.to, m, inFlight) /\ UNCHANGED state
           \/ /\ Release(m.to, m)
              /\ OnStartRound(m.to, recvRound[m.to] + 1, Released(m.to, m), inFlight)
    BY <1>3 DEF OnReceiveFailures, Taken
  <2> HIDE DEF inFlight
  <2> QED
    BY <2>1, Stashing, FailingRelease
<1> QED
  BY <1>1, <1>2, <1>3 DEF NextWithFailures

-----------------------------------------------------------------------------
(* FastAnonymousRounds.                                                      *)

\* A process that has proposed to the current round, and is not on the list yet.
IsProposal(m) ==
  \E p \in ALL : /\ m = RoundPropose(p, roundNum, roundNum)
                 /\ clientRound[p] = roundNum
                 /\ \A i \in 1 .. Len(anonList) : anonList[i].from # p

\* The messages of all processes on their way to one that still is in the round before.
IsAnswer(m) ==
  /\ m.type = "Round" /\ m.to \in ALL /\ m.round = roundNum
  /\ sendRound[m.to] = roundNum - 1
  /\ \A a \in Range(m.anons) : a.wrote = roundNum - 1
  /\ \A q \in ALL : \E a \in Range(m.anons) : a.from = q

\* Each process on the list is there once, and is in the current round.
ListInv ==
  /\ anonList \in Seq([from : ALL, wrote : {roundNum}])
  /\ \A i \in 1 .. Len(anonList) :
       /\ clientRound[anonList[i].from] = roundNum
       /\ \A j \in 1 .. Len(anonList) : anonList[i].from = anonList[j].from => i = j

FastInv ==
  /\ roundNum \in Nat
  /\ sendRound = [p \in ALL |-> sendRound[p]] /\ clientRound = [p \in ALL |-> clientRound[p]]
  /\ batch = [p \in ALL |-> batch[p]]
  /\ \A p \in ALL : \/ clientRound[p] = -1 /\ sendRound[p] = 0 /\ roundNum = 0
                    \/ /\ clientRound[p] = sendRound[p] /\ sendRound[p] \in Nat
                       /\ sendRound[p] = roundNum - 1 \/ sendRound[p] = roundNum
  /\ \A m \in network : IsProposal(m) \/ IsAnswer(m)
  /\ \A m, n \in network : IsAnswer(m) /\ IsAnswer(n) /\ m.to = n.to => m = n
  /\ ListInv
  /\ \A p, q \in ALL : clientRound[p] >= 1 => batch[p][q] = clientRound[p] - 1

LEMMA Types == \A p, r, n : RoundPropose(p, r, n).type # "Round"
BY DEF RoundPropose

LEMMA Listed ==
  ASSUME FastInv
  PROVE  /\ Len(anonList) \in Nat
         /\ \A i \in 1 .. Len(anonList) :
              anonList[i].from \in ALL /\ clientRound[anonList[i].from] = roundNum
<1> DEFINE S == [from : ALL, wrote : {roundNum}]
<1>1. anonList \in Seq(S)
  BY DEF FastInv, ListInv
<1>2. \A a \in S : a.from \in ALL
  OBVIOUS
<1> HIDE DEF S
<1>3. Len(anonList) \in Nat /\ \A i \in 1 .. Len(anonList) : anonList[i] \in S
  BY <1>1
<1> QED
  BY <1>2, <1>3 DEF FastInv, ListInv

LEMMA FastInit ==
  ASSUME SystemInv, FastInv, Kept, NEW p \in ALL, InitRoundFast(p)
  PROVE  FastInv'
<1>1. ALL' = ALL /\ coordinator' = coordinator
  BY DEF Kept, coordinator
<1>2. /\ clientRound[p] = -1 /\ sendRound[p] = 0 /\ roundNum = 0
      /\ UNCHANGED <<batch, roundNum, anonList, sendRound>>
      /\ clientRound' = [clientRound EXCEPT ![p] = 0]
      /\ network' = network \cup {RoundPropose(p, 0, 0)}
  BY RoundAssumption DEF InitRoundFast, FastInv, anonVars, Propose
<1>3. \A q \in ALL : clientRound'[q] = IF q = p THEN 0 ELSE clientRound[q]
  BY <1>2 DEF FastInv
<1>4. \A i \in 1 .. Len(anonList) : anonList[i].from # p /\ anonList[i].from \in ALL
  BY <1>2, Listed
<1>5. ListInv'
  BY <1>1, <1>2, <1>3, <1>4 DEF FastInv, ListInv
<1>6. \A m : IsAnswer(m)' <=> IsAnswer(m)
  BY <1>1, <1>2 DEF IsAnswer
<1>7. \A m \in network : IsProposal(m) => IsProposal(m)'
  BY <1>1, <1>2, <1>3 DEF IsProposal, RoundPropose
<1>8. \A m : m = RoundPropose(p, 0, 0) => IsProposal(m)'
  BY <1>1, <1>2, <1>3, <1>4 DEF IsProposal, RoundPropose
<1>9. ~ IsAnswer(RoundPropose(p, 0, 0))
  BY Types DEF IsAnswer
<1>10. \A m \in network' : (IsProposal(m) \/ IsAnswer(m))'
  BY <1>2, <1>6, <1>7, <1>8 DEF FastInv
<1>11. \A m, n \in network' : IsAnswer(m)' /\ IsAnswer(n)' /\ m.to = n.to => m = n
  BY <1>2, <1>6, <1>9 DEF FastInv
<1>12. clientRound' = [q \in ALL |-> clientRound'[q]]
  BY <1>2 DEF FastInv
<1>13. \A x, q \in ALL : clientRound'[x] >= 1 => batch'[x][q] = clientRound'[x] - 1
  BY <1>2, <1>3 DEF FastInv
<1> QED
  BY <1>1, <1>2, <1>3, <1>5, <1>10, <1>11, <1>12, <1>13 DEF FastInv

\* The list with one more at its head.
LEMMA Consed ==
  ASSUME NEW S, NEW c \in S, NEW s \in Seq(S)
  PROVE  /\ <<c>> \o s \in Seq(S) /\ Len(<<c>> \o s) = Len(s) + 1
         /\ (<<c>> \o s)[1] = c
         /\ \A i \in 1 .. Len(<<c>> \o s) :
              i = 1 \/ (i - 1 \in 1 .. Len(s) /\ (<<c>> \o s)[i] = s[i - 1])
         /\ \A i \in 1 .. Len(s) :
              i + 1 \in 1 .. Len(<<c>> \o s) /\ (<<c>> \o s)[i + 1] = s[i]
<1>1. <<c>> \in Seq(S) /\ Len(<<c>>) = 1 /\ <<c>>[1] = c
  OBVIOUS
<1>2. /\ <<c>> \o s \in Seq(S) /\ Len(<<c>> \o s) = Len(s) + 1 /\ Len(s) \in Nat
  BY <1>1
<1>3. \A i \in 1 .. Len(s) + 1 : (<<c>> \o s)[i] = IF i <= 1 THEN <<c>>[i] ELSE s[i - 1]
  BY <1>1, ConcatProperties
<1> QED
  BY <1>1, <1>2, <1>3

\* A list as long as there are processes, with nobody twice, has everybody.
LEMMA Everybody ==
  ASSUME IsFiniteSet(ALL), NEW S, NEW s \in Seq(S), Len(s) = Cardinality(ALL),
         \A i \in 1 .. Len(s) : s[i].from \in ALL,
         \A i, j \in 1 .. Len(s) : s[i].from = s[j].from => i = j
  PROVE  \A q \in ALL : \E i \in 1 .. Len(s) : s[i].from = q
<1> DEFINE D == 1 .. Len(s)
           f == [i \in D |-> s[i].from]
<1>1. f \in Injection(D, ALL)
  BY DEF Injection, IsInjective
<1>2. Cardinality(D) = Len(s)
  BY FS_Interval
<1>3. f \in Surjection(D, ALL)
  BY <1>1, <1>2, FS_Injection
<1> QED
  BY <1>3 DEF Surjection

LEMMA FastPropose ==
  ASSUME SystemInv, FastInv, Kept, NEW m, OnPropose(m)
  PROVE  FastInv'
<1>1. ALL' = ALL /\ coordinator' = coordinator /\ IsFiniteSet(ALL)
  BY RoundsAssumption, FS_Interval DEF Kept, coordinator, SystemInv
<1>2. /\ m \in network /\ m.type = "RoundPropose"
      /\ UNCHANGED <<clientRound, batch, sendRound>>
  BY DEF OnPropose
<1>3. PICK p \in ALL : /\ m = RoundPropose(p, roundNum, roundNum)
                       /\ clientRound[p] = roundNum
                       /\ \A i \in 1 .. Len(anonList) : anonList[i].from # p
  BY <1>2 DEF FastInv, IsProposal, IsAnswer
<1> DEFINE c == [from |-> p, wrote |-> roundNum]
           S == [from : ALL, wrote : {roundNum}]
           t == <<c>> \o anonList
<1>4. m.content = c /\ c \in S /\ anonList \in Seq(S)
  BY <1>3 DEF RoundPropose, FastInv, ListInv
<1>5. /\ t \in Seq(S) /\ t[1] = c
      /\ \A i \in 1 .. Len(t) : i = 1 \/ (i - 1 \in 1 .. Len(anonList) /\ t[i] = anonList[i - 1])
      /\ \A i \in 1 .. Len(anonList) : i + 1 \in 1 .. Len(t) /\ t[i + 1] = anonList[i]
  BY <1>4, Consed
<1>6. \/ /\ Len(t) = Cardinality(ALL) /\ roundNum' = roundNum + 1 /\ anonList' = <<>>
         /\ network' = (network \ {m}) \cup {AnonRound(q, t, roundNum + 1) : q \in ALL}
      \/ /\ Len(t) # Cardinality(ALL) /\ roundNum' = roundNum /\ anonList' = t
         /\ network' = network \ {m}
  BY <1>4 DEF OnPropose
<1> HIDE DEF t
<1>7. \A i \in 1 .. Len(t) :
        /\ t[i].from \in ALL /\ t[i].wrote = roundNum /\ clientRound[t[i].from] = roundNum
        /\ t[i].from = p => i = 1
        /\ \A j \in 1 .. Len(t) : t[i].from = t[j].from => i = j
  <2>1. \A i \in 1 .. Len(t) : t[i].from \in ALL /\ t[i].wrote = roundNum
    <3>1. \A a \in S : a.from \in ALL /\ a.wrote = roundNum
      OBVIOUS
    <3> HIDE DEF S
    <3> QED
      BY <1>5, <3>1
  <2>2. \A i \in 1 .. Len(anonList) :
          /\ clientRound[anonList[i].from] = roundNum /\ anonList[i].from # p
          /\ \A j \in 1 .. Len(anonList) : anonList[i].from = anonList[j].from => i = j
    BY <1>3 DEF FastInv, ListInv
  <2>3. \A i \in 1 .. Len(t) : clientRound[t[i].from] = roundNum /\ (t[i].from = p => i = 1)
    BY <1>3, <1>5, <2>2
  <2>4. \A i, j \in 1 .. Len(t) : t[i].from = t[j].from => i = j
    <3> SUFFICES ASSUME NEW i \in 1 .. Len(t), NEW j \in 1 .. Len(t), t[i].from = t[j].from
                 PROVE  i = j
      OBVIOUS
    <3>1. CASE i = 1 \/ j = 1
      BY <1>5, <2>3, <3>1
    <3>2. CASE i # 1 /\ j # 1
      <4>1. /\ i - 1 \in 1 .. Len(anonList) /\ t[i] = anonList[i - 1]
            /\ j - 1 \in 1 .. Len(anonList) /\ t[j] = anonList[j - 1]
        BY <1>5, <3>2
      <4>2. i - 1 = j - 1
        BY <2>2, <4>1
      <4> QED
        BY <4>2
    <3> QED
      BY <3>1, <3>2
  <2> QED
    BY <2>1, <2>3, <2>4
<1>8. \A k \in network \ {m} : IsProposal(k) =>
        \E q \in ALL : /\ k = RoundPropose(q, roundNum, roundNum) /\ clientRound[q] = roundNum
                       /\ \A i \in 1 .. Len(t) : t[i].from # q
  <2> SUFFICES ASSUME NEW k \in network \ {m}, IsProposal(k)
               PROVE  \E q \in ALL : /\ k = RoundPropose(q, roundNum, roundNum)
                                     /\ clientRound[q] = roundNum
                                     /\ \A i \in 1 .. Len(t) : t[i].from # q
    OBVIOUS
  <2>1. PICK q \in ALL : /\ k = RoundPropose(q, roundNum, roundNum) /\ clientRound[q] = roundNum
                         /\ \A i \in 1 .. Len(anonList) : anonList[i].from # q
    BY DEF IsProposal
  <2>2. q # p
    BY <1>3, <2>1
  <2>3. \A i \in 1 .. Len(t) : t[i].from # q
    BY <1>5, <2>1, <2>2
  <2> QED
    BY <2>1, <2>3
<1>9. CASE Len(t) # Cardinality(ALL)
  <2>1. /\ Len(t) # Cardinality(ALL) /\ roundNum' = roundNum /\ anonList' = t
        /\ network' = network \ {m}
    BY <1>6, <1>9
  <2>2. ListInv'
    BY <1>1, <1>2, <1>5, <1>7, <2>1 DEF ListInv
  <2>3. \A k : IsAnswer(k)' <=> IsAnswer(k)
    BY <1>1, <1>2, <2>1 DEF IsAnswer
  <2>4. \A k \in network' : IsProposal(k) => IsProposal(k)'
    BY <1>1, <1>2, <1>8, <2>1 DEF IsProposal, RoundPropose
  <2>5. \A k \in network' : (IsProposal(k) \/ IsAnswer(k))'
    BY <2>1, <2>3, <2>4 DEF FastInv
  <2>6. \A k, n \in network' : IsAnswer(k)' /\ IsAnswer(n)' /\ k.to = n.to => k = n
    BY <2>1, <2>3 DEF FastInv
  <2> QED
    BY <1>1, <1>2, <2>1, <2>2, <2>5, <2>6 DEF FastInv
<1>10. CASE Len(t) = Cardinality(ALL)
  <2>1. /\ roundNum' = roundNum + 1 /\ anonList' = <<>>
        /\ network' = (network \ {m}) \cup {AnonRound(q, t, roundNum + 1) : q \in ALL}
        /\ roundNum \in Nat
    BY <1>6, <1>10 DEF FastInv
  <2>2. \A q \in ALL : \E i \in 1 .. Len(t) : t[i].from = q
    BY <1>1, <1>5, <1>7, <1>10, Everybody
  <2>3. \A q \in ALL : clientRound[q] = roundNum /\ sendRound[q] = roundNum
    <3> TAKE q \in ALL
    <3>1. clientRound[q] = roundNum
      BY <1>7, <2>2
    <3>2. \/ clientRound[q] = -1
          \/ clientRound[q] = sendRound[q]
      BY DEF FastInv
    <3> QED
      BY <2>1, <3>1, <3>2
  <2>4. network \ {m} = {}
    <3> SUFFICES ASSUME NEW k \in network \ {m} PROVE FALSE
      OBVIOUS
    <3>1. CASE IsProposal(k)
      BY <1>8, <2>2, <3>1
    <3>2. CASE IsAnswer(k)
      BY <2>1, <2>3, <3>2 DEF IsAnswer
    <3> QED
      BY <3>1, <3>2 DEF FastInv
  <2>5. network' = {AnonRound(q, t, roundNum + 1) : q \in ALL}
    BY <2>1, <2>4
  <2>6. Range(t) = {t[i] : i \in 1 .. Len(t)}
    BY <1>5 DEF Range
  <2>7. /\ \A a \in Range(t) : a.wrote = roundNum
        /\ \A q \in ALL : \E a \in Range(t) : a.from = q
    BY <1>7, <2>2, <2>6
  <2>8. \A k \in network' : IsAnswer(k)'
    <3> TAKE k \in network'
    <3>1. PICK q \in ALL : k = AnonRound(q, t, roundNum + 1)
      BY <2>5
    <3>2. k.type = "Round" /\ k.to = q /\ k.anons = t /\ k.round = roundNum + 1
      BY <3>1 DEF AnonRound
    <3>3. sendRound'[q] = roundNum' - 1 /\ roundNum' - 1 = roundNum
      BY <1>2, <2>1, <2>3
    <3> QED
      BY <1>1, <2>1, <2>7, <3>2, <3>3 DEF IsAnswer
  <2>9. \A k \in network' : (IsProposal(k) \/ IsAnswer(k))'
    BY <2>8
  <2>10. \A k, n \in network' : IsAnswer(k)' /\ IsAnswer(n)' /\ k.to = n.to => k = n
    BY <2>5 DEF AnonRound
  <2>11. ListInv'
    BY <2>1 DEF ListInv
  <2>12. \A q \in ALL : /\ clientRound'[q] = sendRound'[q] /\ sendRound'[q] \in Nat
                        /\ sendRound'[q] = roundNum' - 1
    BY <1>2, <2>1, <2>3
  <2> QED
    BY <1>1, <1>2, <2>1, <2>9, <2>10, <2>11, <2>12 DEF FastInv
<1> QED
  BY <1>9, <1>10

LEMMA FastRound ==
  ASSUME SystemInv, FastInv, Kept, NEW m, OnRound(m)
  PROVE  FastInv'
<1> DEFINE p == m.to
           n == roundNum
           b == [q \in ALL |-> IF \E a \in Range(m.anons) : a.from = q
                               THEN (CHOOSE a \in Range(m.anons) : a.from = q).wrote ELSE None]
           new == IF n < LastRound THEN {RoundPropose(p, n, n)} ELSE {}
<1>1. ALL' = ALL /\ coordinator' = coordinator
  BY DEF Kept, coordinator
<1>2. m \in network /\ m.type = "Round" /\ m.round = sendRound[p] + 1
  BY DEF OnRound
<1>3. IsAnswer(m)
  BY <1>2 DEF FastInv, IsProposal, RoundPropose
<1>4. /\ p \in ALL /\ m.round = n /\ sendRound[p] = n - 1 /\ n \in Nat
      /\ clientRound[p] = n - 1 /\ n >= 1
  BY <1>3 DEF IsAnswer, FastInv
<1>5. /\ sendRound' = [sendRound EXCEPT ![p] = n] /\ clientRound' = [clientRound EXCEPT ![p] = n]
      /\ batch' = [batch EXCEPT ![p] = b]
      /\ network' = (network \ {m}) \cup new
      /\ UNCHANGED <<roundNum, anonList>>
  BY <1>4 DEF OnRound, Propose
<1>6. \A q \in ALL : b[q] = n - 1
  <2> TAKE q \in ALL
  <2> DEFINE a == CHOOSE x \in Range(m.anons) : x.from = q
  <2>1. \E x \in Range(m.anons) : x.from = q
    BY <1>3 DEF IsAnswer
  <2>2. a \in Range(m.anons)
    BY <2>1
  <2>3. b[q] = a.wrote
    BY <2>1
  <2> QED
    BY <1>3, <2>2, <2>3 DEF IsAnswer
<1> HIDE DEF b
<1>7. /\ \A q \in ALL : /\ sendRound'[q] = IF q = p THEN n ELSE sendRound[q]
                        /\ clientRound'[q] = IF q = p THEN n ELSE clientRound[q]
                        /\ batch'[q] = IF q = p THEN b ELSE batch[q]
      /\ sendRound' = [q \in ALL |-> sendRound'[q]]
      /\ clientRound' = [q \in ALL |-> clientRound'[q]]
      /\ batch' = [q \in ALL |-> batch'[q]]
  BY <1>4, <1>5 DEF FastInv
<1>8. \A i \in 1 .. Len(anonList) : anonList[i].from \in ALL /\ anonList[i].from # p
  BY <1>4, Listed
<1>9. ListInv'
  BY <1>1, <1>5, <1>7, <1>8 DEF FastInv, ListInv
<1>10. \A k \in network \ {m} : IsAnswer(k) => k.to # p
  BY <1>2, <1>3 DEF FastInv
<1>11. \A k \in network \ {m} : IsAnswer(k) => IsAnswer(k)'
  BY <1>1, <1>5, <1>7, <1>10 DEF IsAnswer
<1>12. \A k \in network : IsProposal(k) => IsProposal(k)'
  BY <1>1, <1>4, <1>5, <1>7 DEF IsProposal, RoundPropose
<1>13. \A k \in new : IsProposal(k)' /\ ~ IsAnswer(k)'
  <2> SUFFICES ASSUME NEW k, k = RoundPropose(p, n, n) PROVE IsProposal(k)' /\ ~ IsAnswer(k)'
    OBVIOUS
  <2>1. IsProposal(k)'
    <3>1. k = RoundPropose(p, roundNum, roundNum)' /\ p \in ALL'
      BY <1>1, <1>4, <1>5 DEF RoundPropose
    <3>2. clientRound'[p] = roundNum' /\ \A i \in 1 .. Len(anonList') : anonList'[i].from # p
      BY <1>4, <1>5, <1>7, <1>8
    <3> QED
      BY <3>1, <3>2 DEF IsProposal
  <2>2. ~ IsAnswer(k)'
    BY Types DEF IsAnswer
  <2> QED
    BY <2>1, <2>2
<1>14. \A k \in network' : (IsProposal(k) \/ IsAnswer(k))'
  BY <1>5, <1>11, <1>12, <1>13 DEF FastInv
<1>15. \A k \in network \ {m} : IsAnswer(k)' => IsAnswer(k)
  BY <1>12, Types DEF FastInv, IsProposal, IsAnswer
<1>16. \A k, l \in network' : IsAnswer(k)' /\ IsAnswer(l)' /\ k.to = l.to => k = l
  BY <1>5, <1>13, <1>15 DEF FastInv
<1>17. \A x, q \in ALL : clientRound'[x] >= 1 => batch'[x][q] = clientRound'[x] - 1
  BY <1>6, <1>7 DEF FastInv
<1>18. \A q \in ALL : \/ clientRound'[q] = -1 /\ sendRound'[q] = 0 /\ roundNum' = 0
                      \/ /\ clientRound'[q] = sendRound'[q] /\ sendRound'[q] \in Nat
                         /\ sendRound'[q] = roundNum' - 1 \/ sendRound'[q] = roundNum'
  BY <1>4, <1>5, <1>7 DEF FastInv
<1> QED
  BY <1>1, <1>4, <1>5, <1>7, <1>9, <1>14, <1>16, <1>17, <1>18 DEF FastInv

-----------------------------------------------------------------------------
(* The system.                                                               *)

Fast == stack = "FastAnonymousRounds"

Inv ==
  /\ SystemInv
  /\ ~ Fast => RoundInv
  /\ Fast => FastInv

LEMMA InitHolds ==
  ASSUME Init
  PROVE  Inv
<1>1. SystemInv
  BY RoundsAssumption DEF Init, SystemInv
<1>2. /\ sender = [p \in ALL |-> Fresh(0)]
      /\ recvRound = [p \in ALL |-> 0]
      /\ recvStash = [p \in ALL |-> [r \in Round |-> {}]]
      /\ messageQueue = [p \in ALL |-> <<>>]
      /\ network = {}
      /\ clientRound = [p \in ALL |-> -1]
      /\ batch = [p \in ALL |-> [q \in ALL |-> None]]
      /\ state = [p \in ALL |-> "Running"] /\ preStarted = [p \in ALL |-> 0]
      /\ roundNum = 0 /\ anonList = <<>> /\ sendRound = [p \in ALL |-> 0]
  BY DEF Init, InitRounds, InitFailures, InitFast, Fresh
<1>3. \A p \in ALL : Sending(p) = 0
  BY <1>2 DEF Fresh, Sending
<1>4. Pending = {}
  <2>1. \A p \in ALL : Range(messageQueue[p]) = {}
    BY <1>2 DEF Range
  <2>2. \A p \in ALL : \A r \in Round : recvStash[p][r] = {}
    BY <1>2
  <2> QED
    BY <1>2, <2>1, <2>2 DEF Pending, Travelling, Stashes
<1>5. RoundInv
  <2>1. ProgressInv
    BY <1>2, <1>3 DEF ProgressInv, Progress
  <2>2. QueueInv
    <3>1. \A p \in ALL : QueueOf(p, <<>>, network)
      BY DEF QueueOf
    <3> QED
      BY <1>2, <3>1 DEF QueueInv
  <2>3. StashInv
    BY <1>2 DEF StashInv, Filed
  <2>4. BatchInv
    BY <1>2 DEF BatchInv, BatchOf
  <2>5. PacketInv(stack, Pending, recvRound, Sendings, Dead)
    BY <1>4 DEF PacketInv
  <2> QED
    BY <2>1, <2>2, <2>3, <2>4, <2>5 DEF RoundInv
<1>6. FastInv
  BY <1>2 DEF FastInv, ListInv
<1> QED
  BY <1>1, <1>5, <1>6 DEF Inv

LEMMA NextHolds ==
  ASSUME Inv, Next
  PROVE  Inv'
<1>1. SystemInv /\ SystemInv' /\ Kept
  BY DEF Inv, Next, SystemInv, Kept
<1>2. Fast' = Fast
  BY DEF Next, Fast
<1>3. CASE stack = "RoundBased" /\ NextRoundBased /\ UNCHANGED <<failureVars, anonVars>>
  BY <1>1, <1>2, <1>3, PlainNext DEF Inv, Fast, Plain, failureVars
<1>4. CASE stack = "SynchronousRounds" /\ NextSynchronous /\ UNCHANGED <<failureVars, anonVars>>
  BY <1>1, <1>2, <1>4, PlainNext DEF Inv, Fast, Plain, failureVars
<1>5. CASE stack = "RoundBasedWithFailures" /\ NextWithFailures
  BY <1>1, <1>2, <1>5, FailingNext DEF Inv, Fast, Failing
<1>6. CASE Fast /\ NextFast
  <2>1. FastInv
    BY <1>6 DEF Inv
  <2>2. FastInv'
    BY <1>1, <1>6, <2>1, FastInit, FastPropose, FastRound DEF NextFast
  <2> QED
    BY <1>1, <1>2, <1>6, <2>2 DEF Inv
<1> QED
  BY <1>3, <1>4, <1>5, <1>6 DEF Next, Fast

LEMMA StutterHolds ==
  ASSUME Inv, UNCHANGED vars
  PROVE  Inv'
<1> USE DEF vars, roundVars, failureVars, anonVars
<1>1. SystemInv' = SystemInv /\ Fast' = Fast
  BY DEF SystemInv, Fast
<1>2. Pending' = Pending
  BY DEF Pending, Travelling, Stashes, Round
<1>3. RoundInv' = RoundInv
  <2>1. ProgressInv' = ProgressInv
    BY DEF ProgressInv, Sending
  <2>2. QueueInv' = QueueInv
    BY DEF QueueInv
  <2>3. StashInv' = StashInv
    BY DEF StashInv, Travelling, Round
  <2>4. BatchInv' = BatchInv
    BY <1>2 DEF BatchInv
  <2>5. Sendings' = Sendings /\ Dead' = Dead
    BY DEF Sendings, Sending, Dead
  <2>6. PacketInv(stack, Pending, recvRound, Sendings, Dead)'
          = PacketInv(stack, Pending, recvRound, Sendings, Dead)
    BY <1>2, <2>5 DEF PacketInv, Good
  <2> QED
    BY <2>1, <2>2, <2>3, <2>4, <2>6 DEF RoundInv
<1>4. FastInv' = FastInv
  BY DEF FastInv, ListInv, IsProposal, IsAnswer, RoundPropose, coordinator
<1> QED
  BY <1>1, <1>3, <1>4 DEF Inv

\* What every theorem rests on: the invariant of the stack of protocols that runs.
THEOREM InvHolds == Spec => []Inv
<1>1. Init => Inv
  BY InitHolds
<1>2. Inv /\ [Next]_vars => Inv'
  BY NextHolds, StutterHolds
<1> QED
  BY <1>1, <1>2, PTL DEF Spec

-----------------------------------------------------------------------------
(* What a round promises to the clients.                                      *)

LEMMA InvIsWhole ==
  ASSUME Inv
  PROVE  BatchesAreWhole
<1> SUFFICES ASSUME NEW p \in ALL, NEW q \in ALL, clientRound[p] >= 1,
                    stack # "RoundBasedWithFailures"
             PROVE  batch[p][q] = clientRound[p] - 1
  BY DEF BatchesAreWhole
<1>1. CASE Fast
  BY <1>1 DEF Inv, FastInv, Fast
<1>2. CASE ~ Fast
  <2>1. clientRound[p] \in Int /\ BatchOf(stack, Pending, clientRound, batch, state, p, q)
    BY <1>2, Bounds DEF Inv, RoundInv, BatchInv
  <2>2. state[q] # "Crashed"
    BY <1>2, NobodyDies DEF Inv, Plain, Failing, Dead
  <2> QED
    BY <2>1, <2>2 DEF BatchOf, Wrote
<1> QED
  BY <1>1, <1>2

\* StartRound(r) carries exactly one message from every process, the one it wrote in the
\* previous round, for any number of processes and of rounds, however the messages overtake
\* each other, below the three protocols without failures.
THEOREM BatchesAreWholeHolds == Spec => []BatchesAreWhole
<1>1. Inv => BatchesAreWhole
  BY InvIsWhole
<1> QED
  BY <1>1, InvHolds, PTL

LEMMA InvAgrees ==
  ASSUME Inv
  PROVE  BatchesAgree
<1> SUFFICES ASSUME stack = "RoundBasedWithFailures" PROVE BatchesAgree
  BY DEF BatchesAgree
<1>1. ASSUME NEW p \in ALL, NEW q \in ALL, clientRound[p] >= 1
      PROVE  \/ batch[p][q] = Wrote(stack, clientRound[p] - 1)
             \/ batch[p][q] = None /\ state[q] = "Crashed"
  BY <1>1, Bounds DEF Inv, RoundInv, BatchInv, Fast, BatchOf
<1>2. ASSUME NEW p \in ALL, clientRound[p] >= 1
      PROVE  Wrote(stack, clientRound[p] - 1) # None
  BY <1>2, Bounds DEF Inv, RoundInv, Fast, Wrote, None
<1> QED
  BY <1>1, <1>2 DEF BatchesAgree

\* With failures, for any number of processes and of rounds, any of which may crash but one:
\* the messages of a round were all written in one and the same round, for all clients,
\* and only those of crashed processes are missing.
THEOREM BatchesAgreeHolds == Spec => []BatchesAgree
<1>1. Inv => BatchesAgree
  BY InvAgrees
<1> QED
  BY <1>1, InvHolds, PTL

LEMMA InvIsLockstep ==
  ASSUME Inv
  PROVE  Lockstep
<1>1. CASE Fast
  <2>1. /\ \A p \in ALL : clientRound[p] \in roundNum - 1 .. roundNum
        /\ roundNum \in Nat /\ Ahead = 1
    BY <1>1 DEF Inv, FastInv, Ahead, Fast
  <2>2. \A m \in network : m.round = RoundOf(m)
    <3> TAKE m \in network
    <3>1. CASE IsProposal(m)
      BY <1>1, <3>1 DEF IsProposal, RoundPropose, RoundOf, Fast
    <3>2. CASE IsAnswer(m)
      <4>1. m.type # "RoundPropose" /\ sendRound[m.to] + 1 = roundNum
        BY <2>1, <3>2 DEF IsAnswer
      <4> QED
        BY <1>1, <3>2, <4>1 DEF IsAnswer, RoundOf, Fast
    <3> QED
      BY <1>1, <3>1, <3>2 DEF Inv, FastInv
  <2>3. \A m \in network : m.round \in Int
    BY <1>1, <2>1 DEF Inv, FastInv, IsProposal, IsAnswer, RoundPropose
  <2>4. \A m \in network : m.round \in RoundOf(m) .. RoundOf(m) + 2 * Ahead - 1
    BY <2>1, <2>2, <2>3
  <2>5. \A p, q \in ALL : clientRound[p] <= clientRound[q] + Ahead
    BY <2>1
  <2> QED
    BY <2>2, <2>4, <2>5 DEF Lockstep
<1>2. CASE ~ Fast
  <2> USE DEF Inv
  <2>1. SystemInv /\ ProgressInv /\ PacketInv(stack, Pending, recvRound, Sendings, Dead)
    BY <1>2 DEF RoundInv
  <2>2. ASSUME NEW p \in ALL, NEW q \in ALL, state[p] # "Crashed", state[q] # "Crashed"
        PROVE  clientRound[p] <= clientRound[q] + Ahead
    <3>1. recvRound[p] <= Sending(q) /\ clientRound[p] <= recvRound[p]
      BY <2>1, Bounds DEF ProgressInv
    <3>2. Sending(q) <= clientRound[q] + Ahead
      BY <2>1, <2>2, RoundAssumption DEF ProgressInv, Progress, Smallest, Ahead
    <3>3. Ahead \in Nat
      BY DEF Ahead
    <3> QED
      BY <2>1, <3>1, <3>2, <3>3, Bounds
  <2>3. \A m \in network : m.round \in RoundOf(m) .. RoundOf(m) + 2 * Ahead - 1
    <3> TAKE m \in network
    <3>1. m \in Pending
      BY DEF Pending, Travelling
    <3>2. /\ m.to \in ALL /\ m.from \in ALL /\ m.round \in Nat
          /\ recvRound[m.to] <= m.round /\ m.round < Sending(m.from)
      BY <2>1, <3>1, RoundsInRange DEF Round
    <3>3. Sending(m.from) <= recvRound[m.from] + Ahead
      BY <2>1, <3>2, RoundAssumption DEF ProgressInv, Progress, Smallest, Ahead
    <3>4. recvRound[m.from] <= Sending(m.to) /\ Sending(m.to) <= recvRound[m.to] + Ahead
      BY <2>1, <3>2, RoundAssumption DEF ProgressInv, Progress, Smallest, Ahead
    <3>5. RoundOf(m) = recvRound[m.to]
      BY <1>2 DEF RoundOf, Fast
    <3>6. /\ Ahead \in Nat /\ recvRound[m.to] \in Nat /\ recvRound[m.from] \in Nat
          /\ Sending(m.to) \in Nat /\ Sending(m.from) \in Nat
      BY <2>1, <3>2, Bounds DEF Ahead
    <3> QED
      BY <3>2, <3>3, <3>4, <3>5, <3>6
  <2> QED
    BY <1>2, <2>2, <2>3 DEF Lockstep, Fast
<1> QED
  BY <1>1, <1>2

\* No client runs ahead of another by more than the rounds that its protocol sends before it
\* receives, and no message is on its way to a process that is past its round: neither the
\* exception of SynchronousRounds nor the MatchError of FastAnonymousRounds is thrown.
THEOREM LockstepHolds == Spec => []Lockstep
<1>1. Inv => Lockstep
  BY InvIsLockstep
<1> QED
  BY <1>1, InvHolds, PTL

\* A process without a message from q, in a round after the first, is below
\* RoundBasedWithFailures, and all that q still has on its way to it is lost.
LEMMA MissingIsLost ==
  ASSUME Inv, NEW p \in ALL, NEW q \in ALL, clientRound[p] >= 2, batch[p][q] = None
  PROVE  Failing /\ \A m \in Pending : m.to = p /\ m.from = q => IsLost(m)
<1>1. ~ Fast
  <2>1. Fast => batch[p][q] = clientRound[p] - 1 /\ clientRound[p] \in Int
    BY DEF Inv, FastInv
  <2> QED
    BY <2>1 DEF None
<1>2. clientRound[p] \in Int /\ BatchOf(stack, Pending, clientRound, batch, state, p, q)
  BY <1>1, Bounds DEF Inv, RoundInv, BatchInv
<1>3. batch[p][q] # Wrote(stack, clientRound[p] - 1)
  BY <1>2 DEF Wrote, None
<1>4. state[q] = "Crashed" /\ \A m \in Pending : m.to = p /\ m.from = q => IsLost(m)
  BY <1>2, <1>3 DEF BatchOf
<1> QED
  BY <1>1, <1>4, NobodyDies DEF Inv, Plain, Failing

LEMMA MissingStays ==
  ASSUME Inv, [Next]_vars, NEW p \in ALL, NEW q \in ALL, clientRound[p] >= 2, batch[p][q] = None
  PROVE  batch'[p][q] = None
<1>1. Failing /\ \A m \in Pending : m.to = p /\ m.from = q => IsLost(m)
  BY MissingIsLost
<1>2. CASE UNCHANGED batch
  BY <1>2
<1>3. CASE NextWithFailures /\ ~ UNCHANGED batch
  <2>1. PICK m \in network : OnReceiveFailures(m)
    BY <1>3 DEF NextWithFailures, PreStartFailures, PreStartRoundBased
  <2> DEFINE inFlight == network \ {m}
             S == Released(m.to, m)
  <2>2. Taken(m, inFlight)
    BY <2>1 DEF Taken, OnReceiveFailures
  <2>3. /\ Release(m.to, m)
        /\ OnStartRound(m.to, recvRound[m.to] + 1, S, inFlight)
        /\ state[m.to] # "Crashed"
    BY <1>3, <2>1 DEF OnReceiveFailures, Stash, OnStartRound
  <2>4. SystemInv /\ RoundInv /\ m \in Pending
    BY <1>1, <2>2, TakenIsPending DEF Inv, Fast, Failing, RoundInv
  <2>5. Delivered(m.to, S)
    BY <2>2, <2>3, <2>4, Delivering
  <2>6. \A k \in S : k \in Pending /\ k.to = m.to
    BY <2>3, <2>4, Whole DEF Release
  <2>7. CASE p # m.to
    BY <2>5, <2>7 DEF Delivered, OnlyAt
  <2>8. CASE p = m.to
    BY <1>1, <2>5, <2>6, <2>8 DEF Delivered
  <2> QED
    BY <2>7, <2>8
<1> QED
  BY <1>1, <1>2, <1>3 DEF Next, Failing, vars, roundVars

\* A process from which a message was missing in a round after the first is not heard of
\* again: a crash that a client has seen is never undone by checkCrashing.
THEOREM CrashIsFinalHolds == Spec => CrashIsFinal
<1>1. Inv /\ [Next]_vars =>
        [\A p, q \in ALL :
           clientRound[p] >= 2 /\ batch[p][q] = None => batch'[p][q] = None]_vars
  BY MissingStays
<1> QED
  BY <1>1, InvHolds, PTL DEF Spec, CrashIsFinal
=============================================================================
