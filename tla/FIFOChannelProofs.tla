-------------------------- MODULE FIFOChannelProofs --------------------------
(***************************************************************************)
(* Theorems about FIFO channels, for any processes, links and messages, and *)
(* any order of arrival.                                                    *)
(***************************************************************************)
EXTENDS FIFOChannel, FiniteSetTheorems, SequenceTheorems, TLAPS

USE FIFOAssumption DEF FIFOAssumption, Channel

-----------------------------------------------------------------------------
\* Sequences: a function is one, a prefix, and a concatenation.
LEMMA FunctionIsSeq ==
  ASSUME NEW N \in Nat, NEW S, NEW f \in [1 .. N -> S]
  PROVE  f \in Seq(S) /\ Len(f) = N
OBVIOUS

LEMMA PrefixIs ==
  ASSUME NEW S, NEW s \in Seq(S), NEW n \in 0 .. Len(s)
  PROVE  /\ SubSeq(s, 1, n) \in Seq(S) /\ Len(SubSeq(s, 1, n)) = n
         /\ \A k \in 1 .. n : SubSeq(s, 1, n)[k] = s[k]
<1>1. \A k \in 1 .. n : s[k] \in S
  BY ElementOfSeq
<1>2. 1 \in Int /\ n \in Int /\ n - 1 + 1 = n /\ (1 > n => n = 0)
  OBVIOUS
<1> QED
  BY <1>1, <1>2, SubSeqProperties

LEMMA ConcatIs ==
  ASSUME NEW S, NEW s \in Seq(S), NEW t \in Seq(S), NEW u \in Seq(S),
         Len(u) = Len(s) + Len(t),
         \A k \in 1 .. Len(s) : u[k] = s[k],
         \A k \in 1 .. Len(t) : u[Len(s) + k] = t[k]
  PROVE  s \o t = u
<1>1. /\ s \o t \in Seq(S) /\ Len(s \o t) = Len(s) + Len(t)
      /\ \A k \in 1 .. Len(s) + Len(t) : (s \o t)[k] =
           IF k <= Len(s) THEN s[k] ELSE t[k - Len(s)]
  BY ConcatProperties
<1>2. Len(s) \in Nat /\ Len(t) \in Nat
  OBVIOUS
<1>3. ASSUME NEW k \in 1 .. Len(s) + Len(t) PROVE (s \o t)[k] = u[k]
  <2>1. CASE k <= Len(s)
    BY <2>1, <1>1, <1>2
  <2>2. CASE k > Len(s)
    <3>1. k - Len(s) \in 1 .. Len(t) /\ Len(s) + (k - Len(s)) = k /\ ~ (k <= Len(s))
      BY <2>2, <1>2
    <3> QED
      BY <3>1, <1>1
  <2> QED
    BY <2>1, <2>2, <1>2
<1> QED
  BY <1>1, <1>3, SeqEqual

-----------------------------------------------------------------------------
Infos   == [seqNum : Nat, msg : Msg]
Packets == [link : Link, info : Infos]

Types ==
  /\ nextSendTo \in [Channel -> Nat]
  /\ nextReceiveFrom \in [Channel -> Nat]
  /\ messageBuffer \in [Channel -> SUBSET Infos]
  /\ network \subseteq Packets
  /\ sent \in [Link -> Seq(Msg)]
  /\ delivered \in [Link -> Seq(Msg)]

(***************************************************************************)
(* The state of a link.  The counters of both ends delimit the messages sent *)
(* and not delivered.  Each of these is either on its way or in the buffer,  *)
(* once, under its own number; the next one to deliver is not in the buffer. *)
(***************************************************************************)
Counters(l) ==
  /\ nextSendTo[l] = Len(sent[l])
  /\ nextReceiveFrom[l] <= nextSendTo[l]
  /\ delivered[l] = SubSeq(sent[l], 1, nextReceiveFrom[l])

Genuine(l, i) ==
  /\ nextReceiveFrom[l] <= i.seqNum /\ i.seqNum < nextSendTo[l]
  /\ i.msg = sent[l][i.seqNum + 1]

OnItsWay(l, i) == [link |-> l, info |-> i] \in network

PendingInv(l) ==
  /\ \A i \in Infos : i \in messageBuffer[l] \/ OnItsWay(l, i) => Genuine(l, i)
  /\ \A i \in Infos : ~ (i \in messageBuffer[l] /\ OnItsWay(l, i))

CompleteInv(l) ==
  /\ \A k \in Nat : nextReceiveFrom[l] <= k /\ k < nextSendTo[l] =>
       \E i \in Infos : i.seqNum = k /\ (i \in messageBuffer[l] \/ OnItsWay(l, i))
  /\ \A i \in messageBuffer[l] : i.seqNum # nextReceiveFrom[l]

LinkInv(l) == Counters(l) /\ PendingInv(l) /\ CompleteInv(l)

ChannelInv == Types /\ \A l \in Link : LinkInv(l)

LEMMA ChannelInit == Init => ChannelInv
<1> SUFFICES ASSUME Init PROVE ChannelInv
  OBVIOUS
<1>1. Types
  BY DEF Init, Types
<1>2. ASSUME NEW l \in Link PROVE LinkInv(l)
  <2>1. /\ nextSendTo[l] = 0 /\ nextReceiveFrom[l] = 0 /\ messageBuffer[l] = {}
        /\ network = {} /\ sent[l] = <<>> /\ delivered[l] = <<>>
    BY DEF Init
  <2>2. SubSeq(sent[l], 1, 0) = <<>>
    BY SubSeqEmpty
  <2>3. Counters(l)
    BY <2>1, <2>2 DEF Counters
  <2> QED
    BY <2>1, <2>3 DEF LinkInv, PendingInv, CompleteInv, OnItsWay
<1> QED
  BY <1>1, <1>2 DEF ChannelInv

-----------------------------------------------------------------------------
LEMMA SendStep ==
  ASSUME ChannelInv, NEW p \in Process, NEW m \in Msg, NEW D \in SUBSET Process,
         OnSend(p, m, D)
  PROVE  ChannelInv'
<1> DEFINE L == To(p, D)
<1>0. Types
  BY DEF ChannelInv
<1>1. /\ nextSendTo' = [c \in Channel |-> IF c \in L THEN nextSendTo[c] + 1
                                                   ELSE nextSendTo[c]]
      /\ network' = network \cup
           {[link |-> l, info |-> Info(Numbered(l), m)] : l \in L \cap Link}
      /\ sent' = [l \in Link |-> IF l \in L THEN Append(sent[l], m) ELSE sent[l]]
      /\ UNCHANGED <<nextReceiveFrom, messageBuffer, delivered>>
  BY DEF OnSend
<1> HIDE DEF L
<1>2. Types'
  <2>1. \A l \in Link : Info(Numbered(l), m) \in Infos
    BY <1>0 DEF Info, Numbered, Infos, Types
  <2>2. network' \subseteq Packets
    BY <1>0, <1>1, <2>1 DEF Types, Packets
  <2>3. nextSendTo' \in [Channel -> Nat] /\ sent' \in [Link -> Seq(Msg)]
    BY <1>0, <1>1 DEF Types
  <2> QED
    BY <1>0, <1>1, <2>2, <2>3 DEF Types
<1>3. ASSUME NEW l \in Link PROVE LinkInv(l)'
  <2>1. LinkInv(l)
    BY DEF ChannelInv
  <2>2. /\ nextReceiveFrom'[l] = nextReceiveFrom[l] /\ messageBuffer'[l] = messageBuffer[l]
        /\ delivered'[l] = delivered[l]
    BY <1>1
  <2>3. /\ nextSendTo[l] \in Nat /\ nextReceiveFrom[l] \in Nat
        /\ sent[l] \in Seq(Msg) /\ messageBuffer[l] \subseteq Infos
    BY <1>0 DEF Types
  <2>10. /\ Info(nextSendTo[l], m) \in Infos
         /\ Info(nextSendTo[l], m).seqNum = nextSendTo[l] /\ Info(nextSendTo[l], m).msg = m
    BY <2>3 DEF Info, Infos
  <2>4. PICK new \in Infos : /\ new = Info(nextSendTo[l], m)
                            /\ new.seqNum = nextSendTo[l] /\ new.msg = m
    BY <2>10
  <2>5. \A i \in Infos : OnItsWay(l, i)' <=> OnItsWay(l, i) \/ (l \in L /\ i = new)
    BY <1>1, <2>4 DEF OnItsWay, Numbered
  <2>6. CASE l \notin L
    <3>1. nextSendTo'[l] = nextSendTo[l] /\ sent'[l] = sent[l]
      BY <1>1, <2>6
    <3>2. \A i \in Infos : OnItsWay(l, i)' <=> OnItsWay(l, i)
      BY <2>5, <2>6
    <3> QED
      BY <2>1, <2>2, <3>1, <3>2 DEF LinkInv, Counters, PendingInv, CompleteInv, Genuine
  <2>7. CASE l \in L
    <3>1. nextSendTo'[l] = nextSendTo[l] + 1 /\ sent'[l] = Append(sent[l], m)
      BY <1>1, <2>7
    <3>2. /\ Len(sent'[l]) = Len(sent[l]) + 1
          /\ \A k \in 1 .. Len(sent[l]) : sent'[l][k] = sent[l][k]
          /\ sent'[l][Len(sent[l]) + 1] = m
      BY <3>1, <2>3, AppendProperties
    <3>3. SubSeq(sent'[l], 1, nextReceiveFrom[l]) = SubSeq(sent[l], 1, nextReceiveFrom[l])
      <4>1. nextReceiveFrom[l] <= Len(sent[l]) /\ Len(sent[l]) \in Nat
        BY <2>1, <2>3 DEF LinkInv, Counters
      <4>2. sent'[l] \in Seq(Msg)
        BY <1>2 DEF Types
      <4> DEFINE s == SubSeq(sent'[l], 1, nextReceiveFrom[l])
                 t == SubSeq(sent[l], 1, nextReceiveFrom[l])
      <4>3. /\ nextReceiveFrom[l] \in 0 .. Len(sent[l])
            /\ nextReceiveFrom[l] \in 0 .. Len(sent'[l])
        BY <2>3, <3>2, <4>1
      <4>4. /\ s \in Seq(Msg) /\ Len(s) = nextReceiveFrom[l]
            /\ \A k \in 1 .. nextReceiveFrom[l] : s[k] = sent'[l][k]
        BY <4>2, <4>3, PrefixIs
      <4>5. /\ t \in Seq(Msg) /\ Len(t) = nextReceiveFrom[l]
            /\ \A k \in 1 .. nextReceiveFrom[l] : t[k] = sent[l][k]
        BY <2>3, <4>3, PrefixIs
      <4>7. \A k \in 1 .. nextReceiveFrom[l] : sent'[l][k] = sent[l][k]
        BY <3>2, <4>1, <2>3
      <4> HIDE DEF s, t
      <4>6. s = t
        BY <4>4, <4>5, <4>7, SeqEqual
      <4> QED
        BY <4>6 DEF s, t
    <3>4. Counters(l)'
      BY <2>1, <2>2, <2>3, <3>1, <3>2, <3>3 DEF LinkInv, Counters
    <3>5. ASSUME NEW i \in Infos, Genuine(l, i) PROVE Genuine(l, i)' /\ i # new
      BY <3>5, <2>1, <2>2, <2>3, <2>4, <3>1, <3>2 DEF Genuine, Infos, LinkInv, Counters
    <3>6. Genuine(l, new)'
      <4>1. Len(sent[l]) = nextSendTo[l] /\ nextReceiveFrom[l] <= nextSendTo[l]
        BY <2>1 DEF LinkInv, Counters
      <4>2. sent'[l][new.seqNum + 1] = new.msg
        BY <2>4, <3>2, <4>1
      <4>3. nextReceiveFrom'[l] <= new.seqNum /\ new.seqNum < nextSendTo'[l]
        BY <2>2, <2>3, <2>4, <3>1, <4>1
      <4> QED
        BY <4>2, <4>3 DEF Genuine
    <3>7. PendingInv(l)'
      <4>1. ASSUME NEW i \in Infos
            PROVE  /\ i \in messageBuffer[l] \/ OnItsWay(l, i)' => Genuine(l, i)'
                   /\ ~ (i \in messageBuffer[l] /\ OnItsWay(l, i)')
        BY <2>1, <2>5, <3>5, <3>6 DEF LinkInv, PendingInv
      <4> QED
        BY <4>1, <2>2 DEF PendingInv
    <3>8. CompleteInv(l)'
      <4>1. ASSUME NEW k \in Nat, nextReceiveFrom[l] <= k, k < nextSendTo[l] + 1
            PROVE  \E i \in Infos : i.seqNum = k /\ (i \in messageBuffer[l] \/ OnItsWay(l, i)')
        <5>1. CASE k = nextSendTo[l]
          BY <5>1, <2>4, <2>5, <2>7
        <5>2. CASE k < nextSendTo[l]
          BY <5>2, <4>1, <2>1, <2>5 DEF LinkInv, CompleteInv
        <5> QED
          BY <5>1, <5>2, <4>1, <2>3
      <4> QED
        BY <4>1, <2>1, <2>2, <3>1 DEF LinkInv, CompleteInv
    <3> QED
      BY <3>4, <3>7, <3>8 DEF LinkInv
  <2> QED
    BY <2>6, <2>7
<1> QED
  BY <1>2, <1>3 DEF ChannelInv

-----------------------------------------------------------------------------
(***************************************************************************)
(* What onReceive does: with B the buffer and the packet, the messages        *)
(* numbered first to n - 1 are all in B and leave it; the one numbered n is  *)
(* not in B.                                                               *)
(***************************************************************************)
Received(l, first, n, B) ==
  /\ n \in Nat /\ first <= n /\ n <= nextSendTo[l]
  /\ \A k \in first .. n - 1 : Info(k, sent[l][k + 1]) \in B
  /\ \A i \in B : i.seqNum # n
  /\ messageBuffer' = [messageBuffer EXCEPT ![l] = Remaining(B, first, n)]
  /\ nextReceiveFrom' = [nextReceiveFrom EXCEPT ![l] = n]
  /\ delivered' = [delivered EXCEPT ![l] = SubSeq(sent[l], 1, n)]

LEMMA ReceiveStep ==
  ASSUME ChannelInv, NEW packet \in network, OnReceive(packet)
  PROVE  \E n : Received(packet.link, nextReceiveFrom[packet.link], n,
                        messageBuffer[packet.link] \cup {packet.info})
<1> DEFINE l     == packet.link
           first == nextReceiveFrom[l]
           B     == messageBuffer[l] \cup {packet.info}
<1>3. PICK n \in first .. first + Cardinality(B) :
        /\ Released(B, first, n)
        /\ messageBuffer' = [messageBuffer EXCEPT ![l] = Remaining(B, first, n)]
        /\ nextReceiveFrom' = [nextReceiveFrom EXCEPT ![l] = n]
        /\ delivered' = [delivered EXCEPT ![l] =
             @ \o [k \in 1 .. n - first |-> MessageAt(B, first + k - 1)]]
  BY DEF OnReceive
<1>0. Types /\ l \in Link /\ LinkInv(l)
  BY DEF ChannelInv, Types, Packets
<1>1. /\ first \in Nat /\ nextSendTo[l] \in Nat /\ sent[l] \in Seq(Msg)
      /\ delivered \in [Link -> Seq(Msg)]
      /\ packet.info \in Infos /\ packet = [link |-> l, info |-> packet.info]
      /\ messageBuffer[l] \subseteq Infos
      /\ l \in Link /\ l \in Channel
  BY <1>0 DEF Types, Packets
<1> HIDE DEF l
<1>11. first = nextReceiveFrom[l] /\ B = messageBuffer[l] \cup {packet.info}
  OBVIOUS
<1> HIDE DEF first, B
<1>2. B \subseteq Infos /\ \A i \in B : Genuine(l, i)
  BY <1>0, <1>1, <1>11 DEF LinkInv, PendingInv, OnItsWay
<1>4. n \in Int /\ first <= n
  BY <1>1, <1>3
<1>5. ASSUME NEW k \in first .. n - 1
      PROVE  /\ Info(k, sent[l][k + 1]) \in B /\ k < nextSendTo[l]
             /\ MessageAt(B, k) = sent[l][k + 1]
  <2>1. PICK i \in B : i.seqNum = k
    BY <1>3 DEF Released
  <2>2. i \in Infos /\ Genuine(l, i)
    BY <1>2
  <2>3. i = Info(k, sent[l][k + 1]) /\ sent[l][k + 1] \in Msg
    BY <2>1, <2>2 DEF Infos, Info, Genuine
  <2>4. ASSUME NEW m \in Msg, Info(k, m) \in B PROVE m = sent[l][k + 1]
    <3>1. Genuine(l, Info(k, m)) /\ Info(k, m).seqNum = k /\ Info(k, m).msg = m
      BY <2>4, <1>2 DEF Info
    <3> QED
      BY <3>1 DEF Genuine
  <2>5. MessageAt(B, k) \in Msg /\ Info(k, MessageAt(B, k)) \in B
    BY <2>3 DEF MessageAt
  <2>6. k < nextSendTo[l]
    BY <2>1, <2>2 DEF Genuine
  <2> QED
    BY <2>3, <2>4, <2>5, <2>6
<1>6. n <= nextSendTo[l]
  <2>1. CASE n = first
    BY <2>1, <1>0, <1>11 DEF LinkInv, Counters
  <2>2. CASE n > first
    <3>1. n - 1 \in first .. n - 1
      BY <2>2, <1>1, <1>4
    <3> QED
      BY <3>1, <1>1, <1>4, <1>5
  <2> QED
    BY <2>1, <2>2, <1>1, <1>4
<1>7. \A i \in B : i.seqNum # n
  <2> SUFFICES ASSUME NEW i \in B, i.seqNum = n PROVE FALSE
    OBVIOUS
  <2>1. \A j \in Remaining(B, first, n) : j.seqNum \in Nat /\ n <= j.seqNum
    <3> SUFFICES ASSUME NEW j \in B, j.seqNum \notin first .. n - 1
                 PROVE  j.seqNum \in Nat /\ n <= j.seqNum
      BY DEF Remaining
    <3>1. j.seqNum \in Nat /\ first <= j.seqNum
      BY <1>2, <1>11 DEF Infos, Genuine
    <3> QED
      BY <3>1, <1>1, <1>4
  <2>2. i \in Remaining(B, first, n)
    BY <1>1, <1>4 DEF Remaining
  <2>3. IsHead(i, Remaining(B, first, n))
    BY <2>1, <2>2 DEF IsHead
  <2> QED
    BY <2>3, <1>3 DEF Released
<1>8. delivered'[l] = SubSeq(sent[l], 1, n)
  <2> DEFINE run == [k \in 1 .. n - first |-> MessageAt(B, first + k - 1)]
             old == SubSeq(sent[l], 1, first)
             all == SubSeq(sent[l], 1, n)
  <2>1. delivered'[l] = old \o run
    BY <1>0, <1>1, <1>3, <1>11 DEF LinkInv, Counters
  <2>2. Len(sent[l]) = nextSendTo[l] /\ \A k \in 1 .. n : sent[l][k] \in Msg
    BY <1>0, <1>1, <1>4, <1>6, ElementOfSeq DEF LinkInv, Counters
  <2>3. /\ old \in Seq(Msg) /\ Len(old) = first
        /\ \A k \in 1 .. first : old[k] = sent[l][k]
    <3>1. first \in 0 .. Len(sent[l])
      BY <2>2, <1>1, <1>4, <1>6
    <3> QED
      BY <3>1, <1>1, PrefixIs
  <2>4. /\ all \in Seq(Msg) /\ Len(all) = n
        /\ \A k \in 1 .. n : all[k] = sent[l][k]
    <3>1. n \in 0 .. Len(sent[l])
      BY <2>2, <1>1, <1>4, <1>6
    <3> QED
      BY <3>1, <1>1, PrefixIs
  <2>5. /\ run \in Seq(Msg) /\ Len(run) = n - first
        /\ \A k \in 1 .. n - first : run[k] = sent[l][first + k]
    <3>1. n - first \in Nat
      BY <1>1, <1>4
    <3>2. \A k \in 1 .. n - first :
            MessageAt(B, first + k - 1) = sent[l][first + k] /\ sent[l][first + k] \in Msg
      <4> TAKE k \in 1 .. n - first
      <4>1. /\ first + k - 1 \in first .. n - 1 /\ first + k - 1 + 1 = first + k
            /\ first + k \in 1 .. n
        BY <1>1, <1>4
      <4> QED
        BY <4>1, <1>5, <2>2
    <3>3. run \in [1 .. n - first -> Msg]
      BY <3>2
    <3>4. \A k \in 1 .. n - first : run[k] = MessageAt(B, first + k - 1)
      OBVIOUS
    <3> HIDE DEF run
    <3> QED
      BY <3>1, <3>2, <3>3, <3>4, FunctionIsSeq
  <2> HIDE DEF run, old, all
  <2>6. n = first + (n - first)
    BY <1>1, <1>4
  <2>7. \A k \in 1 .. first : all[k] = old[k]
    <3> TAKE k \in 1 .. first
    <3>1. k \in 1 .. n
      BY <1>1, <1>4
    <3> QED
      BY <3>1, <2>3, <2>4
  <2>9. \A k \in 1 .. n - first : all[first + k] = run[k]
    <3> TAKE k \in 1 .. n - first
    <3>1. first + k \in 1 .. n
      BY <1>1, <1>4
    <3> QED
      BY <3>1, <2>4, <2>5
  <2>8. old \o run = all
    <3>1. /\ old \in Seq(Msg) /\ run \in Seq(Msg) /\ all \in Seq(Msg)
          /\ Len(all) = Len(old) + Len(run)
      BY <2>3, <2>4, <2>5, <2>6
    <3>2. \A k \in 1 .. Len(old) : all[k] = old[k]
      BY <2>3, <2>7
    <3>3. \A k \in 1 .. Len(run) : all[Len(old) + k] = run[k]
      BY <2>3, <2>5, <2>9
    <3> QED
      BY <3>1, <3>2, <3>3, ConcatIs
  <2> QED
    BY <2>1, <2>8 DEF all
<1>9. delivered' = [delivered EXCEPT ![l] = SubSeq(sent[l], 1, n)]
  BY <1>1, <1>3, <1>8
<1>10. Received(l, first, n, B)
  <2>1. n \in Nat /\ first <= n /\ n <= nextSendTo[l]
    BY <1>1, <1>4, <1>6
  <2>2. \A k \in first .. n - 1 : Info(k, sent[l][k + 1]) \in B
    BY <1>5
  <2> QED
    BY <2>1, <2>2, <1>3, <1>7, <1>9 DEF Received
<1> QED
  BY <1>10 DEF l, first, B

LEMMA ReceiveInv ==
  ASSUME ChannelInv, NEW packet \in network, OnReceive(packet)
  PROVE  ChannelInv'
<1>1. PICK l, first, B : /\ l = packet.link /\ first = nextReceiveFrom[l]
                         /\ B = messageBuffer[l] \cup {packet.info}
  OBVIOUS
<1>2. PICK n : Received(l, first, n, B)
  BY <1>1, ReceiveStep
<1>3. network' = network \ {packet} /\ UNCHANGED <<nextSendTo, sent>>
  BY DEF OnReceive
<1>4. /\ Types /\ l \in Link /\ LinkInv(l) /\ packet.info \in Infos
      /\ packet = [link |-> l, info |-> packet.info]
  BY <1>1 DEF ChannelInv, Types, Packets
<1>5. /\ first \in Nat /\ n \in Nat /\ nextSendTo[l] \in Nat /\ sent[l] \in Seq(Msg)
      /\ messageBuffer[l] \subseteq Infos /\ l \in Channel /\ first <= n /\ n <= nextSendTo[l]
  BY <1>1, <1>2, <1>4 DEF Types, Received
<1>6. B \subseteq Infos /\ \A i \in B : Genuine(l, i)
  <2>1. OnItsWay(l, packet.info)
    BY <1>4 DEF OnItsWay
  <2>2. \A i \in B : i \in Infos /\ (i \in messageBuffer[l] \/ OnItsWay(l, i))
    BY <2>1, <1>1, <1>4, <1>5
  <2> QED
    BY <2>2, <1>4 DEF LinkInv, PendingInv
<1>7. /\ messageBuffer' = [messageBuffer EXCEPT ![l] = Remaining(B, first, n)]
      /\ nextReceiveFrom' = [nextReceiveFrom EXCEPT ![l] = n]
      /\ delivered' = [delivered EXCEPT ![l] = SubSeq(sent[l], 1, n)]
  BY <1>2 DEF Received
<1>8. Types'
  <2>1. Remaining(B, first, n) \subseteq Infos
    BY <1>6 DEF Remaining
  <2>2. SubSeq(sent[l], 1, n) \in Seq(Msg)
    <3>1. n \in 0 .. Len(sent[l])
      BY <1>4, <1>5 DEF LinkInv, Counters
    <3> QED
      BY <3>1, <1>5, PrefixIs
  <2> QED
    BY <1>3, <1>4, <1>5, <1>7, <2>1, <2>2 DEF Types
<1>9. ASSUME NEW c \in Link, c # l PROVE LinkInv(c)'
  <2>1. /\ messageBuffer'[c] = messageBuffer[c] /\ nextReceiveFrom'[c] = nextReceiveFrom[c]
        /\ delivered'[c] = delivered[c]
    BY <1>4, <1>7, <1>9 DEF Types
  <2>2. \A i \in Infos : OnItsWay(c, i)' <=> OnItsWay(c, i)
    BY <1>3, <1>4, <1>9 DEF OnItsWay
  <2>3. LinkInv(c)
    BY DEF ChannelInv
  <2> QED
    BY <1>3, <2>1, <2>2, <2>3 DEF LinkInv, Counters, PendingInv, CompleteInv, Genuine
<1>10. LinkInv(l)'
  <2>1. /\ messageBuffer'[l] = Remaining(B, first, n) /\ nextReceiveFrom'[l] = n
        /\ delivered'[l] = SubSeq(sent[l], 1, n)
        /\ nextSendTo'[l] = nextSendTo[l] /\ sent'[l] = sent[l]
    BY <1>3, <1>4, <1>5, <1>7 DEF Types
  <2>2. \A i \in Infos : OnItsWay(l, i)' <=> OnItsWay(l, i) /\ i # packet.info
    BY <1>3, <1>4 DEF OnItsWay
  <2>3. \A i \in Infos : i \in Remaining(B, first, n) =>
          i \in B /\ i.seqNum \notin first .. n - 1
    BY DEF Remaining
  <2>4. ASSUME NEW i \in Infos, i \in Remaining(B, first, n) \/ OnItsWay(l, i)'
        PROVE  Genuine(l, i) /\ i.seqNum \notin first .. n - 1
    <3>1. CASE i \in Remaining(B, first, n)
      BY <3>1, <2>3, <1>6
    <3>2. CASE OnItsWay(l, i)'
      <4>1. OnItsWay(l, i) /\ i # packet.info /\ Genuine(l, i) /\ i \notin messageBuffer[l]
        BY <3>2, <2>2, <1>4 DEF LinkInv, PendingInv
      <4>2. i \notin B
        BY <4>1, <1>1
      <4>3. i = Info(i.seqNum, sent[l][i.seqNum + 1])
        BY <4>1 DEF Genuine, Infos, Info
      <4> QED
        BY <4>1, <4>2, <4>3, <1>2 DEF Received
    <3> QED
      BY <2>4, <3>1, <3>2
  <2>5. Counters(l)'
    BY <2>1, <1>4, <1>5 DEF LinkInv, Counters
  <2>6. PendingInv(l)'
    <3>1. ASSUME NEW i \in Infos, i \in Remaining(B, first, n) \/ OnItsWay(l, i)'
          PROVE  Genuine(l, i)'
      <4>1. Genuine(l, i) /\ i.seqNum \notin first .. n - 1 /\ i.seqNum \in Nat
        BY <2>4, <3>1 DEF Infos
      <4>2. n <= i.seqNum
        BY <4>1, <1>1, <1>5 DEF Genuine
      <4> QED
        BY <4>1, <4>2, <2>1 DEF Genuine
    <3>2. ASSUME NEW i \in Infos, i \in Remaining(B, first, n), OnItsWay(l, i)'
          PROVE  FALSE
      BY <3>2, <2>2, <2>3, <1>1, <1>4 DEF LinkInv, PendingInv
    <3> QED
      BY <3>1, <3>2, <2>1 DEF PendingInv
  <2>7. CompleteInv(l)'
    <3>1. ASSUME NEW k \in Nat, n <= k, k < nextSendTo[l]
          PROVE  \E i \in Infos : /\ i.seqNum = k
                                  /\ i \in Remaining(B, first, n) \/ OnItsWay(l, i)'
      <4>1. first <= k /\ k \notin first .. n - 1
        BY <3>1, <1>5
      <4>2. PICK i \in Infos : i.seqNum = k /\ (i \in messageBuffer[l] \/ OnItsWay(l, i))
        BY <3>1, <4>1, <1>1, <1>4 DEF LinkInv, CompleteInv
      <4>3. i \in B => i \in Remaining(B, first, n)
        BY <4>1, <4>2 DEF Remaining
      <4> QED
        BY <4>2, <4>3, <2>2, <1>1
    <3>2. \A i \in Remaining(B, first, n) : i.seqNum # n
      BY <1>2 DEF Received, Remaining
    <3> QED
      BY <3>1, <3>2, <2>1 DEF CompleteInv
  <2> QED
    BY <2>5, <2>6, <2>7 DEF LinkInv
<1> QED
  BY <1>8, <1>9, <1>10 DEF ChannelInv

-----------------------------------------------------------------------------
LEMMA ChannelStep == ChannelInv /\ [Next]_vars => ChannelInv'
<1> SUFFICES ASSUME ChannelInv, [Next]_vars PROVE ChannelInv'
  OBVIOUS
<1>1. ASSUME NEW p \in Process, NEW m \in Msg, NEW D \in SUBSET Process, OnSend(p, m, D)
      PROVE  ChannelInv'
  BY <1>1, SendStep
<1>2. ASSUME NEW packet \in network, OnReceive(packet) PROVE ChannelInv'
  BY <1>2, ReceiveInv
<1>3. CASE UNCHANGED vars
  <2>1. Types'
    BY <1>3 DEF vars, ChannelInv, Types
  <2>2. ASSUME NEW l \in Link PROVE LinkInv(l)'
    <3>1. LinkInv(l)
      BY DEF ChannelInv
    <3>2. \A i : (OnItsWay(l, i)' <=> OnItsWay(l, i)) /\ (Genuine(l, i)' <=> Genuine(l, i))
      BY <1>3 DEF vars, OnItsWay, Genuine
    <3> QED
      BY <1>3, <3>1, <3>2 DEF vars, LinkInv, Counters, PendingInv, CompleteInv
  <2> QED
    BY <2>1, <2>2 DEF ChannelInv
<1> QED
  BY <1>1, <1>2, <1>3 DEF Next

\* In every reachable state, what is between the two ends of a link is exactly
\* what was sent and not delivered (FIFOChannel.scala:46-71).
THEOREM ChannelInvariant == Spec => []ChannelInv
<1>1. Init => ChannelInv
  BY ChannelInit
<1>2. ChannelInv /\ [Next]_vars => ChannelInv'
  BY ChannelStep
<1> QED
  BY <1>1, <1>2, PTL DEF Spec

-----------------------------------------------------------------------------
LEMMA NothingHeldBackInv == ChannelInv => NothingHeldBack
<1> SUFFICES ASSUME ChannelInv, NEW l \in Link, Len(delivered[l]) < Len(sent[l])
             PROVE  \E packet \in network :
                      packet.link = l /\ packet.info.seqNum = Len(delivered[l])
  BY DEF NothingHeldBack
<1>1. /\ Counters(l) /\ CompleteInv(l) /\ nextReceiveFrom[l] \in Nat /\ sent[l] \in Seq(Msg)
  BY DEF ChannelInv, LinkInv, Types
<1>2. Len(delivered[l]) = nextReceiveFrom[l]
  <2>1. nextReceiveFrom[l] \in 0 .. Len(sent[l])
    BY <1>1 DEF Counters
  <2> QED
    BY <2>1, <1>1, PrefixIs DEF Counters
<1>3. PICK i \in Infos : i.seqNum = nextReceiveFrom[l] /\ OnItsWay(l, i)
  <2>1. nextReceiveFrom[l] < nextSendTo[l]
    BY <1>1, <1>2 DEF Counters
  <2> QED
    BY <2>1, <1>1 DEF CompleteInv
<1> QED
  BY <1>2, <1>3 DEF OnItsWay

\* While some message of a link is not delivered, the first such message is on its
\* way: the loop of onReceive leaves behind no message that is next
\* (FIFOChannel.scala:66).
THEOREM NothingHeldBackHolds == Spec => []NothingHeldBack
BY ChannelInvariant, NothingHeldBackInv, PTL

-----------------------------------------------------------------------------
\* Every number in use was counted, and only links carry messages.
CountInv ==
  /\ numbered \in 0 .. MaxSent
  /\ \A c \in Channel : nextSendTo[c] <= numbered
  /\ \A c \in Channel \ Link : messageBuffer[c] = {}

LEMMA CountInit == Init => CountInv
BY DEF Init, CountInv

LEMMA CountStep == ChannelInv /\ CountInv /\ [Next]_vars => CountInv'
<1> SUFFICES ASSUME ChannelInv, CountInv, [Next]_vars PROVE CountInv'
  OBVIOUS
<1>0. Types
  BY DEF ChannelInv
<1>1. ASSUME NEW p \in Process, NEW m \in Msg, NEW D \in SUBSET Process, OnSend(p, m, D)
      PROVE  CountInv'
  <2>1. Cardinality(D) \in Nat /\ (D # {} => Cardinality(D) > 0)
    BY FS_Subset, FS_CardinalityType, FS_EmptySet
  <2>2. \A c \in Channel : nextSendTo'[c] = nextSendTo[c] \/ (nextSendTo'[c] = nextSendTo[c] + 1 /\ D # {})
    BY <1>1 DEF OnSend, To
  <2>3. UNCHANGED messageBuffer /\ numbered' = numbered + Cardinality(D) /\ numbered' <= MaxSent
    BY <1>1 DEF OnSend
  <2>4. \A c \in Channel : nextSendTo[c] \in Nat /\ nextSendTo[c] <= numbered
    BY <1>0 DEF Types, CountInv
  <2>5. \A c \in Channel : nextSendTo'[c] <= numbered'
    BY <2>1, <2>2, <2>3, <2>4 DEF CountInv
  <2> QED
    BY <2>1, <2>3, <2>5 DEF CountInv
<1>2. ASSUME NEW packet \in network, OnReceive(packet) PROVE CountInv'
  <2>1. packet.link \in Link /\ UNCHANGED <<nextSendTo, numbered>>
    BY <1>0, <1>2 DEF OnReceive, Types, Packets
  <2>2. \A c \in Channel \ Link : messageBuffer'[c] = messageBuffer[c]
    BY <1>0, <1>2, <2>1 DEF OnReceive, Types
  <2> QED
    BY <2>1, <2>2 DEF CountInv
<1>3. CASE UNCHANGED vars
  BY <1>3 DEF vars, CountInv
<1> QED
  BY <1>1, <1>2, <1>3 DEF Next

\* The counters and the numbers of messages, in buffers and on their way, stay within what
\* was sent (FIFOChannel.scala:42-44, 82): none is counted past the last one, or comes
\* through a channel that is no link.
THEOREM TypeCorrect == Spec => []TypeOK
<1>1. ChannelInv /\ CountInv => TypeOK
  <2> SUFFICES ASSUME ChannelInv, CountInv PROVE TypeOK
    OBVIOUS
  <2>0. Types
    BY DEF ChannelInv
  <2>1. ASSUME NEW l \in Link, NEW i \in Infos, i \in messageBuffer[l] \/ OnItsWay(l, i)
        PROVE  i \in FIFOInfo
    <3>1. Genuine(l, i) /\ nextSendTo[l] \in Nat /\ nextSendTo[l] <= MaxSent
      BY <2>0, <2>1 DEF ChannelInv, LinkInv, PendingInv, CountInv, Types
    <3>2. i.seqNum \in SeqNum
      BY <3>1 DEF Genuine, SeqNum, Infos
    <3> QED
      BY <3>2 DEF Infos, FIFOInfo
  <2>2. messageBuffer \in [Channel -> SUBSET FIFOInfo]
    <3>1. \A c \in Channel : messageBuffer[c] \subseteq FIFOInfo
      BY <2>0, <2>1 DEF Types, CountInv
    <3> QED
      BY <2>0, <3>1 DEF Types
  <2>3. network \subseteq [link : Link, info : FIFOInfo]
    <3> SUFFICES ASSUME NEW k \in network PROVE k \in [link : Link, info : FIFOInfo]
      OBVIOUS
    <3>1. k.link \in Link /\ k.info \in Infos /\ k = [link |-> k.link, info |-> k.info]
      BY <2>0 DEF Types, Packets
    <3>2. k.info \in FIFOInfo
      BY <2>1, <3>1 DEF OnItsWay
    <3> QED
      BY <3>1, <3>2
  <2>4. nextSendTo \in [Channel -> 0 .. MaxSent]
    BY <2>0 DEF Types, CountInv
  <2> QED
    BY <2>0, <2>2, <2>3, <2>4 DEF TypeOK, Types, CountInv
<1> QED
  BY <1>1, ChannelInvariant, CountInit, CountStep, PTL DEF Spec

-----------------------------------------------------------------------------
LEMMA SendRefines ==
  ASSUME ChannelInv, NEW p \in Process, NEW m \in Msg, NEW D \in SUBSET Process,
         OnSend(p, m, D)
  PROVE  FIFO!Next
<1>1. PICK L : L = To(p, D) \cap Link
  OBVIOUS
<1>2. FIFO!Send(L, m)
  BY <1>1 DEF OnSend, FIFO!Send
<1> QED
  BY <1>1, <1>2 DEF FIFO!Next

LEMMA ReceiveRefines ==
  ASSUME ChannelInv, NEW packet \in network, OnReceive(packet)
  PROVE  FIFO!Next \/ UNCHANGED <<sent, delivered>>
<1>1. PICK l, first, B : /\ l = packet.link /\ first = nextReceiveFrom[l]
                         /\ B = messageBuffer[l] \cup {packet.info}
  OBVIOUS
<1>2. PICK n : Received(l, first, n, B)
  BY <1>1, ReceiveStep
<1>3. UNCHANGED sent
  BY DEF OnReceive
<1>4. /\ Types /\ l \in Link /\ Counters(l)
  BY <1>1 DEF ChannelInv, LinkInv, Types, Packets
<1>5. /\ n \in Nat /\ first \in Nat /\ first <= n /\ n <= Len(sent[l])
      /\ delivered' = [delivered EXCEPT ![l] = SubSeq(sent[l], 1, n)]
      /\ delivered[l] = SubSeq(sent[l], 1, first) /\ sent[l] \in Seq(Msg)
      /\ delivered \in [Link -> Seq(Msg)]
  BY <1>1, <1>2, <1>4 DEF Received, Counters, Types
<1>6. CASE n = first
  BY <1>3, <1>4, <1>5, <1>6
<1>7. CASE n > first
  <2>1. first \in 0 .. Len(sent[l]) /\ n \in 1 .. Len(sent[l])
    BY <1>5, <1>7
  <2>2. Len(delivered[l]) = first
    BY <2>1, <1>5, PrefixIs
  <2>3. FIFO!Deliver(l, n)
    BY <2>2, <1>3, <1>5, <1>7 DEF FIFO!Deliver
  <2> QED
    BY <2>1, <2>3, <1>4 DEF FIFO!Next
<1> QED
  BY <1>5, <1>6, <1>7

\* Whatever the order of arrival, each link delivers what was sent on it, in that
\* order and once: the protocol implements the queues of FIFOQueues
\* (FIFOChannel.scala:26-27, 46-71).
THEOREM ImplementsFIFOHolds == Spec => ImplementsFIFO
<1>1. Init => FIFO!Init
  BY DEF Init, FIFO!Init
<1>2. ChannelInv /\ [Next]_vars => [FIFO!Next]_<<sent, delivered>>
  <2> SUFFICES ASSUME ChannelInv, [Next]_vars PROVE [FIFO!Next]_<<sent, delivered>>
    OBVIOUS
  <2>1. ASSUME NEW p \in Process, NEW m \in Msg, NEW D \in SUBSET Process, OnSend(p, m, D)
        PROVE  FIFO!Next
    BY <2>1, SendRefines
  <2>2. ASSUME NEW packet \in network, OnReceive(packet)
        PROVE  FIFO!Next \/ UNCHANGED <<sent, delivered>>
    BY <2>2, ReceiveRefines
  <2>3. CASE UNCHANGED vars
    BY <2>3 DEF vars
  <2> QED
    BY <2>1, <2>2, <2>3 DEF Next
<1> QED
  BY <1>1, <1>2, ChannelInvariant, PTL DEF Spec, ImplementsFIFO, FIFO!Spec
=============================================================================
