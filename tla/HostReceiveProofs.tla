------------------------- MODULE HostReceiveProofs -------------------------
(***************************************************************************)
(* Proofs about HostReceive for any kinds of frames and any number of      *)
(* them: the decoder, which takes a frame apart with several calls of      *)
(* recv(), loses its place only to bytes the peer has not sent, and only   *)
(* for the session in which it gets them.                                  *)
(***************************************************************************)
EXTENDS HostReceive, SequenceTheorems, TLAPS

Bytes == Seq(Nat \X Nat)

DatagramType == [src : {"board", "proxy", "other"}, bytes : Bytes]

DecType ==
    [pc : {"drain", "check", "type", "count", "payload", "returned", "timeout", "threw"},
     read : Bytes, kind : [ack : BOOLEAN, payload : Nat]]

NetworkTypes ==
    /\ remote_addr \in {"board", "proxy"}
    /\ frames \in Seq(Kinds)
    /\ sock \in Seq(DatagramType)
    /\ fpga_sock \in Seq(Bytes)

\* The types, and that recv_exact has something to wait for.
ReaderTypes ==
    /\ rx_packet \in Bytes /\ decoded \in Seq(Nat) /\ struck \in BOOLEAN
    /\ dec \in DecType
    /\ dec.pc = "count" => Len(dec.read) < 3
    /\ dec.pc = "payload" => Len(dec.read) < 3 + dec.kind.payload

\* b is a stretch of the n-th frame, from its byte number "from" on.
Part(b, n, from) == \A i \in 1..Len(b) : b[i] = <<n, from + i - 1>>

\* The number of the frame a byte belongs to, from its first byte.
Number(b) == b[1][1]

\* b is one of the frames fs, from its type to its last byte.
Whole(fs, b) ==
    /\ Number(b) \in 1..Len(fs)
    /\ Len(b) = 3 + fs[Number(b)].payload
    /\ Part(b, Number(b), 0)

Ours(i) == sock[i].src = remote_addr

\* Datagrams of the peer are whole frames, in the order they were sent, in
\* the host's socket and behind it in the proxy's.
Network ==
    /\ remote_addr = "board" => fpga_sock = <<>>
    /\ \A i \in 1..Len(sock) : Ours(i) => Whole(frames, sock[i].bytes)
    /\ \A j \in 1..Len(fpga_sock) : Whole(frames, fpga_sock[j])
    /\ \A i, j \in 1..Len(sock) :
          i <= j /\ Ours(i) /\ Ours(j) => Number(sock[i].bytes) <= Number(sock[j].bytes)
    /\ \A i, j \in 1..Len(fpga_sock) :
          i <= j => Number(fpga_sock[i]) <= Number(fpga_sock[j])
    /\ \A i \in 1..Len(sock), j \in 1..Len(fpga_sock) :
          Ours(i) => Number(sock[i].bytes) <= Number(fpga_sock[j])

\* Nothing older than frame n is still to come.
NothingBefore(n) ==
    /\ \A i \in 1..Len(sock) : Ours(i) => n <= Number(sock[i].bytes)
    /\ \A j \in 1..Len(fpga_sock) : n <= Number(fpga_sock[j])

\* The decoder is between two frames, or in front of one, or has read its
\* type, or its type and count; what it lacks is what the transport holds.
\* What drain_until_quiet reads is all the same.
Reader ==
    \/ dec.pc = "drain"
    \/ /\ dec.pc \in {"check", "returned", "timeout"}
       /\ rx_packet = <<>>
    \/ /\ dec.pc = "type"
       /\ rx_packet # <<>> => Whole(frames, rx_packet)
    \/ /\ dec.pc \in {"count", "payload"} /\ rx_packet # <<>>
       /\ Len(dec.read) = IF dec.pc = "count" THEN 1 ELSE 3
       /\ Number(dec.read) \in 1..Len(frames)
       /\ dec.pc = "payload" => dec.kind = frames[Number(dec.read)]
       /\ Part(dec.read, Number(dec.read), 0)
       /\ Part(rx_packet, Number(dec.read), Len(dec.read))
       /\ Len(dec.read) + Len(rx_packet) = 3 + frames[Number(dec.read)].payload

\* The frame being read or waiting to be, if any.
Current == IF dec.pc \in {"count", "payload"} THEN Number(dec.read) ELSE Number(rx_packet)

\* Frames come out in the order they were sent.
Order ==
    /\ \A i \in 1..Len(decoded) : decoded[i] \in 1..Len(frames) /\ NothingBefore(decoded[i])
    /\ \A i \in 1..Len(decoded) : \A j \in 1..i : decoded[j] <= decoded[i]
    /\ rx_packet # <<>> /\ dec.pc # "drain" =>
          /\ NothingBefore(Current)
          /\ \A i \in 1..Len(decoded) : decoded[i] <= Current

InPlace == Reader /\ Order

\* What holds whatever the decoder has got, and that it is in its place if it
\* has got nothing but what the peer has sent.
IInv == NetworkTypes /\ Network /\ ReaderTypes /\ (~struck => InPlace)

-----------------------------------------------------------------------------
(***************************************************************************)
(* Sequences.                                                              *)
(***************************************************************************)
LEMMA TailFacts ==
    ASSUME NEW S, NEW s \in Seq(S), s # <<>>
    PROVE  /\ Len(s) \in Nat \ {0} /\ Head(s) = s[1] /\ s[1] \in S
           /\ Tail(s) \in Seq(S) /\ Len(Tail(s)) = Len(s) - 1
           /\ \A i \in 1..Len(Tail(s)) : i + 1 \in 1..Len(s) /\ Tail(s)[i] = s[i + 1]
OBVIOUS

\* A datagram that arrives k times.
LEMMA RepeatFacts ==
    ASSUME NEW S, NEW s \in Seq(S), NEW x \in S, NEW k \in Nat
    PROVE  LET t == s \o [c \in 1..k |-> x]
           IN /\ t \in Seq(S) /\ Len(t) = Len(s) + k
              /\ \A i \in 1..Len(t) : t[i] = IF i <= Len(s) THEN s[i] ELSE x
<1> DEFINE r == [c \in 1..k |-> x]
<1>1. r \in Seq(S) /\ Len(r) = k /\ \A c \in 1..k : r[c] = x
  OBVIOUS
<1> HIDE DEF r
<1>2. s \o r \in Seq(S) /\ Len(s \o r) = Len(s) + k
  BY <1>1
<1>3. \A i \in 1..Len(s \o r) : (s \o r)[i] = IF i <= Len(s) THEN s[i] ELSE x
  BY <1>1, <1>2
<1> QED
  BY <1>2, <1>3 DEF r

LEMMA AppendFacts ==
    ASSUME NEW S, NEW s \in Seq(S), NEW x \in S
    PROVE  /\ Append(s, x) \in Seq(S) /\ Len(Append(s, x)) = Len(s) + 1
           /\ \A i \in 1..Len(Append(s, x)) :
                 Append(s, x)[i] = IF i <= Len(s) THEN s[i] ELSE x
OBVIOUS

\* What recv leaves of a packet.
LEMMA RestFacts ==
    ASSUME NEW b \in Bytes, NEW m \in Nat, m <= Len(b)
    PROVE  /\ SubSeq(b, m + 1, Len(b)) \in Bytes
           /\ Len(SubSeq(b, m + 1, Len(b))) = Len(b) - m
           /\ \A i \in 1..(Len(b) - m) : SubSeq(b, m + 1, Len(b))[i] = b[m + i]
BY DEF Bytes

\* ... and hands out.
LEMMA PieceFacts ==
    ASSUME NEW b \in Bytes, NEW m \in Nat, m <= Len(b)
    PROVE  /\ SubSeq(b, 1, m) \in Bytes /\ Len(SubSeq(b, 1, m)) = m
           /\ \A i \in 1..m : SubSeq(b, 1, m)[i] = b[i]
BY DEF Bytes

-----------------------------------------------------------------------------
(***************************************************************************)
(* Frames.                                                                 *)
(***************************************************************************)
\* No frame of fs is changed in gs.
Extends(fs, gs) ==
    Len(fs) <= Len(gs) /\ \A n \in 1..Len(fs) : gs[n] = fs[n]

LEMMA WholeStays ==
    ASSUME NEW fs \in Seq(Kinds), NEW gs \in Seq(Kinds), Extends(fs, gs),
           NEW b, Whole(fs, b)
    PROVE  Whole(gs, b)
BY DEF Whole, Extends

LEMMA FrameBytesWhole ==
    ASSUME NEW fs \in Seq(Kinds), NEW n \in 1..Len(fs), NEW k, k = fs[n]
    PROVE  /\ FrameBytes(n, k) \in Bytes
           /\ Number(FrameBytes(n, k)) = n
           /\ Whole(fs, FrameBytes(n, k))
<1> DEFINE b == FrameBytes(n, k)
<1>1. k \in Kinds /\ k.payload \in Nat /\ n \in Nat
  BY ReceiveAssumption
<1>2. b = [i \in 1..(3 + k.payload) |-> <<n, i - 1>>]
  BY DEF FrameBytes
<1>3. \A i \in 1..(3 + k.payload) : <<n, i - 1>> \in Nat \X Nat
  BY <1>1
<1>4. b \in Bytes
  BY <1>1, <1>2, <1>3 DEF Bytes
<1>5. Len(b) = 3 + k.payload
  BY <1>1, <1>2
<1>6. \A i \in 1..Len(b) : b[i] = <<n, 0 + i - 1>>
  BY <1>1, <1>2, <1>5
<1>7. Number(b) = n
  <2>1. b[1] = <<n, 0 + 1 - 1>>
    BY <1>1, <1>5, <1>6
  <2> QED
    BY <2>1 DEF Number
<1> HIDE DEF b
<1>8. Whole(fs, b)
  BY <1>5, <1>6, <1>7 DEF Whole, Part
<1> QED
  BY <1>4, <1>7, <1>8 DEF b

-----------------------------------------------------------------------------
(***************************************************************************)
(* The network: datagrams are added behind the others, and taken in front. *)
(***************************************************************************)
\* What a step must not do to the frames still to come.
KeepsOrder ==
    /\ Extends(frames, frames') /\ frames' \in Seq(Kinds)
    /\ \A n \in 1..Len(frames) : NothingBefore(n) =>
          /\ \A i \in 1..Len(sock') :
                sock'[i].src = remote_addr' => n <= Number(sock'[i].bytes)
          /\ \A j \in 1..Len(fpga_sock') : n <= Number(fpga_sock'[j])

NetworkSound == NetworkTypes' /\ Network' /\ KeepsOrder

LEMMA BoardSendsSound ==
    ASSUME NetworkTypes, Network, BoardSends PROVE NetworkSound
<1>1. PICK kind \in Kinds, copies \in 0..2 :
        LET bytes == FrameBytes(Len(frames) + 1, kind)
        IN /\ frames' = Append(frames, kind)
           /\ IF remote_addr = "board"
              THEN /\ sock' = sock \o [c \in 1..copies |-> [src |-> "board", bytes |-> bytes]]
                   /\ UNCHANGED fpga_sock
              ELSE /\ fpga_sock' = fpga_sock \o [c \in 1..copies |-> bytes]
                   /\ UNCHANGED sock
  BY DEF BoardSends
<1> DEFINE n == Len(frames) + 1
           b == FrameBytes(n, kind)
           d == [src |-> "board", bytes |-> b]
<1>2. /\ frames' \in Seq(Kinds) /\ Len(frames') = n /\ frames'[n] = kind
      /\ Extends(frames, frames') /\ Len(frames) \in Nat /\ n \in Nat
  <2>1. frames' = Append(frames, kind) /\ frames \in Seq(Kinds)
    BY <1>1 DEF NetworkTypes
  <2>2. /\ frames' \in Seq(Kinds) /\ Len(frames') = Len(frames) + 1 /\ Len(frames) \in Nat
        /\ \A i \in 1..Len(frames') : frames'[i] = IF i <= Len(frames) THEN frames[i] ELSE kind
    BY <2>1, AppendFacts
  <2> QED
    BY <2>2 DEF Extends
<1>3. b \in Bytes /\ Number(b) = n /\ Whole(frames', b)
  BY <1>2, FrameBytesWhole
<1>4. remote_addr' = remote_addr /\ remote_addr \in {"board", "proxy"}
  BY DEF BoardSends, NetworkTypes
<1>5. /\ \A i \in 1..Len(sock) : Ours(i) =>
            Whole(frames', sock[i].bytes) /\ Number(sock[i].bytes) <= n
                 /\ Number(sock[i].bytes) \in Nat
      /\ \A j \in 1..Len(fpga_sock) :
            Whole(frames', fpga_sock[j]) /\ Number(fpga_sock[j]) <= n
                 /\ Number(fpga_sock[j]) \in Nat
  <2>1. \A c : Whole(frames, c) =>
                 Whole(frames', c) /\ Number(c) <= n /\ Number(c) \in Nat
    <3> SUFFICES ASSUME NEW c, Whole(frames, c)
                 PROVE  Whole(frames', c) /\ Number(c) <= n /\ Number(c) \in Nat
      OBVIOUS
    <3>1. Whole(frames', c)
      BY <1>2, WholeStays DEF NetworkTypes
    <3> QED
      BY <1>2, <3>1 DEF Whole
  <2> QED
    BY <2>1 DEF Network
<1> HIDE DEF n, b
<1>6. CASE remote_addr = "board"
  <2>1. sock' = sock \o [c \in 1..copies |-> d] /\ fpga_sock' = fpga_sock
    BY <1>1, <1>6 DEF n, b
  <2>2. d \in DatagramType /\ d.src = "board" /\ d.bytes = b
    BY <1>3 DEF DatagramType
  <2> HIDE DEF d
  <2>3. /\ sock' \in Seq(DatagramType) /\ Len(sock') = Len(sock) + copies
        /\ \A i \in 1..Len(sock') : sock'[i] = IF i <= Len(sock) THEN sock[i] ELSE d
        /\ Len(sock) \in Nat
    BY <2>1, <2>2, RepeatFacts DEF NetworkTypes
  <2>4. NetworkTypes'
    BY <1>2, <1>4, <2>1, <2>3 DEF NetworkTypes
  <2>5. \A i \in 1..Len(sock') : sock'[i].src = remote_addr' =>
          /\ Whole(frames', sock'[i].bytes)
          /\ i <= Len(sock) => sock'[i] = sock[i] /\ Ours(i)
          /\ i > Len(sock) => Number(sock'[i].bytes) = n
    BY <1>3, <1>4, <1>5, <2>2, <2>3 DEF Ours
  <2>6. ASSUME NEW i \in 1..Len(sock'), NEW j \in 1..Len(sock'), i <= j,
               sock'[i].src = remote_addr', sock'[j].src = remote_addr'
        PROVE  Number(sock'[i].bytes) <= Number(sock'[j].bytes)
    <3>1. CASE j <= Len(sock)
      <4>1. i \in 1..Len(sock) /\ j \in 1..Len(sock)
        BY <2>3, <2>6, <3>1
      <4>2. sock'[i] = sock[i] /\ Ours(i) /\ sock'[j] = sock[j] /\ Ours(j)
        BY <2>5, <2>6, <4>1
      <4> QED
        BY <2>6, <4>1, <4>2 DEF Network
    <3>2. CASE i <= Len(sock) /\ j > Len(sock)
      <4>1. i \in 1..Len(sock)
        BY <2>3, <3>2
      <4>2. sock'[i] = sock[i] /\ Ours(i) /\ Number(sock'[j].bytes) = n
        BY <2>5, <2>6, <3>2
      <4> QED
        BY <1>5, <4>1, <4>2
    <3>3. CASE i > Len(sock)
      <4>1. j > Len(sock)
        BY <2>3, <2>6, <3>3
      <4> QED
        BY <1>2, <2>5, <2>6, <3>3, <4>1
    <3> QED
      BY <2>3, <3>1, <3>2, <3>3
  <2>7. fpga_sock' = <<>>
    BY <1>6, <2>1 DEF Network
  <2>8. Network'
    BY <1>4, <2>5, <2>6, <2>7 DEF Network, Ours
  <2>9. KeepsOrder
    BY <1>2, <2>3, <2>5, <2>7 DEF KeepsOrder, NothingBefore, n
  <2> QED
    BY <2>4, <2>8, <2>9 DEF NetworkSound
<1>7. CASE remote_addr # "board"
  <2>1. fpga_sock' = fpga_sock \o [c \in 1..copies |-> b] /\ sock' = sock
    BY <1>1, <1>7 DEF n, b
  <2>2. /\ fpga_sock' \in Seq(Bytes) /\ Len(fpga_sock') = Len(fpga_sock) + copies
        /\ \A i \in 1..Len(fpga_sock') :
              fpga_sock'[i] = IF i <= Len(fpga_sock) THEN fpga_sock[i] ELSE b
        /\ Len(fpga_sock) \in Nat
    BY <1>3, <2>1, RepeatFacts DEF NetworkTypes
  <2>3. NetworkTypes'
    BY <1>2, <1>4, <2>1, <2>2 DEF NetworkTypes
  <2>4. \A i \in 1..Len(fpga_sock') :
          /\ Whole(frames', fpga_sock'[i])
          /\ i <= Len(fpga_sock) => fpga_sock'[i] = fpga_sock[i]
          /\ i > Len(fpga_sock) => Number(fpga_sock'[i]) = n
    BY <1>3, <1>5, <2>2
  <2>5. ASSUME NEW i \in 1..Len(fpga_sock'), NEW j \in 1..Len(fpga_sock'), i <= j
        PROVE  Number(fpga_sock'[i]) <= Number(fpga_sock'[j])
    <3>1. CASE j <= Len(fpga_sock)
      <4>1. i \in 1..Len(fpga_sock) /\ j \in 1..Len(fpga_sock)
        BY <2>2, <2>5, <3>1
      <4>2. fpga_sock'[i] = fpga_sock[i] /\ fpga_sock'[j] = fpga_sock[j]
        BY <2>4, <2>5, <4>1
      <4> QED
        BY <2>5, <4>1, <4>2 DEF Network
    <3>2. CASE i <= Len(fpga_sock) /\ j > Len(fpga_sock)
      <4>1. i \in 1..Len(fpga_sock)
        BY <2>2, <3>2
      <4>2. fpga_sock'[i] = fpga_sock[i] /\ Number(fpga_sock'[j]) = n
        BY <2>4, <2>5, <3>2
      <4> QED
        BY <1>5, <4>1, <4>2
    <3>3. CASE i > Len(fpga_sock)
      <4>1. j > Len(fpga_sock)
        BY <2>2, <2>5, <3>3
      <4> QED
        BY <1>2, <2>4, <2>5, <3>3, <4>1
    <3> QED
      BY <2>2, <3>1, <3>2, <3>3
  <2>6. ASSUME NEW i \in 1..Len(sock), NEW j \in 1..Len(fpga_sock'), Ours(i)
        PROVE  Number(sock[i].bytes) <= Number(fpga_sock'[j])
    <3>1. CASE j <= Len(fpga_sock)
      <4>1. j \in 1..Len(fpga_sock) /\ fpga_sock'[j] = fpga_sock[j]
        BY <2>2, <2>4, <3>1
      <4> QED
        BY <2>6, <4>1 DEF Network
    <3>2. CASE j > Len(fpga_sock)
      BY <1>5, <2>4, <2>6, <3>2
    <3> QED
      BY <2>2, <3>1, <3>2
  <2>7. Network'
    <3>1. \A i \in 1..Len(sock) : Ours(i)' <=> Ours(i)
      BY <1>4, <2>1 DEF Ours
    <3>2. \A i, j \in 1..Len(sock) :
            i <= j /\ Ours(i) /\ Ours(j) => Number(sock[i].bytes) <= Number(sock[j].bytes)
      BY DEF Network
    <3> QED
      BY <1>4, <1>5, <1>7, <2>1, <2>4, <2>5, <2>6, <3>1, <3>2 DEF Network, Ours
  <2>8. KeepsOrder
    <3>1. ASSUME NEW m \in 1..Len(frames), NothingBefore(m), NEW j \in 1..Len(fpga_sock')
          PROVE  m <= Number(fpga_sock'[j])
      <4>1. CASE j <= Len(fpga_sock)
        <5>1. j \in 1..Len(fpga_sock) /\ fpga_sock'[j] = fpga_sock[j]
          BY <2>2, <2>4, <4>1
        <5> QED
          BY <3>1, <5>1 DEF NothingBefore
      <4>2. CASE j > Len(fpga_sock)
        <5>1. Number(fpga_sock'[j]) = n
          BY <2>4, <4>2
        <5> QED
          BY <1>2, <5>1 DEF n
      <4> QED
        BY <2>2, <4>1, <4>2
    <3>2. ASSUME NEW m \in 1..Len(frames), NothingBefore(m), NEW i \in 1..Len(sock'),
                 sock'[i].src = remote_addr'
          PROVE  m <= Number(sock'[i].bytes)
      BY <1>4, <2>1, <3>2 DEF NothingBefore, Ours
    <3> QED
      BY <1>2, <3>1, <3>2 DEF KeepsOrder
  <2> QED
    BY <2>3, <2>7, <2>8 DEF NetworkSound
<1> QED
  BY <1>6, <1>7

\* Steps that leave the network alone.
LEMMA QuietSound ==
    ASSUME NetworkTypes, Network, UNCHANGED <<remote_addr, frames, sock, fpga_sock>>
    PROVE  NetworkSound
<1>1. NetworkTypes' /\ Network'
  BY DEF NetworkTypes, Network, Ours
<1>2. Extends(frames, frames) /\ frames \in Seq(Kinds)
  BY DEF Extends, NetworkTypes
<1>3. KeepsOrder
  BY <1>2 DEF KeepsOrder, NothingBefore, Ours
<1> QED
  BY <1>1, <1>3 DEF NetworkSound

\* Steps after which the peer's datagrams in the socket are some of those that
\* were in it, in their order, d places further to the front.
LEMMA SocketSound ==
    ASSUME NetworkTypes, Network, UNCHANGED <<remote_addr, frames, fpga_sock>>,
           sock' \in Seq(DatagramType), NEW d \in Nat,
           \A i \in 1..Len(sock') : sock'[i].src = remote_addr =>
               i + d \in 1..Len(sock) /\ Ours(i + d) /\ sock'[i] = sock[i + d]
    PROVE  NetworkSound
<1>1. NetworkTypes'
  BY DEF NetworkTypes
<1>2. Len(sock) \in Nat /\ Len(sock') \in Nat
  BY DEF NetworkTypes
<1>3. ASSUME NEW i \in 1..Len(sock'), sock'[i].src = remote_addr,
             NEW j \in 1..Len(sock'), sock'[j].src = remote_addr, i <= j
      PROVE  Number(sock'[i].bytes) <= Number(sock'[j].bytes)
  <2>1. i + d <= j + d
    BY <1>2, <1>3
  <2> QED
    BY <1>3, <2>1 DEF Network
<1>4. Network'
  BY <1>3 DEF Network, Ours
<1>5. Extends(frames, frames) /\ frames \in Seq(Kinds)
  BY DEF Extends, NetworkTypes
<1>6. KeepsOrder
  BY <1>5 DEF KeepsOrder, NothingBefore, Ours
<1> QED
  BY <1>1, <1>4, <1>6 DEF NetworkSound

LEMMA StraySound ==
    ASSUME NetworkTypes, Network, StrayArrives PROVE NetworkSound
<1> DEFINE d == [src |-> "other", bytes |-> <<<<0, 1>>>>]
<1>1. /\ sock' = Append(sock, d)
      /\ remote_addr' = remote_addr /\ frames' = frames /\ fpga_sock' = fpga_sock
  BY DEF StrayArrives, proxy
<1>2. d \in DatagramType /\ d.src = "other"
  <2>1. <<<<0, 1>>>> \in Bytes
    BY DEF Bytes
  <2> QED
    BY <2>1 DEF DatagramType
<1> HIDE DEF d
<1>3. /\ sock' \in Seq(DatagramType) /\ Len(sock') = Len(sock) + 1 /\ Len(sock) \in Nat
      /\ \A i \in 1..Len(sock') : sock'[i] = IF i <= Len(sock) THEN sock[i] ELSE d
  BY <1>1, <1>2, AppendFacts DEF NetworkTypes
<1>4. \A i \in 1..Len(sock') : sock'[i].src = remote_addr =>
        i + 0 \in 1..Len(sock) /\ Ours(i + 0) /\ sock'[i] = sock[i + 0]
  BY <1>2, <1>3 DEF Ours, NetworkTypes
<1>5. 0 \in Nat /\ UNCHANGED <<remote_addr, frames, fpga_sock>>
  BY <1>1
<1> QED
  BY <1>3, <1>4, <1>5, SocketSound

LEMMA TakeSound ==
    ASSUME NetworkTypes, Network, sock # <<>>, sock' = Tail(sock),
           UNCHANGED <<remote_addr, frames, fpga_sock>>
    PROVE  NetworkSound
<1>1. /\ sock' \in Seq(DatagramType) /\ Len(sock') = Len(sock) - 1
      /\ \A i \in 1..Len(sock') : i + 1 \in 1..Len(sock) /\ sock'[i] = sock[i + 1]
  BY TailFacts DEF NetworkTypes
<1>2. \A i \in 1..Len(sock') : sock'[i].src = remote_addr =>
        i + 1 \in 1..Len(sock) /\ Ours(i + 1) /\ sock'[i] = sock[i + 1]
  BY <1>1 DEF Ours
<1> QED
  BY <1>1, <1>2, SocketSound

LEMMA EmptySound ==
    ASSUME NetworkTypes, Network, sock' = <<>>, UNCHANGED <<remote_addr, frames, fpga_sock>>
    PROVE  NetworkSound
<1>1. sock' \in Seq(DatagramType) /\ Len(sock') = 0 /\ 0 \in Nat
  OBVIOUS
<1>2. \A i \in 1..Len(sock') : sock'[i].src = remote_addr =>
        i + 0 \in 1..Len(sock) /\ Ours(i + 0) /\ sock'[i] = sock[i + 0]
  BY <1>1
<1> QED
  BY <1>1, <1>2, SocketSound

\* The proxy hands the board's oldest datagram to the host, or drops it.
LEMMA ForwardSound ==
    ASSUME NetworkTypes, Network, TakesFromBoard,
           sock' = IF last_client = "host"
                   THEN Append(sock, [src |-> "proxy", bytes |-> Head(fpga_sock)])
                   ELSE sock,
           UNCHANGED <<remote_addr, frames>>
    PROVE  NetworkSound
<1> DEFINE h == Head(fpga_sock)
           d == [src |-> "proxy", bytes |-> h]
<1>1. fpga_sock # <<>> /\ fpga_sock' = Tail(fpga_sock)
  BY DEF TakesFromBoard
<1>2. /\ h = fpga_sock[1] /\ 1 \in 1..Len(fpga_sock) /\ h \in Bytes
      /\ fpga_sock' \in Seq(Bytes) /\ Len(fpga_sock) \in Nat
      /\ Len(fpga_sock') = Len(fpga_sock) - 1
      /\ \A j \in 1..Len(fpga_sock') :
            j + 1 \in 1..Len(fpga_sock) /\ fpga_sock'[j] = fpga_sock[j + 1]
  BY <1>1, TailFacts DEF NetworkTypes
<1>3. remote_addr = "proxy"
  BY <1>1 DEF Network, NetworkTypes
<1>4. /\ \A j \in 1..Len(fpga_sock) : Number(h) <= Number(fpga_sock[j])
      /\ Whole(frames, h)
      /\ \A i \in 1..Len(sock) : Ours(i) => Number(sock[i].bytes) <= Number(h)
  BY <1>2 DEF Network
<1>5. /\ \A j \in 1..Len(fpga_sock') : Whole(frames, fpga_sock'[j])
      /\ \A j \in 1..Len(fpga_sock') : Number(h) <= Number(fpga_sock'[j])
      /\ \A i \in 1..Len(sock), j \in 1..Len(fpga_sock') :
            Ours(i) => Number(sock[i].bytes) <= Number(fpga_sock'[j])
  BY <1>2, <1>4 DEF Network
<1>6. ASSUME NEW i \in 1..Len(fpga_sock'), NEW j \in 1..Len(fpga_sock'), i <= j
      PROVE  Number(fpga_sock'[i]) <= Number(fpga_sock'[j])
  <2>1. i + 1 <= j + 1
    BY <1>2, <1>6
  <2> QED
    BY <1>2, <2>1 DEF Network
<1>7. Extends(frames, frames) /\ frames \in Seq(Kinds)
  BY DEF Extends, NetworkTypes
<1>8. CASE last_client # "host"
  <2>1. sock' = sock
    BY <1>8
  <2>2. NetworkTypes'
    BY <1>2, <2>1 DEF NetworkTypes
  <2>3. \A i, j \in 1..Len(sock) :
          i <= j /\ Ours(i) /\ Ours(j) => Number(sock[i].bytes) <= Number(sock[j].bytes)
    BY DEF Network
  <2>4. Network'
    BY <1>3, <1>5, <1>6, <2>1, <2>3 DEF Network, Ours
  <2>5. KeepsOrder
    BY <1>2, <1>7, <2>1 DEF KeepsOrder, NothingBefore, Ours
  <2> QED
    BY <2>2, <2>4, <2>5 DEF NetworkSound
<1>9. CASE last_client = "host"
  <2>1. sock' = Append(sock, d)
    BY <1>9
  <2>2. d \in DatagramType /\ d.src = "proxy" /\ d.bytes = h
    <3> HIDE DEF h
    <3> QED
      BY <1>2 DEF DatagramType
  <2> HIDE DEF h, d
  <2>3. /\ sock' \in Seq(DatagramType) /\ Len(sock') = Len(sock) + 1 /\ Len(sock) \in Nat
        /\ \A i \in 1..Len(sock') : sock'[i] = IF i <= Len(sock) THEN sock[i] ELSE d
    BY <2>1, <2>2, AppendFacts DEF NetworkTypes
  <2>4. NetworkTypes'
    BY <1>2, <2>3 DEF NetworkTypes
  <2>5. /\ \A i \in 1..Len(sock') : i <= Len(sock) =>
             i \in 1..Len(sock) /\ sock'[i] = sock[i] /\ (sock'[i].src = remote_addr => Ours(i))
        /\ \A i \in 1..Len(sock') : i > Len(sock) =>
             i = Len(sock') /\ sock'[i].bytes = h
    BY <2>2, <2>3 DEF Ours
  <2>6. Number(h) \in Nat
    BY <1>4, <1>7 DEF Whole
  <2>7. ASSUME NEW i \in 1..Len(sock'), sock'[i].src = remote_addr,
               NEW j \in 1..Len(sock'), sock'[j].src = remote_addr, i <= j
        PROVE  Number(sock'[i].bytes) <= Number(sock'[j].bytes)
    <3>1. CASE j <= Len(sock)
      <4>1. i <= Len(sock)
        BY <2>3, <2>7, <3>1
      <4> QED
        BY <2>5, <2>7, <3>1, <4>1 DEF Network
    <3>2. CASE i <= Len(sock) /\ j > Len(sock)
      BY <1>4, <2>5, <2>7, <3>2
    <3>3. CASE i > Len(sock)
      <4>1. j > Len(sock)
        BY <2>3, <2>7, <3>3
      <4> QED
        BY <2>5, <2>6, <3>3, <4>1
    <3> QED
      BY <2>3, <3>1, <3>2, <3>3
  <2>8. \A i \in 1..Len(sock') : sock'[i].src = remote_addr =>
          /\ Whole(frames, sock'[i].bytes)
          /\ \A j \in 1..Len(fpga_sock') : Number(sock'[i].bytes) <= Number(fpga_sock'[j])
    <3> SUFFICES ASSUME NEW i \in 1..Len(sock'), sock'[i].src = remote_addr
                 PROVE  /\ Whole(frames, sock'[i].bytes)
                        /\ \A j \in 1..Len(fpga_sock') :
                              Number(sock'[i].bytes) <= Number(fpga_sock'[j])
      OBVIOUS
    <3>1. CASE i <= Len(sock)
      BY <1>5, <2>5, <3>1 DEF Network
    <3>2. CASE i > Len(sock)
      BY <1>4, <1>5, <2>5, <3>2
    <3> QED
      BY <2>3, <3>1, <3>2
  <2>9. Network'
    BY <1>3, <1>5, <1>6, <2>7, <2>8 DEF Network, Ours
  <2>10. KeepsOrder
    <3>1. ASSUME NEW m \in 1..Len(frames), NothingBefore(m), NEW i \in 1..Len(sock'),
                 sock'[i].src = remote_addr
          PROVE  m <= Number(sock'[i].bytes)
      <4>1. CASE i <= Len(sock)
        BY <2>5, <3>1, <4>1 DEF NothingBefore
      <4>2. CASE i > Len(sock)
        BY <1>2, <2>5, <3>1, <4>2 DEF NothingBefore
      <4> QED
        BY <2>3, <4>1, <4>2
    <3>2. ASSUME NEW m \in 1..Len(frames), NothingBefore(m), NEW j \in 1..Len(fpga_sock')
          PROVE  m <= Number(fpga_sock'[j])
      BY <1>2, <3>2 DEF NothingBefore
    <3> QED
      BY <1>7, <3>1, <3>2 DEF KeepsOrder
  <2> QED
    BY <2>4, <2>9, <2>10 DEF NetworkSound
<1> QED
  BY <1>8, <1>9

-----------------------------------------------------------------------------

(***************************************************************************)
(* Types, whatever the bytes in rx_packet are.                             *)
(***************************************************************************)
LEMMA NoBytes == <<>> \in Bytes /\ Len(<<>>) = 0
BY DEF Bytes

LEMMA EndsFacts ==
    ASSUME NEW pc \in {"drain", "check", "type", "returned", "timeout", "threw"}, Ends(pc)
    PROVE  dec' \in DecType /\ dec'.pc = pc
<1>1. NoKind \in [ack : BOOLEAN, payload : Nat]
  BY DEF NoKind
<1> HIDE DEF NoKind
<1> QED
  BY <1>1, NoBytes DEF Ends, DecType

\* What recv copies and leaves.
LEMMA RecvFacts ==
    ASSUME rx_packet \in Bytes, NEW m \in Nat
    PROVE  /\ Copied(m) \in Bytes /\ Len(Copied(m)) <= m
           /\ Len(Copied(m)) \in Nat
           /\ RestOfPacket(m) \in Bytes
           /\ m <= Len(rx_packet) =>
                 /\ Len(Copied(m)) = m /\ Len(RestOfPacket(m)) = Len(rx_packet) - m
                 /\ \A i \in 1..m : Copied(m)[i] = rx_packet[i]
                 /\ \A i \in 1..(Len(rx_packet) - m) : RestOfPacket(m)[i] = rx_packet[m + i]
<1>1. Len(rx_packet) \in Nat
  BY DEF Bytes
<1>2. CASE m <= Len(rx_packet)
  <2>1. Copied(m) = SubSeq(rx_packet, 1, m)
    BY <1>1, <1>2 DEF Copied
  <2>2. /\ SubSeq(rx_packet, 1, m) \in Bytes /\ Len(SubSeq(rx_packet, 1, m)) = m
        /\ \A i \in 1..m : SubSeq(rx_packet, 1, m)[i] = rx_packet[i]
    BY <1>2, PieceFacts
  <2> QED
    BY <1>2, <2>1, <2>2, RestFacts DEF RestOfPacket
<1>3. CASE m > Len(rx_packet)
  <2>1. Copied(m) = SubSeq(rx_packet, 1, Len(rx_packet))
    BY <1>1, <1>3 DEF Copied
  <2>2. Len(rx_packet) <= Len(rx_packet)
    BY <1>1
  <2>3. Copied(m) \in Bytes /\ Len(Copied(m)) = Len(rx_packet)
    BY <1>1, <2>1, <2>2, PieceFacts
  <2>4. RestOfPacket(m) \in Bytes
    BY <1>1, <1>3 DEF RestOfPacket, Bytes
  <2> QED
    BY <1>1, <1>3, <2>3, <2>4
<1> QED
  BY <1>1, <1>2, <1>3

LEMMA PaddedFacts == ASSUME NEW b \in Bytes PROVE Padded(b) \in Bytes
<1>1. RX_PACKET_SIZE \in Nat /\ Fill \in Nat \X Nat
  BY ReceiveAssumption DEF Fill
<1>2. \A i \in 1..RX_PACKET_SIZE : (IF i <= Len(b) THEN b[i] ELSE Fill) \in Nat \X Nat
  BY <1>1 DEF Bytes
<1> QED
  BY <1>1, <1>2 DEF Padded, Bytes

LEMMA JoinFacts ==
    ASSUME NEW a \in Bytes, NEW b \in Bytes
    PROVE  /\ a \o b \in Bytes /\ Len(a \o b) = Len(a) + Len(b)
           /\ Len(a) \in Nat /\ Len(b) \in Nat
           /\ \A i \in 1..Len(a) : (a \o b)[i] = a[i]
           /\ \A i \in 1..Len(b) : (a \o b)[Len(a) + i] = b[i]
BY DEF Bytes

\* The payload that remains, and the frames decoded.
LEMMA ProceedTypes ==
    ASSUME NetworkTypes, decoded \in Seq(Nat),
           NEW kind \in [ack : BOOLEAN, payload : Nat],
           NEW read \in Bytes, Len(read) <= 3 + kind.payload, Proceed(read, kind)
    PROVE  /\ dec' \in DecType /\ decoded' \in Seq(Nat) /\ dec'.pc # "count"
           /\ dec'.pc = "payload" => Len(dec'.read) < 3 + dec'.kind.payload
<1>1. kind.payload \in Nat /\ kind.ack \in BOOLEAN /\ Len(read) \in Nat
  BY DEF Bytes
<1>2. CASE Len(read) = 3 + kind.payload
  <2>1. /\ Ends(IF kind.ack THEN "returned" ELSE "check")
        /\ decoded' = Append(decoded, IF Aligned(read) THEN read[1][1] ELSE 0)
    BY <1>2, Zenon DEF Proceed
  <2>2. dec' \in DecType /\ dec'.pc \in {"returned", "check"}
    <3>1. CASE kind.ack
      BY <2>1, <3>1, EndsFacts
    <3>2. CASE ~kind.ack
      BY <2>1, <3>2, EndsFacts
    <3> QED BY <3>1, <3>2
  <2>3. (IF Aligned(read) THEN read[1][1] ELSE 0) \in Nat
    BY DEF Aligned, NetworkTypes
  <2>4. decoded' \in Seq(Nat)
    BY <2>1, <2>3, AppendFacts
  <2> QED
    BY <2>2, <2>4
<1>3. CASE Len(read) # 3 + kind.payload
  <2>1. dec' = [pc |-> "payload", read |-> read, kind |-> kind] /\ decoded' = decoded
    BY <1>3, Zenon DEF Proceed
  <2> QED
    BY <1>1, <1>3, <2>1 DEF DecType
<1> QED BY <1>2, <1>3

-----------------------------------------------------------------------------

\* The network and the types after any step.
Held == NetworkTypes /\ Network /\ ReaderTypes

Keeps == NetworkSound /\ ReaderTypes'

LEMMA StaysHeld ==
    ASSUME Held, NetworkSound, UNCHANGED <<rx_packet, dec, decoded, struck>>
    PROVE  Keeps
BY DEF Held, Keeps, ReaderTypes

\* Steps at the end of which recv_frame has not been called or is over.
LEMMA EndsHeld ==
    ASSUME Held, NetworkSound, rx_packet' \in Bytes, struck' \in BOOLEAN,
           decoded' \in Seq(Nat), dec' \in DecType, dec'.pc \notin {"count", "payload"}
    PROVE  Keeps
BY DEF Keeps, ReaderTypes

LEMMA NetworkMoves ==
    ASSUME Held,
           BoardSends \/ StrayArrives \/ ClientSends \/ ProxyMoves \/ TimePasses
              \/ UNCHANGED vars
    PROVE  Keeps /\ UNCHANGED <<rx_packet, struck, decoded, dec>>
<1>1. NetworkTypes /\ Network
  BY DEF Held
<1>2. CASE BoardSends
  BY <1>1, <1>2, BoardSendsSound, StaysHeld DEF BoardSends, history
<1>3. CASE StrayArrives
  BY <1>1, <1>3, StraySound, StaysHeld DEF StrayArrives, history
<1>4. CASE ClientSends
  BY <1>1, <1>4, QuietSound, StaysHeld DEF ClientSends, transport, history
<1>5. CASE ProxyMoves
  <2>1. UNCHANGED <<frames, rx_packet, dec, decoded, struck, remote_addr>>
    BY <1>5 DEF ProxyMoves, ProxyForwards, transport, history
  <2>2. CASE RelayToBoard /\ UNCHANGED transport
    BY <1>1, <2>1, <2>2, QuietSound, StaysHeld DEF RelayToBoard, transport
  <2>3. CASE /\ TakesFromBoard
             /\ sock' = IF last_client = "host"
                        THEN Append(sock, [src |-> "proxy", bytes |-> Head(fpga_sock)])
                        ELSE sock
    <3>1. NetworkSound
      BY <1>1, <2>1, <2>3, ForwardSound
    <3> QED
      BY <2>1, <3>1, StaysHeld
  <2> QED
    BY <1>5, <2>2, <2>3 DEF ProxyMoves, ProxyForwards
<1>6. CASE TimePasses
  BY <1>1, <1>6, QuietSound, StaysHeld DEF TimePasses, proxy, transport, history
<1>7. CASE UNCHANGED vars
  BY <1>1, <1>7, QuietSound, StaysHeld DEF vars, proxy, transport, history
<1> QED
  BY <1>2, <1>3, <1>4, <1>5, <1>6, <1>7

LEMMA HeadBytes ==
    ASSUME NetworkTypes, sock # <<>>
    PROVE  /\ 1 \in 1..Len(sock) /\ Head(sock) = sock[1] /\ sock[1] \in DatagramType
           /\ Head(sock).bytes \in Bytes
<1>1. Len(sock) \in Nat \ {0} /\ Head(sock) = sock[1] /\ sock[1] \in DatagramType
  BY TailFacts DEF NetworkTypes
<1> QED
  BY <1>1 DEF DatagramType

LEMMA TakesHeld ==
    ASSUME Held, TakePacket \/ TakeUnchecked
    PROVE  /\ Keeps /\ UNCHANGED <<dec, decoded, frames, remote_addr>> /\ rx_packet = <<>>
           /\ TakePacket => struck' = struck
           /\ TakeUnchecked => struck' = (struck \/ dec.pc # "drain")
<1>1. /\ NetworkTypes /\ Network /\ ReaderTypes
      /\ sock # <<>> /\ UNCHANGED <<dec, decoded, remote_addr, frames, fpga_sock>>
      /\ rx_packet = <<>> /\ Head(sock).bytes \in Bytes
  BY HeadBytes DEF Held, TakePacket, TakeUnchecked, proxy, history
<1>2. NetworkSound /\ rx_packet' \in Bytes
  <2>1. CASE TakePacket
    BY <1>1, <2>1, TakeSound DEF TakePacket
  <2>2. CASE sock' = Tail(sock) /\ rx_packet' = Padded(Head(sock).bytes)
    BY <1>1, <2>2, TakeSound, PaddedFacts
  <2>3. CASE UNCHANGED sock /\ rx_packet' = Padded(<<>>)
    BY <1>1, <2>3, QuietSound, PaddedFacts, NoBytes
  <2> QED
    BY <2>1, <2>2, <2>3 DEF TakeUnchecked
<1>3. /\ TakePacket => struck' = struck
      /\ TakeUnchecked => struck' = (struck \/ dec.pc # "drain")
  BY DEF TakePacket, TakeUnchecked, history
<1>4. ReaderTypes'
  BY <1>1, <1>2, <1>3, Zenon DEF ReaderTypes
<1> QED
  BY <1>1, <1>2, <1>3, <1>4 DEF Keeps

\* Steps of recv_frame and drain_until_quiet leave the socket alone.
LEMMA ReadsQuiet ==
    ASSUME Held, Drain \/ Check \/ RecvType \/ RecvCount \/ RecvPayload
    PROVE  /\ NetworkSound /\ UNCHANGED <<remote_addr, frames, sock, fpga_sock, struck>>
           /\ ReaderTypes /\ rx_packet \in Bytes /\ struck \in BOOLEAN /\ dec \in DecType
           /\ decoded \in Seq(Nat)
<1>1. UNCHANGED <<remote_addr, frames, sock, fpga_sock, struck>>
  BY DEF Drain, Check, RecvType, RecvCount, RecvPayload, Receives, TimesOut, proxy, transport,
         history
<1> QED
  BY <1>1, QuietSound DEF Held, ReaderTypes

LEMMA ReadsHeld ==
    ASSUME Held, Drain \/ Check \/ RecvType \/ RecvCount \/ RecvPayload
    PROVE  Keeps
<1>1. /\ NetworkSound /\ UNCHANGED <<frames, struck>> /\ NetworkTypes
      /\ ReaderTypes /\ rx_packet \in Bytes /\ struck' \in BOOLEAN /\ dec \in DecType
      /\ decoded \in Seq(Nat)
  BY ReadsQuiet DEF Held
<1>2. Len(dec.read) \in Nat /\ dec.read \in Bytes /\ dec.kind \in [ack : BOOLEAN, payload : Nat]
  BY <1>1 DEF DecType, Bytes
<1>3. \A m \in Nat : Receives(m) =>
        rx_packet' \in Bytes /\ dec.read \o Copied(m) \in Bytes
        /\ Len(dec.read \o Copied(m)) <= Len(dec.read) + m
        /\ Len(dec.read \o Copied(m)) \in Nat
  <2> SUFFICES ASSUME NEW m \in Nat, Receives(m)
               PROVE  rx_packet' \in Bytes /\ dec.read \o Copied(m) \in Bytes
                      /\ Len(dec.read \o Copied(m)) <= Len(dec.read) + m
                      /\ Len(dec.read \o Copied(m)) \in Nat
    OBVIOUS
  <2>1. /\ Copied(m) \in Bytes /\ Len(Copied(m)) <= m /\ Len(Copied(m)) \in Nat
        /\ rx_packet' \in Bytes
    BY <1>1, RecvFacts DEF Receives
  <2>2. dec.read \o Copied(m) \in Bytes
        /\ Len(dec.read \o Copied(m)) = Len(dec.read) + Len(Copied(m))
    BY <1>2, <2>1, JoinFacts
  <2> QED BY <1>2, <2>1, <2>2
<1>4. TimesOut => rx_packet' \in Bytes
  BY <1>1 DEF TimesOut, transport
<1>5. CASE Drain
  <2>1. dec' \in DecType /\ dec'.pc \in {"drain", "check"} /\ decoded' = decoded
    BY <1>1, <1>5, EndsFacts DEF Drain
  <2>2. Len(rx_packet) \in Nat
    BY <1>1 DEF Bytes
  <2>3. rx_packet' \in Bytes
    BY <1>3, <1>4, <1>5, <2>2 DEF Drain
  <2> QED BY <1>1, <2>1, <2>3, EndsHeld
<1>6. CASE Check
  <2>1. rx_packet' = rx_packet /\ decoded' = decoded /\ Ends(IF late THEN "timeout" ELSE "type")
    BY <1>6 DEF Check, transport, history
  <2>2. dec' \in DecType /\ dec'.pc \in {"timeout", "type"}
    <3>1. CASE late
      BY <2>1, <3>1, EndsFacts
    <3>2. CASE ~late
      BY <2>1, <3>2, EndsFacts
    <3> QED BY <3>1, <3>2
  <2> QED BY <1>1, <2>1, <2>2, EndsHeld
<1>7. CASE RecvType
  <2>1. decoded' = decoded
    BY <1>7 DEF RecvType
  <2>2. CASE TimesOut /\ Ends("check")
    BY <1>1, <1>4, <2>1, <2>2, EndsFacts, EndsHeld
  <2>3. CASE Receives(1) /\ dec' = [dec EXCEPT !.pc = "count", !.read = Copied(1)]
    <3>1. Copied(1) \in Bytes /\ Len(Copied(1)) <= 1 /\ Len(Copied(1)) \in Nat
      BY <1>1, RecvFacts
    <3>2. dec' \in DecType /\ dec'.pc = "count" /\ dec'.read = Copied(1)
      BY <1>1, <2>3, <3>1 DEF DecType
    <3>3. Len(dec'.read) < 3 /\ rx_packet' \in Bytes
      BY <1>3, <2>3, <3>1, <3>2
    <3> QED BY <1>1, <2>1, <3>2, <3>3 DEF Keeps, ReaderTypes
  <2> QED BY <1>7, <2>2, <2>3 DEF RecvType
<1>8. CASE RecvCount
  <2> DEFINE m == 3 - Len(dec.read)
             read == dec.read \o Copied(m)
  <2>1. m \in Nat /\ Len(dec.read) + m = 3
    <3>1. Len(dec.read) < 3
      BY <1>1, <1>8, Zenon DEF ReaderTypes, RecvCount
    <3> QED BY <1>2, <3>1
  <2>2. CASE TimesOut /\ Throws
    BY <1>1, <1>4, <2>2, EndsFacts, EndsHeld DEF Throws
  <2>3. CASE Receives(m)
    <3>1. rx_packet' \in Bytes /\ read \in Bytes /\ Len(read) <= 3 /\ Len(read) \in Nat
      BY <1>3, <2>1, <2>3
    <3> HIDE DEF m, read
    <3>2. CASE Len(read) < 3 /\ dec' = [dec EXCEPT !.read = read] /\ UNCHANGED decoded
      <4>1. dec' \in DecType /\ dec'.pc = "count" /\ dec'.read = read
        BY <1>1, <1>8, <3>1, <3>2 DEF DecType, RecvCount
      <4> QED BY <1>1, <3>1, <3>2, <4>1 DEF Keeps, ReaderTypes
    <3>3. CASE Len(read) = 3 /\ \E kind \in Spelled(read) : Proceed(read, kind)
      <4>1. PICK kind \in Spelled(read) : Proceed(read, kind)
        BY <3>3
      <4>2. kind \in Kinds
        <5>1. Aligned(read) => frames[read[1][1]] \in Kinds
          BY <1>1 DEF Aligned, NetworkTypes
        <5> QED BY <4>1, <5>1 DEF Spelled
      <4>3. kind \in [ack : BOOLEAN, payload : Nat]
        BY <4>2, ReceiveAssumption
      <4>4. Len(read) <= 3 + kind.payload
        BY <3>3, <4>3
      <4>5. /\ dec' \in DecType /\ decoded' \in Seq(Nat) /\ dec'.pc # "count"
            /\ dec'.pc = "payload" => Len(dec'.read) < 3 + dec'.kind.payload
        BY <1>1, <3>1, <4>1, <4>3, <4>4, ProceedTypes
      <4> QED BY <1>1, <3>1, <4>5 DEF Keeps, ReaderTypes
    <3>4. CASE Throws
      BY <1>1, <3>1, <3>4, EndsFacts, EndsHeld DEF Throws
    <3>5. \/ Len(read) < 3 /\ dec' = [dec EXCEPT !.read = read] /\ UNCHANGED decoded
          \/ Len(read) = 3 /\ \E kind \in Spelled(read) : Proceed(read, kind)
          \/ Throws
      <4>1. rx_packet # <<>>
        BY <2>3 DEF Receives
      <4>2. ~TimesOut
        BY <4>1 DEF TimesOut
      <4> QED BY <1>8, <4>2, Zenon DEF RecvCount, m, read
    <3> QED BY <3>2, <3>3, <3>4, <3>5
  <2> QED BY <1>8, <2>2, <2>3, Zenon DEF RecvCount
<1>9. CASE RecvPayload
  <2> DEFINE m == 3 + dec.kind.payload - Len(dec.read)
             read == dec.read \o Copied(m)
  <2>1. m \in Nat /\ Len(dec.read) + m = 3 + dec.kind.payload
    <3>1. Len(dec.read) < 3 + dec.kind.payload
      BY <1>1, <1>9, Zenon DEF ReaderTypes, RecvPayload
    <3>2. dec.kind.payload \in Nat
      BY <1>2
    <3> QED BY <1>2, <3>1, <3>2
  <2>2. CASE TimesOut /\ Throws
    BY <1>1, <1>4, <2>2, EndsFacts, EndsHeld DEF Throws
  <2>3. CASE Receives(m) /\ Proceed(read, dec.kind)
    <3>1. rx_packet' \in Bytes /\ read \in Bytes /\ Len(read) <= 3 + dec.kind.payload
      BY <1>3, <2>1, <2>3
    <3> HIDE DEF m, read
    <3>2. /\ dec' \in DecType /\ decoded' \in Seq(Nat) /\ dec'.pc # "count"
          /\ dec'.pc = "payload" => Len(dec'.read) < 3 + dec'.kind.payload
      BY <1>1, <1>2, <2>3, <3>1, ProceedTypes
    <3> QED BY <1>1, <3>1, <3>2 DEF Keeps, ReaderTypes
  <2> QED BY <1>9, <2>2, <2>3, Zenon DEF RecvPayload
<1> QED BY <1>5, <1>6, <1>7, <1>8, <1>9

\* A new wait, or a new session.
LEMMA NextWaitHeld ==
    ASSUME Held, NextWait
    PROVE  /\ Keeps /\ dec' \in DecType /\ UNCHANGED <<remote_addr, frames, fpga_sock>>
           /\ \/ /\ dec'.pc = "check" /\ dec.pc = "returned"
                 /\ UNCHANGED <<rx_packet, decoded, struck, sock>>
              \/ /\ dec'.pc = "drain" /\ sock' = <<>> /\ rx_packet' = <<>>
                 /\ struck' = FALSE /\ decoded' = IF struck THEN <<>> ELSE decoded
<1>1. /\ NetworkTypes /\ Network /\ UNCHANGED <<remote_addr, frames, fpga_sock>>
      /\ rx_packet \in Bytes /\ decoded \in Seq(Nat) /\ struck \in BOOLEAN
  BY DEF Held, ReaderTypes, NextWait, transport, proxy
<1>2. CASE dec.pc = "returned" /\ Ends("check") /\ UNCHANGED <<transport, history>>
  <2>1. UNCHANGED <<rx_packet, decoded, struck, sock>>
    BY <1>2 DEF transport, history
  <2>2. dec' \in DecType /\ dec'.pc = "check"
    BY <1>2, EndsFacts
  <2>3. NetworkSound
    BY <1>1, <2>1, QuietSound
  <2> QED BY <1>1, <1>2, <2>1, <2>2, <2>3, EndsHeld
<1>3. CASE /\ Ends("drain") /\ sock' = <<>> /\ rx_packet' = <<>>
           /\ struck' = FALSE /\ decoded' = IF struck THEN <<>> ELSE decoded
  <2>1. dec' \in DecType /\ dec'.pc = "drain"
    BY <1>3, EndsFacts
  <2>2. NetworkSound
    BY <1>1, <1>3, EmptySound
  <2>3. decoded' \in Seq(Nat) /\ rx_packet' \in Bytes
    BY <1>1, <1>3, NoBytes
  <2> QED BY <1>1, <1>3, <2>1, <2>2, <2>3, EndsHeld
<1> QED BY <1>2, <1>3 DEF NextWait

-----------------------------------------------------------------------------

(***************************************************************************)
(* The reader: recv and recv_frame, with nothing but the peer's bytes.     *)
(***************************************************************************)
Sound == Held /\ InPlace

\* The order after a step, from the frames that were to come before it.
LEMMA OrderFrom ==
    ASSUME KeepsOrder, frames \in Seq(Kinds),
           \A i \in 1..Len(decoded') :
               decoded'[i] \in 1..Len(frames) /\ NothingBefore(decoded'[i]),
           \A i \in 1..Len(decoded') : \A j \in 1..i : decoded'[j] <= decoded'[i],
           rx_packet' # <<>> /\ dec'.pc # "drain" =>
               \E n \in 1..Len(frames) :
                  /\ Current' = n /\ NothingBefore(n)
                  /\ \A i \in 1..Len(decoded') : decoded'[i] <= n
    PROVE  Order'
<1>1. Len(frames) \in Nat /\ Len(frames') \in Nat /\ Len(frames) <= Len(frames')
  BY DEF KeepsOrder, Extends
<1>2. \A n \in 1..Len(frames) : NothingBefore(n) =>
          /\ n \in 1..Len(frames')
          /\ \A i \in 1..Len(sock') :
                sock'[i].src = remote_addr' => n <= Number(sock'[i].bytes)
          /\ \A j \in 1..Len(fpga_sock') : n <= Number(fpga_sock'[j])
  BY <1>1 DEF KeepsOrder
<1>3. \A i \in 1..Len(decoded') :
          /\ decoded'[i] \in 1..Len(frames')
          /\ \A k \in 1..Len(sock') :
                sock'[k].src = remote_addr' => decoded'[i] <= Number(sock'[k].bytes)
          /\ \A j \in 1..Len(fpga_sock') : decoded'[i] <= Number(fpga_sock'[j])
  BY <1>2
<1>4. rx_packet' # <<>> /\ dec'.pc # "drain" =>
          /\ \A k \in 1..Len(sock') :
                sock'[k].src = remote_addr' => Current' <= Number(sock'[k].bytes)
          /\ \A j \in 1..Len(fpga_sock') : Current' <= Number(fpga_sock'[j])
          /\ \A i \in 1..Len(decoded') : decoded'[i] <= Current'
  BY <1>2
<1> QED
  BY <1>3, <1>4 DEF Order, NothingBefore, Ours

\* What the order says before a step.
LEMMA OrderBefore ==
    ASSUME Sound
    PROVE  /\ \A i \in 1..Len(decoded) :
                 decoded[i] \in 1..Len(frames) /\ NothingBefore(decoded[i])
           /\ \A i \in 1..Len(decoded) : \A j \in 1..i : decoded[j] <= decoded[i]
           /\ rx_packet # <<>> /\ dec.pc # "drain" =>
                 /\ Current \in 1..Len(frames) /\ NothingBefore(Current)
                 /\ \A i \in 1..Len(decoded) : decoded[i] <= Current
           /\ frames \in Seq(Kinds) /\ Network /\ NetworkTypes /\ ReaderTypes
           /\ Reader /\ Held
<1>1. rx_packet # <<>> /\ dec.pc # "drain" => Current \in 1..Len(frames)
  BY DEF Sound, InPlace, Reader, Current, Whole
<1> QED
  BY <1>1 DEF Sound, InPlace, Held, Order, NetworkTypes

\* Steps of the network alone.
LEMMA ReaderStays ==
    ASSUME Sound, NetworkSound, UNCHANGED <<rx_packet, dec, decoded>> PROVE InPlace'
<1>1. /\ frames \in Seq(Kinds) /\ KeepsOrder /\ Extends(frames, frames')
      /\ frames' \in Seq(Kinds) /\ Reader
  BY OrderBefore DEF NetworkSound, KeepsOrder
<1>2. Order'
  <2>1. Current' = Current
    BY DEF Current
  <2> QED
    BY <1>1, <2>1, OrderBefore, OrderFrom
<1>3. Reader'
  <2>1. CASE dec.pc = "drain" \/ (dec.pc \in {"check", "returned", "timeout"} /\ rx_packet = <<>>)
    BY <2>1 DEF Reader
  <2>2. CASE dec.pc = "type" /\ (rx_packet # <<>> => Whole(frames, rx_packet))
    <3>1. rx_packet # <<>> => Whole(frames', rx_packet)
      BY <1>1, <2>2, WholeStays
    <3> QED
      BY <2>2, <3>1 DEF Reader
  <2>3. CASE dec.pc \in {"count", "payload"}
    <3>1. /\ Len(dec.read) = (IF dec.pc = "count" THEN 1 ELSE 3) /\ rx_packet # <<>>
          /\ Number(dec.read) \in 1..Len(frames)
          /\ dec.pc = "payload" => dec.kind = frames[Number(dec.read)]
          /\ Part(dec.read, Number(dec.read), 0)
          /\ Part(rx_packet, Number(dec.read), Len(dec.read))
          /\ Len(dec.read) + Len(rx_packet) = 3 + frames[Number(dec.read)].payload
      BY <1>1, <2>3 DEF Reader
    <3>2. Number(dec.read) \in 1..Len(frames') /\ frames'[Number(dec.read)] = frames[Number(dec.read)]
      BY <1>1, <3>1 DEF Extends
    <3> QED
      BY <2>3, <3>1, <3>2 DEF Reader
  <2> QED
    BY <1>1, <2>1, <2>2, <2>3 DEF Reader
<1> QED
  BY <1>2, <1>3 DEF InPlace

\* Steps after which nothing is being read.
LEMMA ReaderRests ==
    ASSUME Sound, NetworkSound, decoded' = decoded,
           \/ dec'.pc = "drain"
           \/ rx_packet' = <<>> /\ dec'.pc \in {"check", "returned", "timeout", "type"}
    PROVE  InPlace'
<1>1. KeepsOrder /\ frames \in Seq(Kinds)
  BY OrderBefore DEF NetworkSound
<1>2. Order'
  BY <1>1, OrderBefore, OrderFrom
<1>3. Reader'
  BY DEF Reader
<1> QED
  BY <1>2, <1>3 DEF InPlace

LEMMA TakeInPlace ==
    ASSUME Sound, TakePacket \/ TakeUnchecked, ~struck' PROVE InPlace'
<1>1. /\ UNCHANGED <<dec, decoded, frames, remote_addr>> /\ rx_packet = <<>> /\ NetworkSound
      /\ TakeUnchecked => dec.pc = "drain"
  BY OrderBefore, TakesHeld DEF Keeps
<1>2. dec.pc \in {"drain", "type"}
  <2>1. dec.pc \in {"drain", "type", "count", "payload"} /\ Reader
    BY OrderBefore DEF TakePacket, TakeUnchecked, InRecv
  <2> QED BY <1>1, <2>1 DEF Reader
<1>3. CASE dec.pc = "drain"
  BY <1>1, <1>3, ReaderRests
<1>4. CASE dec.pc = "type"
  <2> DEFINE b == sock[1].bytes
  <2>1. /\ sock # <<>> /\ Head(sock).src = remote_addr /\ rx_packet' = Head(sock).bytes
    BY <1>1, <1>4 DEF TakePacket, same_ipv4_endpoint
  <2>2. 1 \in 1..Len(sock) /\ Head(sock) = sock[1] /\ Ours(1) /\ Len(sock) \in Nat
    BY <2>1, OrderBefore, HeadBytes DEF Ours, NetworkTypes
  <2>3. rx_packet' = b
    BY <2>1, <2>2
  <2>4. Whole(frames, b)
    BY <2>2, OrderBefore DEF Network
  <2>5. NothingBefore(Number(b))
    BY <2>2, OrderBefore DEF Network, NothingBefore
  <2>6. \A i \in 1..Len(decoded) : decoded[i] <= Number(b)
    BY <2>2, OrderBefore DEF NothingBefore
  <2> HIDE DEF b
  <2>7. Current' = Number(b) /\ Number(b) \in 1..Len(frames)
    BY <1>1, <1>4, <2>3, <2>4 DEF Current, Whole
  <2>8. Order'
    BY <1>1, <2>5, <2>6, <2>7, OrderBefore, OrderFrom DEF NetworkSound
  <2>9. Reader'
    BY <1>1, <1>4, <2>3, <2>4 DEF Reader
  <2> QED
    BY <2>8, <2>9 DEF InPlace
<1> QED
  BY <1>2, <1>3, <1>4

LEMMA DrainInPlace == ASSUME Sound, Drain PROVE InPlace'
<1>1. NetworkSound /\ decoded' = decoded
  BY OrderBefore, ReadsQuiet DEF Drain
<1>2. CASE dec' = dec
  BY <1>1, <1>2, ReaderRests DEF Drain
<1>3. CASE TimesOut /\ Ends("check")
  <2>1. rx_packet' = <<>>
    BY <1>3 DEF TimesOut, transport
  <2> QED
    BY <1>1, <1>3, <2>1, EndsFacts, ReaderRests
<1> QED
  BY <1>2, <1>3 DEF Drain

LEMMA CheckInPlace == ASSUME Sound, Check PROVE InPlace'
<1>1. /\ NetworkSound /\ decoded' = decoded /\ rx_packet' = rx_packet
      /\ dec.pc = "check" /\ Ends(IF late THEN "timeout" ELSE "type")
  BY OrderBefore, ReadsQuiet DEF Check, transport, history
<1>2. rx_packet' = <<>>
  BY <1>1, OrderBefore DEF Reader
<1>3. dec'.pc \in {"timeout", "type"}
  <2>1. CASE late
    BY <1>1, <2>1, EndsFacts
  <2>2. CASE ~late
    BY <1>1, <2>2, EndsFacts
  <2> QED
    BY <2>1, <2>2
<1> QED
  BY <1>1, <1>2, <1>3, ReaderRests

\* A new session puts the decoder into its place again, whatever it has read.
LEMMA SessionInPlace ==
    ASSUME NetworkSound, dec'.pc = "drain", Len(decoded') = 0 PROVE InPlace'
<1>1. Reader'
  BY DEF Reader
<1>2. Order'
  BY DEF Order
<1> QED
  BY <1>1, <1>2 DEF InPlace

LEMMA NextWaitInPlace == ASSUME Sound, ~struck, NextWait PROVE InPlace'
<1>1. /\ NetworkSound /\ decoded' = decoded
      /\ \/ dec'.pc = "check" /\ dec.pc = "returned" /\ rx_packet' = rx_packet
         \/ dec'.pc = "drain"
  BY OrderBefore, NextWaitHeld DEF Keeps
<1>2. dec.pc = "returned" => rx_packet = <<>>
  BY OrderBefore DEF Reader
<1> QED
  BY <1>1, <1>2, ReaderRests

LEMMA RecvTypeInPlace == ASSUME Sound, RecvType PROVE InPlace'
<1>1. /\ NetworkSound /\ UNCHANGED <<remote_addr, frames, sock, fpga_sock, decoded>>
      /\ dec.pc = "type" /\ rx_packet \in Bytes /\ dec \in DecType
  BY OrderBefore, ReadsQuiet DEF RecvType
<1>2. CASE TimesOut /\ Ends("check")
  <2>1. rx_packet' = <<>>
    BY <1>2 DEF TimesOut, transport
  <2> QED
    BY <1>1, <1>2, <2>1, EndsFacts, ReaderRests
<1>3. CASE Receives(1) /\ dec' = [dec EXCEPT !.pc = "count", !.read = Copied(1)]
  <2> DEFINE n == Number(rx_packet)
             one == Copied(1)
             rest == RestOfPacket(1)
  <2>1. rx_packet # <<>> /\ rx_packet' = rest
    BY <1>3 DEF Receives
  <2>2. Whole(frames, rx_packet)
    BY <1>1, <2>1, OrderBefore DEF Reader
  <2>3. /\ n \in 1..Len(frames) /\ frames[n] \in Kinds /\ frames[n].payload \in Nat
        /\ Len(rx_packet) = 3 + frames[n].payload
        /\ \A i \in 1..Len(rx_packet) : rx_packet[i] = <<n, 0 + i - 1>>
    BY <2>2, OrderBefore, ReceiveAssumption DEF Whole, Part
  <2>4. /\ one \in Bytes /\ Len(one) = 1 /\ one[1] = rx_packet[1]
        /\ rest \in Bytes /\ Len(rest) = Len(rx_packet) - 1
        /\ \A i \in 1..(Len(rx_packet) - 1) : rest[i] = rx_packet[1 + i]
    <3>1. 1 \in Nat /\ 1 <= Len(rx_packet) /\ 1 \in 1..1
      BY <2>3
    <3> QED BY <1>1, <3>1, RecvFacts
  <2> HIDE DEF n, one, rest
  <2>5. dec'.pc = "count" /\ dec'.read = one
    <3>1. dec' = [dec EXCEPT !.pc = "count", !.read = one]
      BY <1>3 DEF one
    <3> QED BY <1>1, <3>1 DEF DecType
  <2>6. one[1] = <<n, 0>> /\ Number(one) = n
    <3>1. rx_packet[1] = <<n, 0 + 1 - 1>>
      BY <2>3
    <3>2. one[1] = <<n, 0>>
      BY <2>4, <3>1
    <3> QED
      BY <3>2 DEF Number
  <2>7. Part(one, n, 0)
    <3>1. \A i \in 1..1 : i = 1 /\ <<n, 0 + i - 1>> = <<n, 0>>
      OBVIOUS
    <3> QED
      BY <2>4, <2>6, <3>1 DEF Part
  <2>8. Part(rest, n, 1)
    <3> SUFFICES ASSUME NEW i \in 1..Len(rest) PROVE rest[i] = <<n, 1 + i - 1>>
      BY DEF Part
    <3>1. 1 + i \in 1..Len(rx_packet) /\ i \in 1..(Len(rx_packet) - 1)
          /\ 0 + (1 + i) - 1 = 1 + i - 1
      BY <2>3, <2>4
    <3>2. rest[i] = rx_packet[1 + i] /\ rx_packet[1 + i] = <<n, 0 + (1 + i) - 1>>
      BY <2>3, <2>4, <3>1
    <3> QED
      BY <3>1, <3>2
  <2>9. rest # <<>> /\ 1 + Len(rest) = 3 + frames[n].payload
    BY <2>3, <2>4
  <2>10. Reader'
    BY <1>1, <2>1, <2>3, <2>4, <2>5, <2>6, <2>7, <2>8, <2>9 DEF Reader
  <2>11. Order'
    <3>1. Current' = n /\ Current = n
      BY <1>1, <2>5, <2>6 DEF Current, n
    <3> QED
      BY <1>1, <2>1, <2>3, <3>1, OrderBefore, OrderFrom DEF NetworkSound
  <2> QED
    BY <2>10, <2>11 DEF InPlace
<1> QED
  BY <1>2, <1>3 DEF RecvType

\* What the decoder has read of a frame after m bytes more, and what is left.
LEMMA ReadOn ==
    ASSUME Sound, dec.pc \in {"count", "payload"}, NEW m \in Nat, m <= Len(rx_packet)
    PROVE  LET n == Number(dec.read)
               read == dec.read \o Copied(m)
               rest == RestOfPacket(m)
           IN /\ n \in 1..Len(frames) /\ frames[n] \in Kinds /\ frames[n].payload \in Nat
              /\ read \in Bytes /\ Len(read) = Len(dec.read) + m
              /\ Number(read) = n /\ Part(read, n, 0) /\ Aligned(read)
              /\ rest \in Bytes /\ Part(rest, n, Len(read))
              /\ Len(read) + Len(rest) = 3 + frames[n].payload
<1> DEFINE n == Number(dec.read)
           k == Len(dec.read)
           piece == Copied(m)
           read == dec.read \o piece
           rest == RestOfPacket(m)
<1>1. /\ \A i \in 1..k : dec.read[i] = <<n, 0 + i - 1>>
      /\ \A i \in 1..Len(rx_packet) : rx_packet[i] = <<n, k + i - 1>>
      /\ k = (IF dec.pc = "count" THEN 1 ELSE 3) /\ n \in 1..Len(frames)
      /\ k + Len(rx_packet) = 3 + frames[n].payload
  BY OrderBefore DEF Reader, Part
<1>2. /\ frames[n] \in Kinds /\ frames[n].payload \in Nat /\ dec.read \in Bytes
      /\ rx_packet \in Bytes /\ Len(rx_packet) \in Nat /\ k \in Nat \ {0} /\ n \in Nat
  <2>1. rx_packet \in Bytes /\ dec.read \in Bytes /\ frames \in Seq(Kinds)
    BY OrderBefore DEF ReaderTypes, DecType
  <2>2. Len(rx_packet) \in Nat
    BY <2>1 DEF Bytes
  <2>3. k \in Nat \ {0} /\ n \in Nat
    <3> HIDE DEF k, n
    <3> QED BY <1>1, <2>1
  <2>4. frames[n] \in Kinds
    <3> HIDE DEF n
    <3> QED BY <1>1, <2>1
  <2>5. frames[n].payload \in Nat
    <3> HIDE DEF n
    <3> QED BY <2>4, ReceiveAssumption
  <2> QED BY <2>1, <2>2, <2>3, <2>4, <2>5
<1>3. /\ piece \in Bytes /\ Len(piece) = m /\ \A i \in 1..m : piece[i] = rx_packet[i]
      /\ rest \in Bytes /\ Len(rest) = Len(rx_packet) - m
      /\ \A i \in 1..(Len(rx_packet) - m) : rest[i] = rx_packet[m + i]
  BY <1>2, RecvFacts
<1>4. /\ read \in Bytes /\ Len(read) = k + m
      /\ \A i \in 1..k : read[i] = dec.read[i]
      /\ \A i \in 1..m : read[k + i] = piece[i]
  <2> HIDE DEF piece
  <2>1. /\ read \in Bytes /\ Len(read) = Len(dec.read) + Len(piece)
        /\ \A i \in 1..Len(dec.read) : read[i] = dec.read[i]
        /\ \A i \in 1..Len(piece) : read[Len(dec.read) + i] = piece[i]
    BY <1>2, <1>3, JoinFacts
  <2> HIDE DEF read
  <2> QED BY <1>3, <2>1
<1> HIDE DEF n, k, piece, read, rest
<1>5. Part(read, n, 0)
  <2> SUFFICES ASSUME NEW i \in 1..Len(read) PROVE read[i] = <<n, 0 + i - 1>>
    BY DEF Part
  <2>1. CASE i <= k
    <3>1. i \in 1..k
      BY <1>2, <1>4, <2>1
    <3> QED
      BY <1>1, <1>4, <3>1
  <2>2. CASE i > k
    <3> DEFINE j == i - k
    <3>1. /\ j \in 1..m /\ j \in 1..Len(rx_packet) /\ i = k + j /\ k + j - 1 = 0 + i - 1
      BY <1>2, <1>4, <2>2
    <3> HIDE DEF j
    <3>2. read[i] = rx_packet[j]
      BY <1>3, <1>4, <3>1
    <3>3. rx_packet[j] = <<n, k + j - 1>>
      BY <1>1, <3>1
    <3> QED
      BY <3>1, <3>2, <3>3
  <2> QED
    BY <1>2, <1>4, <2>1, <2>2
<1>6. Part(rest, n, Len(read))
  <2> SUFFICES ASSUME NEW i \in 1..Len(rest) PROVE rest[i] = <<n, Len(read) + i - 1>>
    BY DEF Part
  <2>1. /\ m + i \in 1..Len(rx_packet) /\ i \in 1..(Len(rx_packet) - m)
        /\ k + (m + i) - 1 = Len(read) + i - 1
    BY <1>2, <1>3, <1>4
  <2>2. rest[i] = rx_packet[m + i]
    BY <1>3, <2>1
  <2>3. rx_packet[m + i] = <<n, k + (m + i) - 1>>
    BY <1>1, <2>1
  <2> QED
    BY <2>1, <2>2, <2>3
<1>7. Number(read) = n /\ read[1][1] = n
  <2>1. read[1] = dec.read[1]
    BY <1>2, <1>4
  <2> QED
    BY <2>1 DEF Number, n
<1>8. Aligned(read)
  <2>1. DOMAIN frames = 1..Len(frames) /\ DOMAIN read = 1..Len(read) /\ Len(read) \in Nat
    BY <1>4, OrderBefore DEF Bytes
  <2>2. \A i \in 1..Len(read) : read[i] = <<n, i - 1>>
    <3> SUFFICES ASSUME NEW i \in 1..Len(read) PROVE read[i] = <<n, i - 1>>
      OBVIOUS
    <3>1. read[i] = <<n, 0 + i - 1>> /\ 0 + i - 1 = i - 1
      BY <1>5, <2>1 DEF Part
    <3> QED
      BY <3>1
  <2> QED
    BY <1>1, <1>7, <2>1, <2>2 DEF Aligned
<1>9. Len(read) + Len(rest) = 3 + frames[n].payload
  BY <1>1, <1>2, <1>3, <1>4
<1> QED
  BY <1>1, <1>2, <1>3, <1>4, <1>5, <1>6, <1>7, <1>8, <1>9 DEF n, k, piece, read, rest

\* A header, or all of a frame, has been read in its place.
LEMMA ProceedInPlace ==
    ASSUME Sound, NetworkSound, dec.pc \in {"count", "payload"}, frames' = frames,
           NEW m \in Nat, m <= Len(rx_packet), rx_packet' = RestOfPacket(m),
           Len(dec.read) + m \in {3, 3 + frames[Number(dec.read)].payload},
           Proceed(dec.read \o Copied(m), frames[Number(dec.read)])
    PROVE  InPlace'
<1> DEFINE n == Number(dec.read)
           read == dec.read \o Copied(m)
           rest == RestOfPacket(m)
           kind == frames[n]
<1>1. /\ n \in 1..Len(frames) /\ kind \in Kinds /\ kind.payload \in Nat
      /\ read \in Bytes /\ Len(read) = Len(dec.read) + m
      /\ Number(read) = n /\ Part(read, n, 0) /\ Aligned(read)
      /\ rest \in Bytes /\ Part(rest, n, Len(read))
      /\ Len(read) + Len(rest) = 3 + kind.payload
  BY ReadOn
<1>2. rx_packet' = rest /\ Proceed(read, kind)
  OBVIOUS
<1>3. Len(read) \in {3, 3 + kind.payload}
  <2>1. Len(dec.read) + m \in {3, 3 + kind.payload}
    OBVIOUS
  <2> HIDE DEF read, kind
  <2> QED BY <1>1, <2>1
<1>4. Len(read) \in Nat /\ Len(rest) \in Nat /\ (Len(rest) = 0 => rest = <<>>)
  <2> HIDE DEF read, rest
  <2> QED BY <1>1 DEF Bytes
<1>5. rx_packet # <<>> /\ frames \in Seq(Kinds) /\ KeepsOrder
  BY OrderBefore DEF Reader, NetworkSound
<1>6. /\ NothingBefore(n) /\ Current = n
      /\ \A i \in 1..Len(decoded) : decoded[i] <= n
  BY <1>5, OrderBefore DEF Current
<1>7. read[1][1] = n
  BY <1>1 DEF Number
<1> HIDE DEF n, read, rest, kind
<1>8. CASE Len(read) = 3 + kind.payload
  <2>1. rx_packet' = <<>>
    BY <1>1, <1>2, <1>4, <1>8
  <2>2. /\ Ends(IF kind.ack THEN "returned" ELSE "check")
        /\ decoded' = Append(decoded, n)
    BY <1>1, <1>2, <1>7, <1>8, Zenon DEF Proceed
  <2>3. dec'.pc \in {"returned", "check"}
    <3>1. CASE kind.ack
      BY <2>2, <3>1, EndsFacts
    <3>2. CASE ~kind.ack
      BY <2>2, <3>2, EndsFacts
    <3> QED
      BY <3>1, <3>2
  <2>4. /\ decoded' \in Seq(Nat) /\ Len(decoded') = Len(decoded) + 1 /\ Len(decoded) \in Nat
        /\ \A i \in 1..Len(decoded') : decoded'[i] = IF i <= Len(decoded) THEN decoded[i] ELSE n
    <3>1. decoded \in Seq(Nat) /\ n \in Nat
      BY <1>1, OrderBefore DEF ReaderTypes
    <3> QED
      BY <2>2, <3>1, AppendFacts
  <2>5. \A i \in 1..Len(decoded') :
          decoded'[i] \in 1..Len(frames) /\ NothingBefore(decoded'[i])
    <3> SUFFICES ASSUME NEW i \in 1..Len(decoded')
                 PROVE  decoded'[i] \in 1..Len(frames) /\ NothingBefore(decoded'[i])
      OBVIOUS
    <3>1. CASE i <= Len(decoded)
      <4>1. i \in 1..Len(decoded) /\ decoded'[i] = decoded[i]
        BY <2>4, <3>1
      <4> QED
        BY <4>1, OrderBefore, Zenon
    <3>2. CASE ~(i <= Len(decoded))
      <4>1. decoded'[i] = n
        BY <2>4, <3>2
      <4> QED
        BY <1>1, <1>6, <4>1, Zenon
    <3> QED
      BY <3>1, <3>2
  <2>6. ASSUME NEW i \in 1..Len(decoded'), NEW j \in 1..i
        PROVE  decoded'[j] <= decoded'[i]
    <3>1. CASE i <= Len(decoded)
      <4>1. /\ i \in 1..Len(decoded) /\ decoded'[i] = decoded[i]
            /\ j \in 1..Len(decoded) /\ decoded'[j] = decoded[j]
        BY <2>4, <3>1
      <4> QED
        BY <4>1, OrderBefore
    <3>2. CASE i > Len(decoded) /\ j <= Len(decoded)
      <4>1. decoded'[i] = n /\ j \in 1..Len(decoded) /\ decoded'[j] = decoded[j]
        BY <2>4, <3>2
      <4> QED
        BY <1>6, <4>1
    <3>3. CASE j > Len(decoded)
      <4>1. decoded'[i] = n /\ decoded'[j] = n /\ n \in Nat
        BY <1>1, <1>5, <2>4, <3>3
      <4> QED
        BY <4>1
    <3> QED
      BY <2>4, <3>1, <3>2, <3>3
  <2>7. Order'
    BY <1>5, <2>1, <2>5, <2>6, OrderFrom
  <2>8. Reader'
    BY <2>1, <2>3 DEF Reader
  <2> QED
    BY <2>7, <2>8 DEF InPlace
<1>9. CASE Len(read) # 3 + kind.payload
  <2>1. Len(read) = 3 /\ rest # <<>>
    <3>1. Len(rest) # 0
      BY <1>1, <1>4, <1>9
    <3> QED
      BY <1>3, <1>9, <3>1
  <2>2. dec' = [pc |-> "payload", read |-> read, kind |-> kind] /\ decoded' = decoded
    BY <1>2, <1>9, Zenon DEF Proceed
  <2>3. dec'.pc = "payload" /\ dec'.read = read /\ dec'.kind = kind
    BY <2>2
  <2>4. Reader'
    BY <1>1, <1>2, <2>1, <2>3 DEF Reader, kind
  <2>5. Current' = n
    BY <1>1, <2>3 DEF Current
  <2>6. Order'
    BY <1>1, <1>5, <1>6, <2>2, <2>5, OrderBefore, OrderFrom
  <2> QED
    BY <2>4, <2>6 DEF InPlace
<1> QED
  BY <1>8, <1>9

LEMMA RecvCountInPlace == ASSUME Sound, RecvCount PROVE InPlace'
<1> DEFINE n == Number(dec.read)
           read == dec.read \o Copied(2)
<1>1. /\ NetworkSound /\ UNCHANGED <<remote_addr, frames, sock, fpga_sock>>
      /\ dec.pc = "count" /\ Reader
  BY OrderBefore, ReadsQuiet DEF RecvCount
<1>2. /\ rx_packet # <<>> /\ Len(dec.read) = 1 /\ n \in 1..Len(frames)
      /\ Len(dec.read) + Len(rx_packet) = 3 + frames[n].payload
  BY <1>1 DEF Reader
<1>3. 3 - Len(dec.read) = 2 /\ 2 \in Nat /\ 2 <= Len(rx_packet)
  <2>1. frames[n] \in Kinds
    <3> HIDE DEF n
    <3> QED BY <1>2, OrderBefore
  <2>2. frames[n].payload \in Nat
    <3> HIDE DEF n
    <3> QED BY <2>1, ReceiveAssumption
  <2>3. Len(rx_packet) \in Nat
    BY OrderBefore DEF ReaderTypes, Bytes
  <2> HIDE DEF n
  <2> QED BY <1>2, <2>2, <2>3
<1>4. Len(read) = Len(dec.read) + 2 /\ Number(read) = n /\ Aligned(read)
  BY <1>1, <1>3, ReadOn
<1>5. Len(read) = 3 /\ Spelled(read) = {frames[n]}
  <2>1. Len(read) = 3
    <3> HIDE DEF read
    <3> QED BY <1>2, <1>4
  <2>2. read[1][1] = n
    BY <1>4 DEF Number
  <2> HIDE DEF read, n
  <2> QED BY <1>4, <2>1, <2>2, Zenon DEF Spelled
<1>6. ~TimesOut
  BY <1>2 DEF TimesOut
<1>7. /\ Receives(2)
      /\ \/ Len(read) < 3
         \/ \E kind \in Spelled(read) : Proceed(read, kind)
         \/ ~Aligned(read)
  <2> HIDE DEF n
  <2> QED BY <1>3, <1>6, Zenon DEF RecvCount
<1>8. Proceed(read, frames[n])
  <2>1. ~(Len(read) < 3)
    <3> HIDE DEF read
    <3> QED BY <1>5
  <2> HIDE DEF read, n
  <2> QED BY <1>4, <1>5, <1>7, <2>1, Zenon
<1>9. rx_packet' = RestOfPacket(2)
  BY <1>7 DEF Receives
<1>10. Len(dec.read) + 2 = 3
  BY <1>2
<1> QED
  BY <1>1, <1>3, <1>8, <1>9, <1>10, ProceedInPlace

LEMMA RecvPayloadInPlace == ASSUME Sound, RecvPayload PROVE InPlace'
<1> DEFINE n == Number(dec.read)
           m == 3 + dec.kind.payload - Len(dec.read)
<1>1. /\ NetworkSound /\ UNCHANGED <<remote_addr, frames, sock, fpga_sock>>
      /\ dec.pc = "payload" /\ Reader
  BY OrderBefore, ReadsQuiet DEF RecvPayload
<1>2. /\ rx_packet # <<>> /\ Len(dec.read) = 3 /\ n \in 1..Len(frames)
      /\ dec.kind = frames[n]
      /\ Len(dec.read) + Len(rx_packet) = 3 + frames[n].payload
  BY <1>1 DEF Reader
<1>3. m \in Nat /\ m <= Len(rx_packet) /\ Len(dec.read) + m = 3 + frames[n].payload
  <2>1. Len(rx_packet) \in Nat
    BY OrderBefore DEF ReaderTypes, Bytes
  <2>2. dec.kind.payload \in Nat
    BY OrderBefore DEF ReaderTypes, DecType
  <2> HIDE DEF n
  <2> QED BY <1>2, <2>1, <2>2
<1>4. ~TimesOut
  BY <1>2 DEF TimesOut
<1>5. Receives(m) /\ Proceed(dec.read \o Copied(m), dec.kind)
  BY <1>4, Zenon DEF RecvPayload
<1>6. rx_packet' = RestOfPacket(m) /\ Proceed(dec.read \o Copied(m), frames[n])
  <2> HIDE DEF m, n
  <2> QED BY <1>2, <1>5 DEF Receives
<1> HIDE DEF m
<1> QED
  BY <1>1, <1>3, <1>6, ProceedInPlace

-----------------------------------------------------------------------------
LEMMA ReceiveInit == ASSUME Init PROVE IInv
<1>1. dec \in DecType /\ dec.pc = "drain"
  <2>1. NoKind \in [ack : BOOLEAN, payload : Nat]
    BY DEF NoKind
  <2> QED BY <2>1, NoBytes DEF Init, DecType
<1>2. /\ remote_addr \in {"board", "proxy"} /\ frames = <<>> /\ sock = <<>> /\ fpga_sock = <<>>
      /\ rx_packet = <<>> /\ decoded = <<>> /\ struck = FALSE
  BY DEF Init, ProxyInit
<1>3. NetworkTypes /\ ReaderTypes
  <2>1. NetworkTypes
    BY <1>2 DEF NetworkTypes
  <2>2. rx_packet \in Bytes /\ decoded \in Seq(Nat)
    BY <1>2, NoBytes
  <2>3. dec.pc # "count" /\ dec.pc # "payload"
    BY <1>1
  <2>4. struck \in BOOLEAN
    BY <1>2, Zenon
  <2> QED BY <1>1, <2>1, <2>2, <2>3, <2>4, Zenon DEF ReaderTypes
<1> QED
  BY <1>1, <1>2, <1>3 DEF IInv, InPlace, Network, Reader, Order

LEMMA ReceiveStep == ASSUME IInv, [Next]_vars PROVE IInv'
<1>1. Held
  BY DEF IInv, Held
<1>2. ASSUME Keeps, ~struck' => InPlace' PROVE IInv'
  BY <1>2 DEF IInv, Keeps, NetworkSound
<1>3. ~struck => Sound
  BY <1>1 DEF IInv, Sound
<1>4. CASE BoardSends \/ StrayArrives \/ ClientSends \/ ProxyMoves \/ TimePasses \/ UNCHANGED vars
  <2>1. Keeps /\ UNCHANGED <<rx_packet, struck, decoded, dec>>
    BY <1>1, <1>4, NetworkMoves
  <2> QED
    BY <1>2, <1>3, <2>1, ReaderStays DEF Keeps
<1>5. CASE TakePacket \/ TakeUnchecked
  <2>1. Keeps /\ (struck => struck')
    <3>1. /\ Keeps
          /\ TakePacket => struck' = struck
          /\ TakeUnchecked => struck' = (struck \/ dec.pc # "drain")
      BY <1>1, <1>5, TakesHeld
    <3>2. CASE TakePacket
      BY <3>1, <3>2
    <3>3. CASE TakeUnchecked
      BY <3>1, <3>3
    <3> QED BY <1>5, <3>1, <3>2, <3>3
  <2> QED
    BY <1>2, <1>3, <1>5, <2>1, TakeInPlace
<1>6. CASE Drain \/ Check \/ RecvType \/ RecvCount \/ RecvPayload
  <2>1. Keeps /\ struck' = struck
    BY <1>1, <1>6, ReadsHeld, ReadsQuiet
  <2> QED
    BY <1>2, <1>3, <1>6, <2>1, DrainInPlace, CheckInPlace, RecvTypeInPlace, RecvCountInPlace,
       RecvPayloadInPlace
<1>7. CASE NextWait
  <2>1. CASE ~struck
    BY <1>1, <1>2, <1>3, <1>7, <2>1, NextWaitHeld, NextWaitInPlace
  <2>2. CASE struck
    <3>1. Keeps /\ (~struck' => dec'.pc = "drain" /\ decoded' = <<>>)
      BY <1>1, <1>7, <2>2, NextWaitHeld
    <3>2. ~struck' => InPlace'
      BY <3>1, SessionInPlace DEF Keeps
    <3> QED
      BY <1>2, <3>1, <3>2
  <2> QED BY <2>1, <2>2
<1> QED
  BY <1>4, <1>5, <1>6, <1>7 DEF Next, HostMoves

\* The decoder does not lose its place by itself, for any number of frames of
\* any kinds and sizes, whatever is lost, doubled, relayed or drained: every
\* datagram of the peer is a whole frame and is read to its end before the
\* next.  It loses it only to the bytes recv() hands out for a stranger's
\* datagram or an interrupted call, and gets it back with the next session.
THEOREM DecoderStaysInStep == Spec => []DecoderInStep
<1>1. Init => IInv
  BY ReceiveInit
<1>2. IInv /\ [Next]_vars => IInv'
  BY ReceiveStep
<1>3. IInv => DecoderInStep
  <2> SUFFICES ASSUME IInv, ~struck
               PROVE  /\ dec.pc # "threw"
                      /\ \A i \in DOMAIN decoded :
                            decoded[i] # 0 /\ \A j \in 1..i : decoded[j] <= decoded[i]
    BY DEF DecoderInStep
  <2>1. Sound
    BY DEF IInv, Sound, Held
  <2>2. dec.pc # "threw"
    BY <2>1, OrderBefore DEF Reader
  <2>3. DOMAIN decoded = 1..Len(decoded)
    BY <2>1, OrderBefore DEF ReaderTypes
  <2>4. \A i \in 1..Len(decoded) : decoded[i] # 0
    BY <2>1, OrderBefore
  <2> QED
    BY <2>1, <2>2, <2>3, <2>4, OrderBefore
<1> QED
  BY <1>1, <1>2, <1>3, PTL DEF Spec

=============================================================================
