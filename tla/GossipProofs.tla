---------------------------- MODULE GossipProofs ----------------------------
(***************************************************************************)
(* Theorems about Gossip.tla, for any connections, any number of signals   *)
(* and any sizes of the buffers.                                           *)
(***************************************************************************)
EXTENDS Gossip, TLAPS

-----------------------------------------------------------------------------
(* Types *)

(* The histories are typed as well.                                        *)
HistoryTypeOK ==
    /\ written \in [Conn -> Seq(Int)] /\ delivered \in [Conn -> Seq(Int)]

GossipInv == TypeOK /\ HistoryTypeOK

(* Packets are two cells.                                                  *)
LEMMA PacketType ==
    ASSUME NEW m \in Msg \cup {Proof, WrongProof}
    PROVE  /\ encode_packet(m) \in Seq(Cell) /\ Len(encode_packet(m)) = 2
           /\ encode_packet(m)[1] = [part |-> "length", of |-> m]
           /\ encode_packet(m)[2] = [part |-> "body", of |-> m]
BY DEF encode_packet, Cell

(* Written behind what is under way.                                       *)
LEMMA AppendPacket ==
    ASSUME NEW s \in Seq(Cell), NEW m \in Msg \cup {Proof, WrongProof}
    PROVE  LET t == s \o encode_packet(m) IN
           /\ t \in Seq(Cell) /\ Len(t) = Len(s) + 2
           /\ \A i \in 1..Len(s) : t[i] = s[i]
           /\ t[Len(s) + 1] = [part |-> "length", of |-> m]
           /\ t[Len(s) + 2] = [part |-> "body", of |-> m]
<1> DEFINE p == encode_packet(m)
<1>1. /\ p \in Seq(Cell) /\ Len(p) = 2
      /\ p[1] = [part |-> "length", of |-> m]
      /\ p[2] = [part |-> "body", of |-> m]
  BY PacketType
<1>t. p \in Seq(Cell)
  BY <1>1
<1> HIDE DEF p
<1>2. /\ s \o p \in Seq(Cell) /\ Len(s \o p) = Len(s) + Len(p)
      /\ \A i \in 1..Len(s) : (s \o p)[i] = s[i]
      /\ \A i \in 1..Len(p) : (s \o p)[Len(s) + i] = p[i]
  BY <1>t
<1> QED
  BY <1>1, <1>2 DEF p

(* A suffix of a sequence of cells.                                        *)
LEMMA Suffix ==
    ASSUME NEW s \in Seq(Cell), NEW n \in Nat, n <= Len(s)
    PROVE  LET t == SubSeq(s, n + 1, Len(s)) IN
           /\ t \in Seq(Cell) /\ Len(t) = Len(s) - n
           /\ \A i \in 1..Len(t) : t[i] = s[n + i]
OBVIOUS

(* What read_buf moves from the stream to the buffer.                      *)
LEMMA Moved ==
    ASSUME NEW b \in Seq(Cell), NEW s \in Seq(Cell), NEW n \in 1..Len(s)
    PROVE  LET t == b \o SubSeq(s, 1, n) IN
           /\ t \in Seq(Cell) /\ Len(t) = Len(b) + n
           /\ \A i \in 1..Len(b) : t[i] = b[i]
           /\ \A i \in 1..n : t[Len(b) + i] = s[i]
<1> DEFINE u == SubSeq(s, 1, n)
<1>1. u \in Seq(Cell) /\ Len(u) = n /\ \A i \in 1..n : u[i] = s[i]
  OBVIOUS
<1> HIDE DEF u
<1>2. /\ b \o u \in Seq(Cell) /\ Len(b \o u) = Len(b) + n
      /\ \A i \in 1..Len(b) : (b \o u)[i] = b[i]
      /\ \A i \in 1..n : (b \o u)[Len(b) + i] = u[i]
  BY <1>1
<1> QED
  BY <1>1, <1>2 DEF u

(* Opening a connection.                                                   *)
LEMMA OpenType ==
    ASSUME GossipInv, NEW c \in Conn,
           NEW m \in {Proof, WrongProof}, NEW hello,
           hello = encode_packet(m) \/ hello = <<>>, Open(c, hello)
    PROVE  /\ link' \in [Conn -> {"unused", "up", "down"}]
           /\ stream' \in [Conn -> Seq(Cell)]
           /\ \A d \in Conn : Len(stream'[d]) <= StreamCap
           /\ reader' \in [Conn -> {"none", "auth", "reading", "gone"}]
<1>1. hello \in Seq(Cell) /\ Len(hello) <= 2
  <2>1. CASE hello = encode_packet(m)
    <3>1. m \in Msg \cup {Proof, WrongProof}
      OBVIOUS
    <3>2. encode_packet(m) \in Seq(Cell) /\ Len(encode_packet(m)) = 2
      BY <3>1, PacketType
    <3> QED
      BY <2>1, <3>2
  <2>2. CASE hello = <<>>
    BY <2>2
  <2> QED
    BY <2>1, <2>2
<1>2. /\ link \in [Conn -> {"unused", "up", "down"}]
      /\ stream \in [Conn -> Seq(Cell)]
      /\ \A d \in Conn : Len(stream[d]) <= StreamCap
      /\ reader \in [Conn -> {"none", "auth", "reading", "gone"}]
  BY DEF GossipInv, TypeOK
<1>3. /\ link' = [link EXCEPT ![c] = "up"]
      /\ stream' = [stream EXCEPT ![c] = hello]
      /\ reader' = [reader EXCEPT ![c] = IF Psk THEN "auth" ELSE "reading"]
  BY DEF Open
<1>4. \A d \in Conn : Len(stream'[d]) <= StreamCap
  <2> TAKE d \in Conn
  <2>1. CASE d = c
    BY <1>1, <1>2, <1>3, <2>1, GossipAssumption
  <2>2. CASE d # c
    BY <1>2, <1>3, <2>2
  <2> QED
    BY <2>1, <2>2
<1>5. stream' \in [Conn -> Seq(Cell)]
  BY <1>1, <1>2, <1>3
<1>6. /\ link' \in [Conn -> {"unused", "up", "down"}]
      /\ reader' \in [Conn -> {"none", "auth", "reading", "gone"}]
  BY <1>2, <1>3
<1> QED
  BY <1>4, <1>5, <1>6

(* The fan-out loop appends a packet to the connections that are up.       *)
LEMMA FanOutEffect ==
    ASSUME GossipInv, FanOut
    PROVE  LET m == Head(outbound)
               live == {c \in writers : link[c] = "up"}
           IN  /\ m \in Msg /\ outbound' \in Seq(Msg) /\ writers' \subseteq writers
               /\ stream' \in [Conn -> Seq(Cell)]
               /\ written' \in [Conn -> Seq(Int)]
               /\ \A c \in Conn :
                     IF c \in live
                     THEN /\ stream'[c] = stream[c] \o encode_packet(m)
                          /\ written'[c] = Append(written[c], m)
                          /\ Len(stream[c]) + 2 <= StreamCap
                     ELSE stream'[c] = stream[c] /\ written'[c] = written[c]
<1> DEFINE m == Head(outbound)
           live == {c \in writers : link[c] = "up"}
<1>1. /\ outbound \in Seq(Msg) /\ outbound # <<>> /\ writers \subseteq Conn
      /\ stream \in [Conn -> Seq(Cell)] /\ written \in [Conn -> Seq(Int)]
  BY DEF GossipInv, TypeOK, HistoryTypeOK, FanOut
<1>2. m \in Msg /\ Tail(outbound) \in Seq(Msg)
  BY <1>1
<1>3. /\ stream' = [c \in Conn |-> IF c \in live THEN stream[c] \o encode_packet(m)
                                   ELSE stream[c]]
      /\ written' = [c \in Conn |-> IF c \in live THEN Append(written[c], m)
                                    ELSE written[c]]
      /\ \A c \in live : Len(stream[c]) + 2 <= StreamCap
      /\ writers' \subseteq writers /\ outbound' = Tail(outbound)
  BY DEF FanOut
<1>4. \A c \in Conn : stream[c] \o encode_packet(m) \in Seq(Cell)
  BY <1>1, <1>2, AppendPacket
<1>5. m \in Int
  BY <1>2, GossipAssumption DEF Msg
<1> HIDE DEF m, live
<1>6. stream' \in [Conn -> Seq(Cell)] /\ written' \in [Conn -> Seq(Int)]
  <2>1. \A c \in Conn : Append(written[c], m) \in Seq(Int)
    BY <1>1, <1>5
  <2> QED
    BY <1>1, <1>3, <1>4, <2>1
<1>7. \A c \in Conn :
         IF c \in live
         THEN /\ stream'[c] = stream[c] \o encode_packet(m)
              /\ written'[c] = Append(written[c], m)
              /\ Len(stream[c]) + 2 <= StreamCap
         ELSE stream'[c] = stream[c] /\ written'[c] = written[c]
  BY <1>3
<1> QED
  BY <1>2, <1>3, <1>6, <1>7 DEF m, live

(* read_buf moves cells from the stream to the buffer.                     *)
LEMMA ReadBufEffect ==
    ASSUME GossipInv, NEW c \in Conn, ReadBuf(c)
    PROVE  \E n \in 1..Len(stream[c]) :
              /\ buf' = [buf EXCEPT ![c] = buf[c] \o SubSeq(stream[c], 1, n)]
              /\ stream' = [stream EXCEPT ![c] =
                               SubSeq(stream[c], n + 1, Len(stream[c]))]
              /\ buf'[c] \in Seq(Cell) /\ Len(buf'[c]) = Len(buf[c]) + n
              /\ \A i \in 1..Len(buf[c]) : buf'[c][i] = buf[c][i]
              /\ \A i \in 1..n : buf'[c][Len(buf[c]) + i] = stream[c][i]
              /\ stream'[c] \in Seq(Cell)
              /\ Len(stream'[c]) = Len(stream[c]) - n
              /\ \A i \in 1..Len(stream'[c]) : stream'[c][i] = stream[c][n + i]
<1> DEFINE b == buf[c]
           s == stream[c]
<1>1. /\ b \in Seq(Cell) /\ s \in Seq(Cell)
      /\ buf \in [Conn -> Seq(Cell)] /\ stream \in [Conn -> Seq(Cell)]
  BY DEF GossipInv, TypeOK
<1>2. PICK n \in 1..Len(s) :
         /\ buf' = [buf EXCEPT ![c] = b \o SubSeq(s, 1, n)]
         /\ stream' = [stream EXCEPT ![c] = SubSeq(s, n + 1, Len(s))]
  BY DEF ReadBuf
<1>3. buf'[c] = b \o SubSeq(s, 1, n) /\ stream'[c] = SubSeq(s, n + 1, Len(s))
  BY <1>1, <1>2
<1> HIDE DEF b, s
<1>4. /\ buf'[c] \in Seq(Cell) /\ Len(buf'[c]) = Len(b) + n
      /\ \A i \in 1..Len(b) : buf'[c][i] = b[i]
      /\ \A i \in 1..n : buf'[c][Len(b) + i] = s[i]
  BY <1>1, <1>3, Moved
<1>5. /\ stream'[c] \in Seq(Cell) /\ Len(stream'[c]) = Len(s) - n
      /\ \A i \in 1..Len(stream'[c]) : stream'[c][i] = s[n + i]
  <2>1. n \in Nat /\ n <= Len(s)
    BY <1>1
  <2> QED
    BY <1>1, <1>3, <2>1, Suffix
<1> QED
  BY <1>2, <1>4, <1>5 DEF b, s

(* A step of the acceptor that drops the first n cells of the buffer.      *)
LEMMA DropEffect ==
    ASSUME GossipInv, NEW c \in Conn, NEW n \in Nat, n <= Len(buf[c]),
           buf' = [buf EXCEPT ![c] = SubSeq(buf[c], n + 1, Len(buf[c]))]
    PROVE  /\ buf' \in [Conn -> Seq(Cell)] /\ Len(buf'[c]) = Len(buf[c]) - n
           /\ \A i \in 1..Len(buf'[c]) : buf'[c][i] = buf[c][n + i]
<1> DEFINE b == buf[c]
           t == SubSeq(b, n + 1, Len(b))
<1>1. b \in Seq(Cell) /\ buf \in [Conn -> Seq(Cell)]
  BY DEF GossipInv, TypeOK
<1>2. /\ t \in Seq(Cell) /\ Len(t) = Len(b) - n
      /\ \A i \in 1..Len(t) : t[i] = b[n + i]
  BY <1>1, Suffix
<1>3. buf' = [buf EXCEPT ![c] = t]
  OBVIOUS
<1> HIDE DEF t
<1>4. buf'[c] = t /\ buf' \in [Conn -> Seq(Cell)]
  BY <1>1, <1>2, <1>3
<1> QED
  BY <1>2, <1>4

(* Every step keeps the state typed.                                       *)
LEMMA GossipTypeStep ==
    ASSUME GossipInv, [Next]_vars
    PROVE  GossipInv'
<1>t. /\ dial \in BOOLEAN /\ active \in BOOLEAN
      /\ link \in [Conn -> {"unused", "up", "down"}]
      /\ handed \subseteq Conn /\ writers \subseteq Conn
      /\ listening \subseteq Conn /\ cut \subseteq Conn
      /\ outbound \in Seq(Msg) /\ sent \in 0..MaxMsg
      /\ stream \in [Conn -> Seq(Cell)] /\ buf \in [Conn -> Seq(Cell)]
      /\ \A c \in Conn : Len(stream[c]) <= StreamCap
      /\ reader \in [Conn -> {"none", "auth", "reading", "gone"}]
      /\ breaks \in 0..MaxBreaks
      /\ written \in [Conn -> Seq(Int)] /\ delivered \in [Conn -> Seq(Int)]
  BY DEF GossipInv, TypeOK, HistoryTypeOK
<1>a. /\ Stranger \subseteq Conn /\ Psk \in BOOLEAN
      /\ MaxMsg \in Nat /\ MaxMsg >= 1 /\ StreamCap \in Nat
      /\ MaxSkip \in Nat /\ MaxBreaks \in Nat
  BY GossipAssumption
<1>e. <<>> \in Seq(Cell) /\ Len(<<>>) = 0
  OBVIOUS
<1> USE DEF GossipInv, TypeOK, HistoryTypeOK
<1>1. CASE AddPeer
  BY <1>1, <1>t DEF AddPeer, sendVars, readVars
<1>2. ASSUME NEW c \in Conn, TryConnect(c) PROVE GossipInv'
  <2> DEFINE hello == IF Psk THEN encode_packet(Proof) ELSE <<>>
  <2>1. Open(c, hello) /\ (hello = encode_packet(Proof) \/ hello = <<>>)
    BY <1>2, <1>a DEF TryConnect
  <2> HIDE DEF hello
  <2>2. /\ link' \in [Conn -> {"unused", "up", "down"}]
        /\ stream' \in [Conn -> Seq(Cell)]
        /\ \A d \in Conn : Len(stream'[d]) <= StreamCap
        /\ reader' \in [Conn -> {"none", "auth", "reading", "gone"}]
    BY <2>1, OpenType
  <2> QED
    BY <1>2, <1>t, <2>2 DEF TryConnect
<1>3. ASSUME NEW c \in Conn, DialerEof(c) PROVE GossipInv'
  BY <1>3, <1>t DEF DialerEof, sendVars, readVars
<1>4. CASE FanOut
  <2>1. /\ outbound' \in Seq(Msg) /\ writers' \subseteq writers
        /\ stream' \in [Conn -> Seq(Cell)] /\ written' \in [Conn -> Seq(Int)]
    BY <1>4, FanOutEffect
  <2>2. \A c \in Conn : Len(stream'[c]) <= StreamCap
    <3> TAKE c \in Conn
    <3> DEFINE m == Head(outbound)
    <3>1. m \in Msg \cup {Proof, WrongProof}
      BY <1>4, FanOutEffect
    <3>2. \/ stream'[c] = stream[c]
          \/ /\ stream'[c] = stream[c] \o encode_packet(m)
             /\ Len(stream[c]) + 2 <= StreamCap
      BY <1>4, FanOutEffect
    <3> HIDE DEF m
    <3>3. Len(stream[c] \o encode_packet(m)) = Len(stream[c]) + 2
      BY <1>t, <3>1, AppendPacket
    <3> QED
      BY <1>t, <3>2, <3>3
  <2> QED
    BY <1>4, <1>t, <2>1, <2>2 DEF FanOut, dialVars, readVars
<1>5. ASSUME NEW c \in Conn, RegisterWriter(c) PROVE GossipInv'
  BY <1>5, <1>t DEF RegisterWriter, dialVars, readVars
<1>6. CASE Broadcast
  <2>1. sent' \in 0..MaxMsg /\ outbound' \in Seq(Msg)
    BY <1>6, <1>t, <1>a DEF Broadcast, Msg
  <2> QED
    BY <1>6, <1>t, <2>1 DEF Broadcast, dialVars, readVars
<1>7. ASSUME NEW c \in Conn, ReadBuf(c) PROVE GossipInv'
  <2>1. PICK n \in 1..Len(stream[c]) :
           /\ buf' = [buf EXCEPT ![c] = buf[c] \o SubSeq(stream[c], 1, n)]
           /\ stream' = [stream EXCEPT ![c] =
                            SubSeq(stream[c], n + 1, Len(stream[c]))]
           /\ buf'[c] \in Seq(Cell)
           /\ stream'[c] \in Seq(Cell)
           /\ Len(stream'[c]) = Len(stream[c]) - n
    BY <1>7, ReadBufEffect
  <2>2. /\ buf' \in [Conn -> Seq(Cell)] /\ stream' \in [Conn -> Seq(Cell)]
        /\ \A d \in Conn \ {c} : stream'[d] = stream[d]
    BY <1>t, <2>1
  <2>3. Len(stream[c]) \in Nat /\ Len(stream[c]) <= StreamCap
    BY <1>t
  <2>4. \A d \in Conn : Len(stream'[d]) <= StreamCap
    <3>1. Len(stream'[c]) <= StreamCap
      BY <1>a, <2>1, <2>3
    <3> QED
      BY <1>t, <2>2, <3>1
  <2> QED
    BY <1>7, <1>t, <2>2, <2>4 DEF ReadBuf, dialVars, sendVars
<1>8. ASSUME NEW c \in Conn, Handshake(c) PROVE GossipInv'
  <2>1. buf' \in [Conn -> Seq(Cell)]
    BY <1>8, <1>t, <1>e DEF Handshake
  <2>2. /\ reader' \in [Conn -> {"none", "auth", "reading", "gone"}]
        /\ cut' \subseteq Conn /\ link' \in [Conn -> {"unused", "up", "down"}]
    BY <1>8, <1>t DEF Handshake
  <2>3. /\ stream' \in [Conn -> Seq(Cell)]
        /\ \A d \in Conn : Len(stream'[d]) <= StreamCap
    <3>1. stream' = stream \/ stream' = [stream EXCEPT ![c] = <<>>]
      BY <1>8 DEF Handshake
    <3>2. CASE stream' = stream
      BY <1>t, <3>2
    <3>3. CASE stream' = [stream EXCEPT ![c] = <<>>]
      BY <1>t, <1>a, <1>e, <3>3
    <3> QED
      BY <3>1, <3>2, <3>3
  <2> QED
    BY <1>8, <1>t, <2>1, <2>2, <2>3 DEF Handshake, dialVars, sendVars
<1>9. ASSUME NEW c \in Conn, Forward(c) PROVE GossipInv'
  <2>1. buf' \in [Conn -> Seq(Cell)]
    <3>1. /\ 2 \in Nat /\ 2 <= Len(buf[c])
          /\ buf' = [buf EXCEPT ![c] = SubSeq(buf[c], 2 + 1, Len(buf[c]))]
      BY <1>9, <1>t DEF Forward, Incomplete
    <3> QED
      BY <3>1, DropEffect
  <2>2. delivered' \in [Conn -> Seq(Int)]
    <3>1. buf[c][1] \in Cell
      BY <1>9, <1>t DEF Forward, Incomplete
    <3>2. buf[c][1].of \in Int
      BY <3>1, <1>a DEF Cell, Msg, Proof, WrongProof
    <3> QED
      BY <1>9, <1>t, <3>2 DEF Forward
  <2> QED
    BY <1>9, <1>t, <2>1, <2>2 DEF Forward, dialVars, sendVars
<1>10. ASSUME NEW c \in Conn, Misread(c) PROVE GossipInv'
  <2>1. PICK k \in 0..MaxSkip :
           /\ Len(buf[c]) >= 1 + k
           /\ buf' = [buf EXCEPT ![c] = SubSeq(buf[c], 2 + k, Len(buf[c]))]
    BY <1>10 DEF Misread
  <2>2. buf' \in [Conn -> Seq(Cell)]
    <3>1. 1 + k \in Nat /\ 2 + k = (1 + k) + 1 /\ 1 + k <= Len(buf[c])
      BY <1>a, <1>t, <2>1
    <3> QED
      BY <2>1, <3>1, DropEffect
  <2> QED
    BY <1>10, <1>t, <2>2 DEF Misread, dialVars, sendVars
<1>11. ASSUME NEW c \in Conn, Oversized(c) \/ AcceptorEof(c) PROVE GossipInv'
  <2>1. buf' \in [Conn -> Seq(Cell)]
    BY <1>11, <1>t, <1>e DEF Oversized, AcceptorEof
  <2> QED
    BY <1>11, <1>t, <2>1 DEF Oversized, AcceptorEof, dialVars, sendVars
<1>12. ASSUME NEW c \in Conn, Break(c) PROVE GossipInv'
  <2>1. /\ stream' \in [Conn -> Seq(Cell)]
        /\ \A d \in Conn : Len(stream'[d]) <= StreamCap
    BY <1>12, <1>t, <1>a, <1>e DEF Break
  <2>2. breaks' \in 0..MaxBreaks /\ link' \in [Conn -> {"unused", "up", "down"}]
    BY <1>12, <1>t, <1>a DEF Break
  <2> QED
    BY <1>12, <1>t, <2>1, <2>2 DEF Break, dialVars, sendVars, readVars
<1>13. ASSUME NEW c \in Conn, StrangerConnects(c) PROVE GossipInv'
  <2> DEFINE hello == encode_packet(WrongProof)
  <2>1. Open(c, hello) /\ hello = encode_packet(WrongProof)
    BY <1>13 DEF StrangerConnects
  <2> HIDE DEF hello
  <2>2. /\ link' \in [Conn -> {"unused", "up", "down"}]
        /\ stream' \in [Conn -> Seq(Cell)]
        /\ \A d \in Conn : Len(stream'[d]) <= StreamCap
        /\ reader' \in [Conn -> {"none", "auth", "reading", "gone"}]
    BY <2>1, OpenType
  <2> QED
    BY <1>13, <1>t, <2>2 DEF StrangerConnects, dialVars, sendVars
<1>14. ASSUME NEW c \in Conn, StrangerSends(c) PROVE GossipInv'
  <2> DEFINE s == stream[c] \o encode_packet(1)
  <2>1. s \in Seq(Cell) /\ Len(s) <= StreamCap
    <3>1. 1 \in Msg \cup {Proof, WrongProof}
      BY <1>a DEF Msg
    <3>2. s \in Seq(Cell) /\ Len(s) = Len(stream[c]) + 2
      BY <1>t, <3>1, AppendPacket
    <3> QED
      BY <1>14, <3>2 DEF StrangerSends
  <2>2. stream' = [stream EXCEPT ![c] = s] /\ written' = [written EXCEPT ![c] = <<1>>]
    BY <1>14 DEF StrangerSends
  <2> HIDE DEF s
  <2>3. /\ stream' \in [Conn -> Seq(Cell)]
        /\ \A d \in Conn : Len(stream'[d]) <= StreamCap
    BY <1>t, <2>1, <2>2
  <2>4. written' \in [Conn -> Seq(Int)]
    BY <1>t, <2>2
  <2> QED
    BY <1>14, <1>t, <2>3, <2>4 DEF StrangerSends, dialVars, readVars
<1>15. CASE UNCHANGED vars
  BY <1>15, <1>t DEF vars, dialVars, sendVars, readVars
<1> QED
  BY <1>1, <1>2, <1>3, <1>4, <1>5, <1>6, <1>7, <1>8, <1>9, <1>10, <1>11,
     <1>12, <1>13, <1>14, <1>15
  DEF Next, Dialer, Sender, AcceptorTask, Network

(* The state and the histories are typed in every reachable state.         *)
LEMMA GossipTypes == Spec => []GossipInv
<1>1. Init => GossipInv
  <2> SUFFICES ASSUME Init PROVE GossipInv
    OBVIOUS
  <2>1. /\ stream \in [Conn -> Seq(Cell)] /\ buf \in [Conn -> Seq(Cell)]
        /\ written \in [Conn -> Seq(Int)] /\ delivered \in [Conn -> Seq(Int)]
        /\ \A c \in Conn : Len(stream[c]) <= StreamCap
    BY GossipAssumption DEF Init
  <2>2. /\ outbound \in Seq(Msg) /\ sent \in 0..MaxMsg /\ breaks \in 0..MaxBreaks
    BY GossipAssumption DEF Init
  <2>3. /\ link \in [Conn -> {"unused", "up", "down"}]
        /\ reader \in [Conn -> {"none", "auth", "reading", "gone"}]
        /\ handed \subseteq Conn /\ writers \subseteq Conn
        /\ listening \subseteq Conn /\ cut \subseteq Conn
    BY DEF Init
  <2>4. dial \in BOOLEAN /\ active \in BOOLEAN
    BY Zenon DEF Init
  <2> QED
    BY <2>1, <2>2, <2>3, <2>4 DEF GossipInv, TypeOK, HistoryTypeOK
<1>2. GossipInv /\ [Next]_vars => GossipInv'
  BY GossipTypeStep
<1> QED
  BY <1>1, <1>2, PTL DEF Spec

(* The gossip layer is typed in every reachable state; in particular no    *)
(* connection ever holds more than its buffers do.                         *)
THEOREM GossipTypeCorrect == Spec => []TypeOK
<1>1. GossipInv => TypeOK
  BY DEF GossipInv
<1> QED
  BY <1>1, GossipTypes, PTL

-----------------------------------------------------------------------------
(* One connection *)

(* Nothing of connection c changes.                                        *)
Still(c) ==
    /\ stream'[c] = stream[c] /\ buf'[c] = buf[c] /\ reader'[c] = reader[c]
    /\ link'[c] = link[c] /\ written'[c] = written[c]
    /\ delivered'[c] = delivered[c]

(* The fan-out loop writes a signal to c.                                  *)
WrittenTo(c) ==
    /\ FanOut /\ c \in writers /\ link[c] = "up"
    /\ buf'[c] = buf[c] /\ reader'[c] = reader[c] /\ link'[c] = link[c]
    /\ delivered'[c] = delivered[c]
    /\ stream'[c] = stream[c] \o encode_packet(Head(outbound))
    /\ written'[c] = Append(written[c], Head(outbound))

(* The steps that concern connection c.                                    *)
LEMMA OneConnection ==
    ASSUME GossipInv, [Next]_vars, NEW c \in Conn
    PROVE  \/ Still(c) \/ WrittenTo(c) \/ TryConnect(c) \/ AcceptorTask(c)
           \/ Break(c) \/ StrangerConnects(c) \/ StrangerSends(c)
<1>t. /\ link \in [Conn -> {"unused", "up", "down"}]
      /\ stream \in [Conn -> Seq(Cell)] /\ buf \in [Conn -> Seq(Cell)]
      /\ reader \in [Conn -> {"none", "auth", "reading", "gone"}]
      /\ written \in [Conn -> Seq(Int)] /\ delivered \in [Conn -> Seq(Int)]
  BY DEF GossipInv, TypeOK, HistoryTypeOK
<1>1. CASE FanOut
  <2>1. IF c \in {d \in writers : link[d] = "up"}
        THEN /\ stream'[c] = stream[c] \o encode_packet(Head(outbound))
             /\ written'[c] = Append(written[c], Head(outbound))
        ELSE stream'[c] = stream[c] /\ written'[c] = written[c]
    BY <1>1, FanOutEffect
  <2>2. /\ buf' = buf /\ reader' = reader /\ link' = link
        /\ delivered' = delivered
    BY <1>1 DEF FanOut, readVars
  <2> QED
    BY <1>1, <2>1, <2>2 DEF Still, WrittenTo
<1>2. CASE \/ AddPeer \/ Broadcast
           \/ \E d \in Conn : DialerEof(d) \/ RegisterWriter(d)
           \/ UNCHANGED vars
  BY <1>2 DEF AddPeer, Broadcast, DialerEof, RegisterWriter, vars, dialVars,
              sendVars, readVars, Still
<1>3. ASSUME NEW d \in Conn \ {c}, TryConnect(d) \/ StrangerConnects(d)
      PROVE  Still(c)
  BY <1>3, <1>t DEF TryConnect, StrangerConnects, Open, sendVars, Still
<1>4. ASSUME NEW d \in Conn \ {c}, AcceptorTask(d)
      PROVE  Still(c)
  <2>1. CASE ReadBuf(d)
    BY <1>t, <2>1 DEF ReadBuf, sendVars, Still
  <2>2. CASE Handshake(d)
    BY <1>t, <2>2 DEF Handshake, sendVars, Still
  <2>3. CASE Forward(d)
    BY <1>t, <2>3 DEF Forward, sendVars, Still
  <2>4. CASE Misread(d)
    BY <1>t, <2>4 DEF Misread, sendVars, Still
  <2>5. CASE Oversized(d) \/ AcceptorEof(d)
    BY <1>t, <2>5 DEF Oversized, AcceptorEof, sendVars, Still
  <2> QED
    BY <1>4, <2>1, <2>2, <2>3, <2>4, <2>5 DEF AcceptorTask
<1>5. ASSUME NEW d \in Conn \ {c}, Break(d) \/ StrangerSends(d)
      PROVE  Still(c)
  BY <1>5, <1>t DEF Break, StrangerSends, sendVars, readVars, Still
<1> QED
  BY <1>1, <1>2, <1>3, <1>4, <1>5 DEF Next, Dialer, Sender, Network

-----------------------------------------------------------------------------
(* Strangers *)

(* Nothing has happened on a connection that is not opened.                *)
FreshInv ==
    \A c \in Conn : link[c] = "unused" =>
        /\ stream[c] = <<>> /\ buf[c] = <<>> /\ reader[c] = "none"
        /\ written[c] = <<>> /\ delivered[c] = <<>>

(* The fan-out loop never gets a stranger's connection, and the first      *)
(* thing the acceptor finds on one is the wrong proof, however the bytes   *)
(* behind it arrive.                                                       *)
StrangerInv ==
    /\ (handed \cup writers) \cap Stranger = {}
    /\ \A c \in Stranger :
          /\ reader[c] \in {"none", "auth", "gone"} /\ delivered[c] = <<>>
          /\ reader[c] = "auth" =>
                IF buf[c] # <<>> THEN buf[c][1].of = WrongProof
                ELSE /\ stream[c] # <<>> => stream[c][1].of = WrongProof
                     /\ link[c] = "up" => stream[c] # <<>>

(* Opening connections and writing to them keeps unopened ones empty.      *)
LEMMA FreshStep ==
    ASSUME GossipInv, FreshInv, [Next]_vars
    PROVE  FreshInv'
<1> SUFFICES ASSUME NEW c \in Conn, link'[c] = "unused"
             PROVE  /\ stream'[c] = <<>> /\ buf'[c] = <<>>
                    /\ reader'[c] = "none"
                    /\ written'[c] = <<>> /\ delivered'[c] = <<>>
  BY DEF FreshInv
<1>t. /\ link \in [Conn -> {"unused", "up", "down"}]
      /\ reader \in [Conn -> {"none", "auth", "reading", "gone"}]
  BY DEF GossipInv, TypeOK
<1>1. CASE Still(c)
  BY <1>1 DEF Still, FreshInv
<1>2. CASE TryConnect(c) \/ StrangerConnects(c) \/ Break(c)
  BY <1>2, <1>t DEF TryConnect, StrangerConnects, Break, Open
<1>3. CASE WrittenTo(c) \/ StrangerSends(c)
  BY <1>3 DEF WrittenTo, StrangerSends
<1>4. CASE AcceptorTask(c)
  <2>1. reader[c] \in {"auth", "reading"}
    BY <1>4 DEF AcceptorTask, ReadBuf, Handshake, Forward, Misread, Oversized,
                AcceptorEof
  <2>2. link'[c] = link[c] \/ link'[c] = "down"
    BY <1>4, <1>t DEF AcceptorTask, ReadBuf, Handshake, Forward, Misread,
                      Oversized, AcceptorEof
  <2> QED
    BY <2>1, <2>2 DEF FreshInv
<1> QED
  BY <1>1, <1>2, <1>3, <1>4, OneConnection

(* The acceptor stays with the wrong proof until it refuses it.            *)
LEMMA StrangerStep ==
    ASSUME GossipInv, FreshInv, StrangerInv, [Next]_vars
    PROVE  StrangerInv'
<1>a. Stranger \subseteq Conn /\ (Stranger # {} => Psk)
  BY GossipAssumption
<1>1. (handed' \cup writers') \cap Stranger = {}
  <2>1. CASE \E c \in Conn : TryConnect(c) \/ RegisterWriter(c)
    BY <2>1 DEF StrangerInv, TryConnect, RegisterWriter
  <2>2. CASE FanOut
    <3>1. writers' \subseteq writers /\ handed' = handed
      BY <2>2 DEF FanOut
    <3> QED
      BY <3>1 DEF StrangerInv
  <2>3. CASE handed' = handed /\ writers' = writers
    BY <2>3 DEF StrangerInv
  <2>4. \/ \E c \in Conn : TryConnect(c) \/ RegisterWriter(c)
        \/ FanOut \/ (handed' = handed /\ writers' = writers)
    BY DEF Next, Dialer, Sender, Network, AcceptorTask, AddPeer, DialerEof,
           Broadcast, ReadBuf, Handshake, Forward, Misread, Oversized,
           AcceptorEof, Break, StrangerConnects, StrangerSends, vars, sendVars
  <2> QED
    BY <2>1, <2>2, <2>3, <2>4
<1>2. ASSUME NEW c \in Stranger
      PROVE  /\ reader'[c] \in {"none", "auth", "gone"} /\ delivered'[c] = <<>>
             /\ reader'[c] = "auth" =>
                   IF buf'[c] # <<>> THEN buf'[c][1].of = WrongProof
                   ELSE /\ stream'[c] # <<>> => stream'[c][1].of = WrongProof
                        /\ link'[c] = "up" => stream'[c] # <<>>
  <2>t. /\ c \in Conn /\ Psk
        /\ link \in [Conn -> {"unused", "up", "down"}]
        /\ reader \in [Conn -> {"none", "auth", "reading", "gone"}]
        /\ stream \in [Conn -> Seq(Cell)] /\ buf \in [Conn -> Seq(Cell)]
        /\ delivered \in [Conn -> Seq(Int)]
    BY <1>a DEF GossipInv, TypeOK, HistoryTypeOK
  <2>i. /\ reader[c] \in {"none", "auth", "gone"} /\ delivered[c] = <<>>
        /\ reader[c] = "auth" =>
              IF buf[c] # <<>> THEN buf[c][1].of = WrongProof
              ELSE /\ stream[c] # <<>> => stream[c][1].of = WrongProof
                   /\ link[c] = "up" => stream[c] # <<>>
        /\ c \notin writers
    BY DEF StrangerInv
  <2>1. CASE Still(c)
    BY <2>1, <2>i DEF Still
  <2>2. CASE WrittenTo(c) \/ TryConnect(c)
    BY <2>2, <2>i DEF WrittenTo, TryConnect
  <2>3. CASE StrangerConnects(c)
    <3>1. /\ link[c] = "unused" /\ reader'[c] = "auth"
          /\ stream'[c] = encode_packet(WrongProof)
          /\ buf' = buf /\ delivered' = delivered
      BY <2>3, <2>t DEF StrangerConnects, Open
    <3>2. buf[c] = <<>>
      BY <2>t, <3>1 DEF FreshInv
    <3>3. stream'[c] # <<>> /\ stream'[c][1].of = WrongProof
      BY <3>1 DEF encode_packet
    <3> QED
      BY <2>i, <3>1, <3>2, <3>3
  <2>4. CASE StrangerSends(c)
    <3> DEFINE s == stream[c] \o encode_packet(1)
    <3>1. /\ link[c] = "up" /\ stream'[c] = s /\ buf' = buf
          /\ delivered' = delivered /\ reader' = reader /\ link' = link
      BY <2>4, <2>t DEF StrangerSends, readVars
    <3>2. /\ s # <<>> /\ (stream[c] # <<>> => s[1] = stream[c][1])
      <4>1. 1 \in Msg \cup {Proof, WrongProof}
        BY GossipAssumption DEF Msg
      <4>2. /\ s \in Seq(Cell) /\ Len(s) = Len(stream[c]) + 2
            /\ \A i \in 1..Len(stream[c]) : s[i] = stream[c][i]
        BY <2>t, <4>1, AppendPacket
      <4> HIDE DEF s
      <4>3. Len(stream[c]) \in Nat /\ (stream[c] # <<>> => Len(stream[c]) >= 1)
        BY <2>t
      <4>4. s # <<>>
        BY <4>2, <4>3
      <4> QED
        BY <4>2, <4>3, <4>4
    <3> HIDE DEF s
    <3> QED
      BY <2>i, <3>1, <3>2
  <2>5. CASE Break(c)
    <3>1. /\ link'[c] = "down" /\ stream'[c] = <<>> /\ buf' = buf
          /\ delivered' = delivered /\ reader' = reader
      BY <2>5, <2>t DEF Break, readVars
    <3> QED
      BY <2>i, <3>1
  <2>6. CASE ReadBuf(c)
    <3>1. PICK n \in 1..Len(stream[c]) :
              /\ Len(buf'[c]) = Len(buf[c]) + n
              /\ \A i \in 1..Len(buf[c]) : buf'[c][i] = buf[c][i]
              /\ \A i \in 1..n : buf'[c][Len(buf[c]) + i] = stream[c][i]
      BY <2>6, <2>t, ReadBufEffect
    <3>2. reader' = reader /\ delivered' = delivered
      BY <2>6 DEF ReadBuf
    <3>3. Len(buf[c]) \in Nat /\ n >= 1 /\ Len(stream[c]) \in Nat
      BY <2>t
    <3>4. buf'[c] # <<>>
      <4>1. Len(<<>>) = 0
        OBVIOUS
      <4> QED
        BY <3>1, <3>3, <4>1
    <3>5. CASE buf[c] # <<>>
      <4>1. Len(buf[c]) >= 1
        BY <2>t, <3>5
      <4>2. buf'[c][1] = buf[c][1]
        BY <3>1, <3>3, <4>1
      <4> QED
        BY <2>i, <3>2, <3>4, <3>5, <4>2
    <3>6. CASE buf[c] = <<>>
      <4>1. Len(buf[c]) = 0 /\ stream[c] # <<>>
        BY <2>t, <3>3, <3>6
      <4>2. buf'[c][0 + 1] = stream[c][1]
        BY <3>1, <3>3, <4>1
      <4> QED
        BY <2>i, <3>2, <3>4, <3>6, <4>1, <4>2
    <3> QED
      BY <3>5, <3>6
  <2>7. CASE Handshake(c)
    <3>1. reader[c] = "auth" /\ buf[c] # <<>>
      BY <2>7, <2>t DEF Handshake, Incomplete
    <3>2. ~ProofHolds(c)
      BY <2>i, <3>1 DEF ProofHolds, Proof, WrongProof
    <3>3. reader'[c] = "gone" /\ delivered' = delivered
      BY <2>7, <2>t, <3>2 DEF Handshake
    <3> QED
      BY <2>i, <3>3
  <2>8. CASE Forward(c) \/ Misread(c) \/ Oversized(c)
    BY <2>8, <2>i DEF Forward, Misread, Oversized
  <2>9. CASE AcceptorEof(c)
    <3>1. reader'[c] = "gone" /\ delivered' = delivered
      BY <2>9, <2>t DEF AcceptorEof
    <3> QED
      BY <2>i, <3>1
  <2> QED
    BY <2>t, <2>1, <2>2, <2>3, <2>4, <2>5, <2>6, <2>7, <2>8, <2>9,
       OneConnection DEF AcceptorTask
<1> QED
  BY <1>1, <1>2 DEF StrangerInv

(* On the connections a node accepts, nobody without the pre-shared key    *)
(* gets a signal into its ingest loop, in whatever pieces the proof and    *)
(* the signal arrive.  Connections the node itself dials carry no such     *)
(* promise: their read loop starts without a handshake.                    *)
THEOREM UnprovenCallersAreKeptOut == Spec => []OnlyAuthenticatedCallers
<1>1. Init => FreshInv /\ StrangerInv
  BY GossipAssumption DEF Init, FreshInv, StrangerInv
<1>2. /\ GossipInv /\ FreshInv /\ StrangerInv /\ [Next]_vars
      => FreshInv' /\ StrangerInv'
  BY FreshStep, StrangerStep
<1>3. StrangerInv => OnlyAuthenticatedCallers
  BY DEF StrangerInv, OnlyAuthenticatedCallers
<1> QED
  BY <1>1, <1>2, <1>3, GossipTypes, PTL DEF Spec

-----------------------------------------------------------------------------
(* Order *)

(* Packets that open a connection.                                         *)
Hello == IF Psk THEN 1 ELSE 0

(* The n-th cell on a connection to which the signals w are written.       *)
IsCell(w, n, cell) ==
    \E k \in 1..(Hello + Len(w)) :
        \/ /\ n = 2 * k - 1 /\ cell.part = "length"
           /\ k > Hello => cell.of = w[k - Hello]
        \/ n = 2 * k /\ cell.part = "body"

(* p cells have been consumed, what follows them is in the buffer b and    *)
(* then in the stream s ...                                                *)
Aligned(w, b, s, p) ==
    /\ \A i \in 1..Len(b) : IsCell(w, p + i, b[i])
    /\ \A i \in 1..Len(s) : IsCell(w, p + Len(b) + i, s[i])

(* ... and f tells from which of the packets among them the signals d that *)
(* were forwarded are.                                                     *)
From(w, d, p, f) ==
    /\ \A i \in 1..Len(d) : /\ f[i] \in 1..Len(w) /\ d[i] = w[f[i]]
                            /\ 2 * (Hello + f[i]) <= p
    /\ \A i, j \in 1..Len(d) : i < j => f[i] < f[j]

FifoInv ==
    \A c \in Conn \ Stranger : \E p \in Nat :
        /\ Aligned(written[c], buf[c], stream[c], p)
        /\ \E f \in [1..Len(delivered[c]) -> Nat] :
              From(written[c], delivered[c], p, f)
        /\ reader[c] = "reading" => p >= 2 * Hello
        /\ link[c] = "up" => p + Len(buf[c]) + Len(stream[c])
                                = 2 * (Hello + Len(written[c]))

(* At most one packet opens a connection.                                  *)
LEMMA HelloType == Hello \in 0..1
BY DEF Hello

(* Writing a signal leaves the cells before it where they are.             *)
LEMMA CellStays ==
    ASSUME NEW w \in Seq(Int), NEW m \in Int, NEW n \in Nat,
           NEW cell \in Cell, IsCell(w, n, cell)
    PROVE  IsCell(Append(w, m), n, cell)
<1> DEFINE v == Append(w, m)
<1>1. Len(v) = Len(w) + 1 /\ \A i \in 1..Len(w) : v[i] = w[i]
  OBVIOUS
<1>2. Len(w) \in Nat
  OBVIOUS
<1>3. PICK k \in 1..(Hello + Len(w)) :
         \/ /\ n = 2 * k - 1 /\ cell.part = "length"
            /\ k > Hello => cell.of = w[k - Hello]
         \/ n = 2 * k /\ cell.part = "body"
  BY DEF IsCell
<1> HIDE DEF v
<1>4. k \in 1..(Hello + Len(v)) /\ (k > Hello => k - Hello \in 1..Len(w))
  BY <1>1, <1>2, HelloType
<1> QED
  BY <1>1, <1>3, <1>4 DEF IsCell, v

(* A packet written to a connection that has lost nothing is its next one. *)
LEMMA AlignedWrite ==
    ASSUME NEW w \in Seq(Int), NEW b \in Seq(Cell), NEW s \in Seq(Cell),
           NEW p \in Nat, NEW m \in Msg, Aligned(w, b, s, p),
           p + Len(b) + Len(s) = 2 * (Hello + Len(w))
    PROVE  LET t == s \o encode_packet(m)
               v == Append(w, m)
           IN  /\ Aligned(v, b, t, p)
               /\ p + Len(b) + Len(t) = 2 * (Hello + Len(v))
<1> DEFINE t == s \o encode_packet(m)
           v == Append(w, m)
<1>m. m \in Int
  BY GossipAssumption DEF Msg
<1>1. /\ t \in Seq(Cell) /\ Len(t) = Len(s) + 2
      /\ \A i \in 1..Len(s) : t[i] = s[i]
      /\ t[Len(s) + 1] = [part |-> "length", of |-> m]
      /\ t[Len(s) + 2] = [part |-> "body", of |-> m]
  BY AppendPacket
<1>2. v \in Seq(Int) /\ Len(v) = Len(w) + 1 /\ v[Len(w) + 1] = m
  BY <1>m
<1>3. Len(w) \in Nat /\ Len(b) \in Nat /\ Len(s) \in Nat
  OBVIOUS
<1>4. \A i \in 1..Len(b) : IsCell(v, p + i, b[i])
  BY <1>3, <1>m, CellStays DEF Aligned
<1>5. \A i \in 1..Len(s) : IsCell(v, p + Len(b) + i, s[i])
  BY <1>3, <1>m, CellStays DEF Aligned
<1> HIDE DEF t, v
<1> DEFINE k == Hello + Len(v)
<1>6. /\ k \in 1..(Hello + Len(v)) /\ k - Hello = Len(w) + 1
      /\ p + Len(b) + (Len(s) + 1) = 2 * k - 1
      /\ p + Len(b) + (Len(s) + 2) = 2 * k
  BY <1>2, <1>3, HelloType
<1>7. IsCell(v, p + Len(b) + (Len(s) + 1), t[Len(s) + 1])
  <2>1. t[Len(s) + 1].part = "length" /\ t[Len(s) + 1].of = v[k - Hello]
    BY <1>1, <1>2, <1>6
  <2> QED
    BY <1>6, <2>1 DEF IsCell
<1>8. IsCell(v, p + Len(b) + (Len(s) + 2), t[Len(s) + 2])
  <2>1. t[Len(s) + 2].part = "body"
    BY <1>1
  <2> QED
    BY <1>6, <2>1 DEF IsCell
<1>9. \A i \in 1..Len(t) : IsCell(v, p + Len(b) + i, t[i])
  <2> TAKE i \in 1..Len(t)
  <2>1. i \in 1..Len(s) \/ i = Len(s) + 1 \/ i = Len(s) + 2
    BY <1>1, <1>3
  <2>2. CASE i \in 1..Len(s)
    BY <1>1, <1>5, <2>2
  <2>3. CASE i = Len(s) + 1
    BY <1>7, <2>3
  <2>4. CASE i = Len(s) + 2
    BY <1>8, <2>4
  <2> QED
    BY <2>1, <2>2, <2>3, <2>4
<1>10. p + Len(b) + Len(t) = 2 * (Hello + Len(v))
  <2>1. Len(t) = Len(s) + 2
    BY <1>1
  <2> QED
    BY <1>6, <2>1
<1> QED
  BY <1>4, <1>9, <1>10 DEF Aligned, t, v

(* Moving cells from the stream to the buffer keeps their numbers.         *)
LEMMA AlignedRead ==
    ASSUME NEW w \in Seq(Int), NEW b \in Seq(Cell), NEW s \in Seq(Cell),
           NEW p \in Nat, Aligned(w, b, s, p), NEW n \in 1..Len(s),
           NEW bb \in Seq(Cell), NEW ss \in Seq(Cell),
           Len(bb) = Len(b) + n, \A i \in 1..Len(b) : bb[i] = b[i],
           \A i \in 1..n : bb[Len(b) + i] = s[i],
           Len(ss) = Len(s) - n, \A i \in 1..Len(ss) : ss[i] = s[n + i]
    PROVE  Aligned(w, bb, ss, p)
<1>1. Len(b) \in Nat /\ Len(s) \in Nat /\ n \in Nat /\ n <= Len(s)
  OBVIOUS
<1>2. \A i \in 1..Len(bb) : IsCell(w, p + i, bb[i])
  <2> TAKE i \in 1..Len(bb)
  <2>1. CASE i <= Len(b)
    <3>1. i \in 1..Len(b)
      BY <1>1, <2>1
    <3> QED
      BY <3>1 DEF Aligned
  <2>2. CASE i > Len(b)
    <3> DEFINE j == i - Len(b)
    <3>1. /\ j \in 1..n /\ j \in 1..Len(s) /\ i = Len(b) + j
          /\ p + i = p + Len(b) + j
      BY <1>1, <2>2
    <3> HIDE DEF j
    <3>2. bb[i] = s[j] /\ IsCell(w, p + Len(b) + j, s[j])
      BY <3>1 DEF Aligned
    <3> QED
      BY <3>1, <3>2
  <2> QED
    BY <1>1, <2>1, <2>2
<1>3. \A i \in 1..Len(ss) : IsCell(w, p + Len(bb) + i, ss[i])
  <2> TAKE i \in 1..Len(ss)
  <2> DEFINE j == n + i
  <2>1. j \in 1..Len(s) /\ p + Len(bb) + i = p + Len(b) + j /\ ss[i] = s[j]
    BY <1>1
  <2> HIDE DEF j
  <2>2. IsCell(w, p + Len(b) + j, s[j])
    BY <2>1 DEF Aligned
  <2> QED
    BY <2>1, <2>2
<1> QED
  BY <1>2, <1>3 DEF Aligned

(* Dropping the first n cells of the buffer consumes them.                 *)
LEMMA AlignedDrop ==
    ASSUME NEW w \in Seq(Int), NEW b \in Seq(Cell), NEW s \in Seq(Cell),
           NEW p \in Nat, Aligned(w, b, s, p), NEW n \in 0..Len(b),
           NEW bb \in Seq(Cell), Len(bb) = Len(b) - n,
           \A i \in 1..Len(bb) : bb[i] = b[n + i]
    PROVE  /\ Aligned(w, bb, s, p + n)
           /\ (p + n) + Len(bb) + Len(s) = p + Len(b) + Len(s)
<1>1. Len(b) \in Nat /\ Len(s) \in Nat /\ n \in Nat /\ n <= Len(b)
  OBVIOUS
<1>2. \A i \in 1..Len(bb) : IsCell(w, (p + n) + i, bb[i])
  <2> TAKE i \in 1..Len(bb)
  <2> DEFINE j == n + i
  <2>1. j \in 1..Len(b) /\ (p + n) + i = p + j /\ bb[i] = b[j]
    BY <1>1
  <2> HIDE DEF j
  <2>2. IsCell(w, p + j, b[j])
    BY <2>1 DEF Aligned
  <2> QED
    BY <2>1, <2>2
<1>3. (p + n) + Len(bb) = p + Len(b)
  BY <1>1
<1>4. \A i \in 1..Len(s) : IsCell(w, (p + n) + Len(bb) + i, s[i])
  <2> TAKE i \in 1..Len(s)
  <2>1. (p + n) + Len(bb) + i = p + Len(b) + i
    BY <1>1
  <2>2. IsCell(w, p + Len(b) + i, s[i])
    BY DEF Aligned
  <2> QED
    BY <2>1, <2>2
<1>5. (p + n) + Len(bb) + Len(s) = p + Len(b) + Len(s)
  BY <1>1
<1> QED
  BY <1>2, <1>4, <1>5 DEF Aligned

(* The signals forwarded so far are among what is written and consumed     *)
(* later, too.                                                             *)
LEMMA FromLater ==
    ASSUME NEW w \in Seq(Int), NEW d \in Seq(Int), NEW p \in Nat,
           NEW f \in [1..Len(d) -> Nat], From(w, d, p, f),
           NEW v \in Seq(Int), Len(w) <= Len(v),
           \A i \in 1..Len(w) : v[i] = w[i], NEW q \in Nat, p <= q
    PROVE  From(v, d, q, f)
<1>1. Len(w) \in Nat /\ Len(v) \in Nat /\ Hello \in Nat
  BY HelloType
<1>2. ASSUME NEW i \in 1..Len(d)
      PROVE  /\ f[i] \in 1..Len(v) /\ d[i] = v[f[i]]
             /\ 2 * (Hello + f[i]) <= q
  <2>1. /\ f[i] \in 1..Len(w) /\ d[i] = w[f[i]] /\ 2 * (Hello + f[i]) <= p
    BY DEF From
  <2>2. PICK x \in Nat : x = f[i]
    OBVIOUS
  <2>3. x \in 1..Len(w) /\ 2 * (Hello + x) <= p
    BY <2>1, <2>2
  <2>4. x \in 1..Len(v) /\ 2 * (Hello + x) <= q
    BY <1>1, <2>3
  <2> QED
    BY <2>1, <2>2, <2>3, <2>4
<1> QED
  BY <1>2 DEF From

(* A packet that is forwarded is one that was written, and behind all that *)
(* were forwarded before.                                                  *)
LEMMA FromForward ==
    ASSUME NEW w \in Seq(Int), NEW d \in Seq(Int), NEW p \in Nat,
           NEW f \in [1..Len(d) -> Nat], From(w, d, p, f),
           NEW cell \in Cell, IsCell(w, p + 1, cell), cell.part = "length",
           p >= 2 * Hello
    PROVE  \E g \in [1..Len(Append(d, cell.of)) -> Nat] :
              From(w, Append(d, cell.of), p + 2, g)
<1>h. Hello \in Nat /\ Len(w) \in Nat /\ Len(d) \in Nat
  BY HelloType
<1>1. PICK k \in 1..(Hello + Len(w)) :
         /\ p + 1 = 2 * k - 1 /\ (k > Hello => cell.of = w[k - Hello])
  BY DEF IsCell
<1> DEFINE m == cell.of
           x == k - Hello
           dd == Append(d, m)
<1>2. /\ x \in 1..Len(w) /\ x \in Nat /\ m = w[x]
      /\ 2 * (Hello + x) = p + 2
  <2>1. PICK h \in Nat, n \in Nat : h = Hello /\ n = Len(w)
    BY <1>h
  <2>2. k \in 1..(h + n) /\ p + 1 = 2 * k - 1 /\ p >= 2 * h
    BY <1>1, <2>1
  <2>3. k > h
    BY <2>2
  <2>4. x \in 1..n /\ x \in Nat /\ 2 * (h + x) = p + 2
    BY <2>1, <2>2, <2>3
  <2>5. m = w[x]
    BY <1>1, <2>1, <2>3
  <2> QED
    BY <2>1, <2>4, <2>5
<1>3. m \in Int
  <2>1. w[x] \in Int
    BY <1>2
  <2> QED
    BY <1>2, <2>1
<1> HIDE DEF m, x
<1>4. /\ dd \in Seq(Int) /\ Len(dd) = Len(d) + 1 /\ dd[Len(d) + 1] = m
      /\ \A i \in 1..Len(d) : dd[i] = d[i]
  BY <1>3
<1> HIDE DEF dd
<1> DEFINE g == [i \in 1..Len(dd) |-> IF i = Len(d) + 1 THEN x ELSE f[i]]
<1>5. g \in [1..Len(dd) -> Nat]
  <2>1. \A i \in 1..Len(dd) : i # Len(d) + 1 => i \in 1..Len(d)
    BY <1>4, <1>h
  <2> QED
    BY <1>2, <2>1
<1>6. /\ g[Len(d) + 1] = x /\ \A i \in 1..Len(d) : g[i] = f[i]
      /\ \A i \in 1..Len(dd) : i = Len(d) + 1 \/ i \in 1..Len(d)
  BY <1>4, <1>h
<1> HIDE DEF g
<1>7. \A i \in 1..Len(d) : /\ f[i] \in 1..Len(w) /\ d[i] = w[f[i]]
                           /\ 2 * (Hello + f[i]) <= p /\ f[i] \in Nat
  BY DEF From
<1>8. ASSUME NEW i \in 1..Len(dd)
      PROVE  /\ g[i] \in 1..Len(w) /\ dd[i] = w[g[i]]
             /\ 2 * (Hello + g[i]) <= p + 2
  <2>1. CASE i = Len(d) + 1
    BY <1>2, <1>4, <1>6, <2>1
  <2>2. CASE i \in 1..Len(d)
    <3>1. 2 * (Hello + f[i]) <= p + 2
      BY <1>7, <1>h, <2>2
    <3> QED
      BY <1>4, <1>6, <1>7, <2>2, <3>1
  <2> QED
    BY <1>6, <2>1, <2>2
<1>9. ASSUME NEW i \in 1..Len(dd), NEW j \in 1..Len(dd), i < j
      PROVE  g[i] < g[j]
  <2>1. i \in 1..Len(d)
    BY <1>4, <1>6, <1>9, <1>h
  <2>2. CASE j = Len(d) + 1
    <3>1. PICK y \in Nat : y = f[i] /\ 2 * (Hello + y) <= p
      BY <1>7, <2>1
    <3>a. PICK h \in Nat, z \in Nat : h = Hello /\ z = x
      BY <1>2, <1>h
    <3>b. 2 * (h + z) = p + 2 /\ 2 * (h + y) <= p
      BY <1>2, <3>1, <3>a
    <3>2. y < x
      BY <3>a, <3>b
    <3> QED
      BY <1>6, <2>1, <2>2, <3>1, <3>2
  <2>3. CASE j \in 1..Len(d)
    BY <1>6, <1>9, <2>1, <2>3 DEF From
  <2> QED
    BY <1>6, <2>2, <2>3
<1>10. From(w, dd, p + 2, g)
  BY <1>8, <1>9 DEF From
<1> QED
  BY <1>5, <1>10 DEF dd, m

(* Every step keeps the cells of a connection and the signals that were    *)
(* forwarded from it in order.                                             *)
LEMMA FifoStep ==
    ASSUME GossipInv, FreshInv, FifoInv, [Next]_vars
    PROVE  FifoInv'
<1> SUFFICES ASSUME NEW c \in Conn \ Stranger
             PROVE  \E p \in Nat :
                /\ Aligned(written'[c], buf'[c], stream'[c], p)
                /\ \E f \in [1..Len(delivered'[c]) -> Nat] :
                      From(written'[c], delivered'[c], p, f)
                /\ reader'[c] = "reading" => p >= 2 * Hello
                /\ link'[c] = "up" => p + Len(buf'[c]) + Len(stream'[c])
                                        = 2 * (Hello + Len(written'[c]))
  BY DEF FifoInv, Aligned, From, IsCell
<1>t. /\ link \in [Conn -> {"unused", "up", "down"}]
      /\ reader \in [Conn -> {"none", "auth", "reading", "gone"}]
      /\ stream \in [Conn -> Seq(Cell)] /\ buf \in [Conn -> Seq(Cell)]
      /\ written \in [Conn -> Seq(Int)] /\ delivered \in [Conn -> Seq(Int)]
  BY DEF GossipInv, TypeOK, HistoryTypeOK
<1>w. PICK w \in Seq(Int), d \in Seq(Int), b \in Seq(Cell), s \in Seq(Cell) :
         w = written[c] /\ d = delivered[c] /\ b = buf[c] /\ s = stream[c]
  BY <1>t
<1>p. PICK p \in Nat :
         /\ Aligned(w, b, s, p)
         /\ \E f \in [1..Len(d) -> Nat] : From(w, d, p, f)
         /\ reader[c] = "reading" => p >= 2 * Hello
         /\ link[c] = "up" => p + Len(b) + Len(s) = 2 * (Hello + Len(w))
  BY <1>w DEF FifoInv
<1>f. PICK f \in [1..Len(d) -> Nat] : From(w, d, p, f)
  BY <1>p
<1>n. Len(b) \in Nat /\ Len(s) \in Nat /\ Len(w) \in Nat /\ Hello \in Nat
  BY HelloType
<1>e. /\ <<>> \in Seq(Cell) /\ Len(<<>>) = 0
  OBVIOUS
(* Dropping n cells of the buffer and forwarding nothing.                  *)
<1>d. ASSUME NEW n \in 0..Len(b), NEW bb \in Seq(Cell), Len(bb) = Len(b) - n,
             \A i \in 1..Len(bb) : bb[i] = b[n + i]
      PROVE  /\ p + n \in Nat /\ Aligned(w, bb, s, p + n) /\ From(w, d, p + n, f)
             /\ (p + n) + Len(bb) + Len(s) = p + Len(b) + Len(s)
             /\ p >= 2 * Hello => p + n >= 2 * Hello
  <2>1. p + n \in Nat /\ p <= p + n /\ (p >= 2 * Hello => p + n >= 2 * Hello)
    BY <1>n
  <2>2. /\ Aligned(w, bb, s, p + n)
        /\ (p + n) + Len(bb) + Len(s) = p + Len(b) + Len(s)
    BY <1>d, <1>p, AlignedDrop
  <2>3. From(w, d, p + n, f)
    <3>1. PICK q \in Nat : q = p + n
      BY <2>1
    <3>2. p <= q /\ Len(w) <= Len(w) /\ \A i \in 1..Len(w) : w[i] = w[i]
      BY <1>n, <2>1, <3>1
    <3>3. From(w, d, q, f)
      BY <1>f, <3>2, FromLater
    <3> QED
      BY <3>1, <3>3
  <2> QED
    BY <2>1, <2>2, <2>3
<1>1. CASE Still(c)
  BY <1>1, <1>w, <1>p DEF Still
<1>2. CASE WrittenTo(c)
  <2>1. PICK m \in Msg : m = Head(outbound)
    BY <1>2, FanOutEffect DEF WrittenTo
  <2> DEFINE t == s \o encode_packet(m)
             v == Append(w, m)
  <2>2. /\ stream'[c] = t /\ written'[c] = v /\ buf'[c] = b /\ link[c] = "up"
        /\ delivered'[c] = d /\ reader'[c] = reader[c]
    BY <1>2, <1>w, <2>1 DEF WrittenTo
  <2>3. /\ Aligned(v, b, t, p)
        /\ p + Len(b) + Len(t) = 2 * (Hello + Len(v))
    BY <1>p, <2>2, AlignedWrite
  <2>4. m \in Int
    BY GossipAssumption DEF Msg
  <2>5. v \in Seq(Int) /\ Len(w) <= Len(v) /\ \A i \in 1..Len(w) : v[i] = w[i]
    BY <2>4
  <2> HIDE DEF t, v
  <2>6. From(v, d, p, f)
    <3>1. p <= p
      OBVIOUS
    <3> QED
      BY <1>f, <2>5, <3>1, FromLater
  <2> QED
    BY <1>p, <2>2, <2>3, <2>6
<1>3. CASE TryConnect(c)
  <2> DEFINE hello == IF Psk THEN encode_packet(Proof) ELSE <<>>
  <2>1. /\ link[c] = "unused" /\ stream'[c] = hello
        /\ written' = written /\ buf' = buf /\ delivered' = delivered
        /\ reader'[c] = IF Psk THEN "auth" ELSE "reading"
    BY <1>3, <1>t DEF TryConnect, Open
  <2>2. /\ written'[c] = <<>> /\ buf'[c] = <<>> /\ delivered'[c] = <<>>
    BY <2>1 DEF FreshInv
  <2>3. /\ Aligned(<<>>, <<>>, hello, 0) /\ Len(hello) = 2 * Hello
    <3>1. CASE Psk
      <4> DEFINE e == encode_packet(Proof)
      <4>1. Proof \in Msg \cup {Proof, WrongProof}
        OBVIOUS
      <4>r. /\ Len(e) = 2 /\ e[1] = [part |-> "length", of |-> Proof]
            /\ e[2] = [part |-> "body", of |-> Proof]
        BY <4>1, PacketType
      <4>2. /\ Len(e) = 2 /\ e[1].part = "length" /\ e[2].part = "body"
        BY <4>r
      <4>3. hello = e /\ Hello = 1
        BY <3>1 DEF Hello
      <4> HIDE DEF e, hello
      <4>4. IsCell(<<>>, 1, e[1]) /\ IsCell(<<>>, 2, e[2])
        <5>1. 1 \in 1..(Hello + Len(<<>>)) /\ ~(1 > Hello)
          BY <1>e, <4>3
        <5> QED
          BY <4>2, <5>1 DEF IsCell
      <4>5. \A i \in 1..Len(e) : IsCell(<<>>, 0 + Len(<<>>) + i, e[i])
        <5> TAKE i \in 1..Len(e)
        <5>1. 0 + Len(<<>>) + i = i /\ (i = 1 \/ i = 2)
          BY <1>e, <4>2
        <5> QED
          BY <4>4, <5>1
      <4>6. Aligned(<<>>, <<>>, e, 0)
        BY <1>e, <4>5 DEF Aligned
      <4> QED
        BY <4>2, <4>3, <4>6
    <3>2. CASE ~Psk
      BY <1>e, <3>2 DEF Hello, Aligned
    <3> QED
      BY <3>1, <3>2
  <2>4. reader'[c] = "reading" => 0 >= 2 * Hello
    BY <2>1 DEF Hello
  <2>5. \E g \in [1..0 -> Nat] : From(<<>>, <<>>, 0, g)
    <3> DEFINE g == [i \in 1..0 |-> 0]
    <3>1. g \in [1..0 -> Nat]
      OBVIOUS
    <3>2. From(<<>>, <<>>, 0, g)
      BY <1>e DEF From
    <3> QED
      BY <3>1, <3>2
  <2> HIDE DEF hello
  <2>6. 0 + Len(<<>>) + Len(hello) = 2 * (Hello + Len(<<>>))
    BY <1>e, <1>n, <2>3
  <2> QED
    BY <1>e, <2>1, <2>2, <2>3, <2>4, <2>5, <2>6
<1>4. CASE ReadBuf(c)
  <2>1. PICK n \in 1..Len(stream[c]) :
           /\ buf'[c] \in Seq(Cell) /\ Len(buf'[c]) = Len(buf[c]) + n
           /\ \A i \in 1..Len(buf[c]) : buf'[c][i] = buf[c][i]
           /\ \A i \in 1..n : buf'[c][Len(buf[c]) + i] = stream[c][i]
           /\ stream'[c] \in Seq(Cell)
           /\ Len(stream'[c]) = Len(stream[c]) - n
           /\ \A i \in 1..Len(stream'[c]) : stream'[c][i] = stream[c][n + i]
    BY <1>4, ReadBufEffect
  <2>2. PICK bb \in Seq(Cell), ss \in Seq(Cell) : bb = buf'[c] /\ ss = stream'[c]
    BY <2>1
  <2>3. /\ n \in 1..Len(s) /\ Len(bb) = Len(b) + n
        /\ \A i \in 1..Len(b) : bb[i] = b[i]
        /\ \A i \in 1..n : bb[Len(b) + i] = s[i]
        /\ Len(ss) = Len(s) - n /\ \A i \in 1..Len(ss) : ss[i] = s[n + i]
    BY <1>w, <2>1, <2>2
  <2>4. Aligned(w, bb, ss, p)
    BY <1>p, <2>3, AlignedRead
  <2>5. p + Len(bb) + Len(ss) = p + Len(b) + Len(s)
    BY <1>n, <2>3
  <2>6. /\ reader' = reader /\ delivered' = delivered /\ link' = link
        /\ written' = written
    BY <1>4 DEF ReadBuf, sendVars
  <2> QED
    BY <1>w, <1>p, <2>2, <2>4, <2>5, <2>6
(* The whole buffer is dropped.                                            *)
<1>5. CASE Handshake(c) \/ Oversized(c) \/ AcceptorEof(c)
  <2> DEFINE q == p + Len(b)
  <2>1. /\ q \in Nat /\ Aligned(w, <<>>, s, q) /\ From(w, d, q, f)
        /\ q + Len(<<>>) + Len(s) = p + Len(b) + Len(s)
    <3>1. /\ Len(b) \in 0..Len(b) /\ Len(<<>>) = Len(b) - Len(b)
          /\ \A i \in 1..Len(<<>>) : <<>>[i] = b[Len(b) + i]
      BY <1>n, <1>e
    <3> QED
      BY <1>d, <1>e, <3>1
  <2>2. /\ buf'[c] = <<>> /\ written' = written /\ delivered' = delivered
        /\ \/ stream' = stream /\ link' = link
           \/ stream'[c] = <<>> /\ link'[c] = "down"
    <3>1. CASE Handshake(c)
      BY <3>1, <1>t DEF Handshake, sendVars
    <3>2. CASE Oversized(c) \/ AcceptorEof(c)
      BY <3>2, <1>t DEF Oversized, AcceptorEof, sendVars
    <3> QED
      BY <1>5, <3>1, <3>2
  <2>3. reader'[c] = "reading" => q >= 2 * Hello
    <3>1. CASE Handshake(c)
      <4>1. Len(b) >= 2
        BY <3>1, <1>w, <1>n DEF Handshake, Incomplete
      <4> QED
        BY <4>1, <1>n, HelloType
    <3>2. CASE Oversized(c) \/ AcceptorEof(c)
      BY <3>2, <1>t DEF Oversized, AcceptorEof
    <3> QED
      BY <1>5, <3>1, <3>2
  <2> HIDE DEF q
  <2>4. CASE stream' = stream /\ link' = link
    BY <1>w, <1>p, <2>1, <2>2, <2>3, <2>4
  <2>5. CASE stream'[c] = <<>> /\ link'[c] = "down"
    <3>1. Aligned(w, <<>>, <<>>, q)
      BY <1>e DEF Aligned
    <3> QED
      BY <1>w, <2>1, <2>2, <2>3, <2>5, <3>1
  <2> QED
    BY <2>2, <2>4, <2>5
<1>6. CASE Forward(c)
  <2>1. /\ reader[c] = "reading" /\ Len(b) >= 2 /\ b[1].part = "length"
        /\ delivered'[c] = Append(d, b[1].of)
        /\ buf' = [buf EXCEPT ![c] = SubSeq(buf[c], 2 + 1, Len(buf[c]))]
        /\ reader' = reader /\ link' = link /\ stream' = stream
        /\ written' = written
    BY <1>6, <1>t, <1>w, <1>n DEF Forward, Incomplete, sendVars
  <2>2. /\ buf'[c] \in Seq(Cell) /\ Len(buf'[c]) = Len(buf[c]) - 2
        /\ \A i \in 1..Len(buf'[c]) : buf'[c][i] = buf[c][2 + i]
    <3>1. 2 \in Nat /\ 2 <= Len(buf[c])
      BY <1>w, <2>1
    <3> QED
      BY <2>1, <3>1, DropEffect
  <2>3. PICK bb \in Seq(Cell) : bb = buf'[c]
    BY <2>2
  <2>4. /\ 2 \in 0..Len(b) /\ Len(bb) = Len(b) - 2
        /\ \A i \in 1..Len(bb) : bb[i] = b[2 + i]
    BY <1>w, <1>n, <2>1, <2>2, <2>3
  <2>5. /\ p + 2 \in Nat /\ Aligned(w, bb, s, p + 2)
        /\ (p + 2) + Len(bb) + Len(s) = p + Len(b) + Len(s)
        /\ p >= 2 * Hello => p + 2 >= 2 * Hello
    BY <1>d, <2>4
  <2>6. PICK cell \in Cell : cell = b[1]
    BY <2>1
  <2>7. IsCell(w, p + 1, cell)
    <3>1. 1 \in 1..Len(b)
      BY <1>n, <2>1
    <3> QED
      BY <1>p, <2>6, <3>1 DEF Aligned
  <2>8. \E g \in [1..Len(Append(d, cell.of)) -> Nat] :
           From(w, Append(d, cell.of), p + 2, g)
    BY <1>f, <1>p, <2>1, <2>6, <2>7, FromForward
  <2> QED
    BY <1>w, <1>p, <2>1, <2>3, <2>5, <2>6, <2>8
<1>7. CASE Misread(c)
  <2>1. PICK k \in 0..MaxSkip :
           /\ Len(buf[c]) >= 1 + k
           /\ buf' = [buf EXCEPT ![c] = SubSeq(buf[c], 2 + k, Len(buf[c]))]
    BY <1>7 DEF Misread
  <2>2. PICK n \in Nat : n = 1 + k /\ 2 + k = n + 1 /\ n <= Len(buf[c])
    BY <2>1, <1>w, <1>n, GossipAssumption
  <2>3. /\ buf'[c] \in Seq(Cell) /\ Len(buf'[c]) = Len(buf[c]) - n
        /\ \A i \in 1..Len(buf'[c]) : buf'[c][i] = buf[c][n + i]
    BY <2>1, <2>2, DropEffect
  <2>4. PICK bb \in Seq(Cell) : bb = buf'[c]
    BY <2>3
  <2>5. /\ n \in 0..Len(b) /\ Len(bb) = Len(b) - n
        /\ \A i \in 1..Len(bb) : bb[i] = b[n + i]
    <3>1. n <= Len(b)
      BY <1>w, <2>2
    <3>2. n \in 0..Len(b)
      BY <1>n, <3>1
    <3>3. /\ Len(bb) = Len(b) - n /\ \A i \in 1..Len(bb) : bb[i] = b[n + i]
      BY <1>w, <2>3, <2>4
    <3> QED
      BY <3>2, <3>3
  <2>6. /\ p + n \in Nat /\ Aligned(w, bb, s, p + n) /\ From(w, d, p + n, f)
        /\ (p + n) + Len(bb) + Len(s) = p + Len(b) + Len(s)
        /\ p >= 2 * Hello => p + n >= 2 * Hello
    BY <1>d, <2>5
  <2>7. /\ reader' = reader /\ delivered' = delivered /\ link' = link
        /\ written' = written /\ stream' = stream
    BY <1>7 DEF Misread, sendVars
  <2> QED
    BY <1>w, <1>p, <2>4, <2>6, <2>7
<1>8. CASE Break(c)
  <2>1. /\ link'[c] = "down" /\ stream'[c] = <<>> /\ buf' = buf
        /\ reader' = reader /\ delivered' = delivered /\ written' = written
    BY <1>8, <1>t DEF Break, sendVars, readVars
  <2>2. Aligned(w, b, <<>>, p)
    BY <1>p, <1>e DEF Aligned
  <2> QED
    BY <1>w, <1>p, <2>1, <2>2
<1>9. ~StrangerConnects(c) /\ ~StrangerSends(c)
  BY DEF StrangerConnects, StrangerSends
<1> QED
  BY <1>1, <1>2, <1>3, <1>4, <1>5, <1>6, <1>7, <1>8, <1>9, OneConnection
  DEF AcceptorTask

(* Whatever the reads cut the stream into, and however often the reader    *)
(* falls out of step, a connection forwards a subsequence of the signals   *)
(* that were written to it.                                                *)
THEOREM ForwardedInOrder == Spec => []FifoPerConnection
<1>1. Init => FreshInv /\ StrangerInv /\ FifoInv
  <2> SUFFICES ASSUME Init PROVE FifoInv
    BY GossipAssumption DEF Init, FreshInv, StrangerInv
  <2>1. \A c \in Conn : /\ written[c] = <<>> /\ buf[c] = <<>>
                        /\ stream[c] = <<>> /\ delivered[c] = <<>>
                        /\ link[c] = "unused" /\ reader[c] = "none"
    BY DEF Init
  <2>2. Aligned(<<>>, <<>>, <<>>, 0)
    BY DEF Aligned
  <2>3. \E f \in [1..Len(<<>>) -> Nat] : From(<<>>, <<>>, 0, f)
    <3> DEFINE g == [i \in 1..Len(<<>>) |-> 0]
    <3>1. g \in [1..Len(<<>>) -> Nat]
      OBVIOUS
    <3>2. From(<<>>, <<>>, 0, g)
      BY DEF From
    <3> QED
      BY <3>1, <3>2
  <2> QED
    BY <2>1, <2>2, <2>3 DEF FifoInv
<1>2. /\ GossipInv /\ FreshInv /\ StrangerInv /\ FifoInv /\ [Next]_vars
      => FreshInv' /\ StrangerInv' /\ FifoInv'
  BY FreshStep, StrangerStep, FifoStep
<1>3. GossipInv /\ StrangerInv /\ FifoInv => FifoPerConnection
  <2> SUFFICES ASSUME GossipInv, StrangerInv, FifoInv, NEW c \in Conn
               PROVE  \E f \in [1..Len(delivered[c]) -> 1..Len(written[c])] :
                         /\ \A i \in DOMAIN f :
                               delivered[c][i] = written[c][f[i]]
                         /\ \A i, j \in DOMAIN f : i < j => f[i] < f[j]
    BY DEF FifoPerConnection
  <2>1. CASE c \in Stranger
    <3>1. delivered[c] = <<>>
      BY <2>1 DEF StrangerInv
    <3>2. 1..Len(delivered[c]) = {}
      BY <3>1
    <3> DEFINE g == [i \in 1..Len(delivered[c]) |-> 1]
    <3>3. /\ g \in [1..Len(delivered[c]) -> 1..Len(written[c])]
          /\ DOMAIN g = {}
      BY <3>2
    <3> HIDE DEF g
    <3> QED
      BY <3>3
  <2>2. CASE c \notin Stranger
    <3>1. PICK p \in Nat, f \in [1..Len(delivered[c]) -> Nat] :
             From(written[c], delivered[c], p, f)
      BY <2>2 DEF FifoInv
    <3>2. f \in [1..Len(delivered[c]) -> 1..Len(written[c])]
      BY <3>1 DEF From
    <3> QED
      BY <3>1, <3>2 DEF From
  <2> QED
    BY <2>1, <2>2
<1> QED
  BY <1>1, <1>2, <1>3, GossipTypes, PTL DEF Spec
=============================================================================
