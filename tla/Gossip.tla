------------------------------- MODULE Gossip -------------------------------
(***************************************************************************)
(* TCP gossip (src/src/network/tcp_gossip.rs) between a node that dials    *)
(* and a peer that accepts: the optional pre-shared-key handshake, framing *)
(* by length prefixes, fan-out to the registered writers, disconnects and  *)
(* the redial task.                                                        *)
(*                                                                         *)
(* The bytes of a packet are two cells, its length prefix and its body.  A *)
(* TCP stream delivers cells in order, any number at a time, and loses     *)
(* what is under way when the connection breaks.  A reader that takes a    *)
(* body for a length prefix is out of step: the number it reads is too     *)
(* large, and it gives up, or makes it swallow some cells.  It is assumed  *)
(* that such a packet does not deserialize.                                *)
(*                                                                         *)
(* Payload flows from the dialer to the acceptor.  The other direction is  *)
(* the same read loop, started by try_connect with no handshake: what the  *)
(* dialled peer sends goes to the ingest loop whether or not it knows the  *)
(* key.  That direction is left out, but for the end of its stream; so is  *)
(* the bound of the channel that hands over the write halves.  A socket    *)
(* closes when both of its halves are dropped: a read loop that gives up   *)
(* leaves the half in the peer's list of writers open.                     *)
(***************************************************************************)
EXTENDS Integers, FiniteSets, SequencesExt

CONSTANTS Conn,      \* connections that can be opened
          Stranger,  \* the ones opened by somebody without the key
          MaxMsg,    \* bound: signals broadcast, numbered in their order
          Psk,       \* whether FLUIDIC_PSK is set
          StreamCap, \* cells that fit into the buffers of a connection
          MaxSkip,   \* bound: cells a wrong length makes a reader swallow
          MaxBreaks  \* bound: connections that break

(* Without a key nobody is a stranger.  The buffers of a new connection    *)
(* have room for the first packet.                                         *)
ASSUME GossipAssumption ==
    /\ Stranger \subseteq Conn /\ Psk \in BOOLEAN /\ (Stranger # {} => Psk)
    /\ MaxMsg \in Nat \ {0} /\ StreamCap \in Nat \ {0, 1}
    /\ MaxSkip \in Nat /\ MaxBreaks \in Nat

VARIABLES
    dial,       \* dial_peers contains the acceptor
    active,     \* active_peers contains it
    link,       \* state of each TCP connection
    handed,     \* write halves sent to the fan-out loop, not yet received
    writers,    \* write halves in the fan-out loop's list
    listening,  \* connections on which the dialer's read loop runs
    outbound,   \* the outbound channel
    sent,       \* signals broadcast so far
    stream,     \* per connection, cells written and not read
    buf,        \* per connection, the acceptor's BytesMut
    reader,     \* per connection, what the acceptor's task is doing
    breaks,
    written,    \* history: signals written to each connection
    delivered,  \* history: signals the acceptor forwarded, per connection
    cut         \* history: connections whose handshake dropped cells

dialVars == <<dial, active, listening>>
sendVars == <<handed, writers, outbound, sent, written>>
readVars == <<buf, reader, delivered, cut>>
vars == <<dialVars, sendVars, readVars, link, stream, breaks>>

Msg == 1..MaxMsg
(* Auth signals, with the expected proof and with another.                 *)
Proof == 0
WrongProof == -1
Cell == [part : {"length", "body"}, of : Msg \cup {Proof, WrongProof}]
encode_packet(m) == << [part |-> "length", of |-> m], [part |-> "body", of |-> m] >>

TypeOK ==
    /\ dial \in BOOLEAN /\ active \in BOOLEAN
    /\ link \in [Conn -> {"unused", "up", "down"}]
    /\ handed \subseteq Conn /\ writers \subseteq Conn
    /\ listening \subseteq Conn /\ cut \subseteq Conn
    /\ outbound \in Seq(Msg) /\ sent \in 0..MaxMsg
    /\ stream \in [Conn -> Seq(Cell)] /\ buf \in [Conn -> Seq(Cell)]
    /\ \A c \in Conn : Len(stream[c]) <= StreamCap
    /\ reader \in [Conn -> {"none", "auth", "reading", "gone"}]
    /\ breaks \in 0..MaxBreaks

Init ==
    /\ dial = FALSE /\ active = FALSE
    /\ link = [c \in Conn |-> "unused"] /\ reader = [c \in Conn |-> "none"]
    /\ handed = {} /\ writers = {} /\ listening = {} /\ outbound = <<>> /\ sent = 0
    /\ stream = [c \in Conn |-> <<>>] /\ buf = [c \in Conn |-> <<>>]
    /\ breaks = 0 /\ cut = {}
    /\ written = [c \in Conn |-> <<>>] /\ delivered = [c \in Conn |-> <<>>]

-----------------------------------------------------------------------------
(* The dialer *)

(* add_peer, received by the dial task.                                    *)
AddPeer ==
    /\ ~dial /\ dial' = TRUE
    /\ UNCHANGED <<active, listening, sendVars, readVars, link, stream, breaks>>

(* What both ends do when connection c opens and the caller first sends    *)
(* hello: the acceptor starts a handshake if it has a key, else its read   *)
(* loop.                                                                   *)
Open(c, hello) ==
    /\ link[c] = "unused"
    /\ link' = [link EXCEPT ![c] = "up"]
    /\ stream' = [stream EXCEPT ![c] = hello]
    /\ reader' = [reader EXCEPT ![c] = IF Psk THEN "auth" ELSE "reading"]

(* try_connect, called for a new peer and, by the ticker, for every peer   *)
(* that is not active.  One task makes all the calls, one after another.   *)
(* The proof is sent before the fan-out loop gets the writer.              *)
TryConnect(c) ==
    /\ dial /\ ~active /\ c \notin Stranger
    /\ Open(c, IF Psk THEN encode_packet(Proof) ELSE <<>>)
    /\ handed' = handed \cup {c}
    /\ active' = TRUE /\ listening' = listening \cup {c}
    /\ UNCHANGED <<dial, writers, outbound, sent, written, buf, delivered, cut,
                   breaks>>

(* Mutant: the peer stays among the active ones.                           *)
EofKeepsActive(c) ==
    /\ c \in listening /\ link[c] = "down"
    /\ listening' = listening \ {c}
    /\ UNCHANGED <<dial, active, sendVars, readVars, link, stream, breaks>>

(* The dialer's read loop sees the end of the stream; the peer is to be    *)
(* dialled again.                                                          *)
DialerEof(c) ==
    /\ c \in listening /\ link[c] = "down"
    /\ listening' = listening \ {c} /\ active' = FALSE
    /\ UNCHANGED <<dial, sendVars, readVars, link, stream, breaks>>

(* broadcast: the signal enters the outbound channel.                      *)
Broadcast ==
    /\ sent < MaxMsg /\ sent' = sent + 1
    /\ outbound' = Append(outbound, sent + 1)
    /\ UNCHANGED <<dialVars, handed, writers, written, readVars, link, stream,
                   breaks>>

(* The fan-out loop receives a write half.                                 *)
RegisterWriter(c) ==
    /\ c \in handed
    /\ handed' = handed \ {c} /\ writers' = writers \cup {c}
    /\ UNCHANGED <<dialVars, outbound, sent, written, readVars, link, stream, breaks>>

(* Mutant: a writer whose connection broke is never dropped and blocks.    *)
FanOutStuck ==
    LET m == Head(outbound) IN
    /\ outbound # <<>>
    /\ \A c \in writers : link[c] = "up" /\ Len(stream[c]) + 2 <= StreamCap
    /\ stream' = [c \in Conn |-> IF c \in writers THEN stream[c] \o encode_packet(m)
                                 ELSE stream[c]]
    /\ written' = [c \in Conn |-> IF c \in writers THEN Append(written[c], m)
                                  ELSE written[c]]
    /\ outbound' = Tail(outbound)
    /\ UNCHANGED <<dialVars, handed, sent, writers, readVars, link, breaks>>

(* Mutant: the loop does not wait for room.                                *)
FanOutUnbounded ==
    LET m == Head(outbound) IN
    /\ outbound # <<>>
    /\ stream' = [c \in Conn |-> IF c \in writers THEN stream[c] \o encode_packet(m)
                                 ELSE stream[c]]
    /\ written' = [c \in Conn |-> IF c \in writers THEN Append(written[c], m)
                                  ELSE written[c]]
    /\ outbound' = Tail(outbound)
    /\ UNCHANGED <<dialVars, handed, sent, writers, readVars, link, breaks>>

(* The fan-out loop takes a signal and writes it to every writer in turn;  *)
(* while one connection has no room, it waits.  A write to a broken        *)
(* connection may still seem to succeed; if not, the writer is dropped.    *)
FanOut ==
    LET m == Head(outbound)
        live == {c \in writers : link[c] = "up"}
    IN  /\ outbound # <<>>
        /\ \A c \in live : Len(stream[c]) + 2 <= StreamCap
        /\ stream' = [c \in Conn |-> IF c \in live THEN stream[c] \o encode_packet(m)
                                     ELSE stream[c]]
        /\ written' = [c \in Conn |-> IF c \in live THEN Append(written[c], m)
                                      ELSE written[c]]
        /\ \E failed \in SUBSET (writers \ live) : writers' = writers \ failed
        /\ outbound' = Tail(outbound)
        /\ UNCHANGED <<dialVars, handed, sent, readVars, link, breaks>>

-----------------------------------------------------------------------------
(* The acceptor *)

(* What the acceptor's task waits for is not in its buffer.                *)
Incomplete(c) == Len(buf[c]) < 2

(* Mutant: what was left in the buffer is overwritten.                     *)
ReadBufReplaces(c) ==
    /\ reader[c] \in {"auth", "reading"} /\ Incomplete(c)
    /\ \E n \in 1..Len(stream[c]) :
          /\ buf' = [buf EXCEPT ![c] = SubSeq(stream[c], 1, n)]
          /\ stream' = [stream EXCEPT ![c] = SubSeq(@, n + 1, Len(@))]
    /\ UNCHANGED <<dialVars, sendVars, reader, delivered, cut, link, breaks>>

(* read_buf: the next cells, as many as there are or fewer.                *)
ReadBuf(c) ==
    /\ reader[c] \in {"auth", "reading"} /\ Incomplete(c)
    /\ \E n \in 1..Len(stream[c]) :
          /\ buf' = [buf EXCEPT ![c] = @ \o SubSeq(stream[c], 1, n)]
          /\ stream' = [stream EXCEPT ![c] = SubSeq(@, n + 1, Len(@))]
    /\ UNCHANGED <<dialVars, sendVars, reader, delivered, cut, link, breaks>>

(* Mutant: any Auth signal is good enough.                                 *)
AcceptsAnyProof(c) == buf[c][1].of \in {Proof, WrongProof}

(* The first packet is an Auth signal with the expected proof.             *)
ProofHolds(c) == buf[c][1].of = Proof

(* handshake_inbound once read_one_signal has the first packet.  The rest  *)
(* of its buffer is dropped with it; the read loop starts with an empty    *)
(* one.  Without the proof both halves are dropped and the socket closes.  *)
Handshake(c) ==
    /\ reader[c] = "auth" /\ ~Incomplete(c)
    /\ buf' = [buf EXCEPT ![c] = <<>>]
    /\ IF ProofHolds(c)
       THEN /\ reader' = [reader EXCEPT ![c] = "reading"]
            /\ cut' = IF Len(buf[c]) > 2 THEN cut \cup {c} ELSE cut
            /\ UNCHANGED <<link, stream>>
       ELSE /\ reader' = [reader EXCEPT ![c] = "gone"]
            /\ link' = [link EXCEPT ![c] = "down"]
            /\ stream' = [stream EXCEPT ![c] = <<>>]
            /\ UNCHANGED cut
    /\ UNCHANGED <<dialVars, sendVars, delivered, breaks>>

(* Mutant: the packet stays in the buffer.                                 *)
ForwardKeeps(c) ==
    /\ reader[c] = "reading" /\ ~Incomplete(c)
    /\ buf[c][1].part = "length" /\ Len(delivered[c]) < 3
    /\ delivered' = [delivered EXCEPT ![c] = Append(@, buf[c][1].of)]
    /\ UNCHANGED <<dialVars, sendVars, buf, reader, cut, link, stream, breaks>>

(* read_loop in step: a whole packet is forwarded.                         *)
Forward(c) ==
    /\ reader[c] = "reading" /\ ~Incomplete(c)
    /\ buf[c][1].part = "length"
    /\ delivered' = [delivered EXCEPT ![c] = Append(@, buf[c][1].of)]
    /\ buf' = [buf EXCEPT ![c] = SubSeq(@, 3, Len(@))]
    /\ UNCHANGED <<dialVars, sendVars, reader, cut, link, stream, breaks>>

(* read_loop out of step: the wrong length is skipped, if that many cells  *)
(* are there, and what it covers does not deserialize.                     *)
Misread(c) ==
    /\ reader[c] = "reading" /\ buf[c] # <<>> /\ buf[c][1].part = "body"
    /\ \E k \in 0..MaxSkip :
          /\ Len(buf[c]) >= 1 + k
          /\ buf' = [buf EXCEPT ![c] = SubSeq(@, 2 + k, Len(@))]
    /\ UNCHANGED <<dialVars, sendVars, reader, delivered, cut, link, stream,
                   breaks>>

(* ... or is over MAX_PACKET_SIZE and the read loop ends.  The write half  *)
(* lives on in the acceptor's list, so the connection stays open.          *)
Oversized(c) ==
    /\ reader[c] = "reading" /\ buf[c] # <<>> /\ buf[c][1].part = "body"
    /\ reader' = [reader EXCEPT ![c] = "gone"] /\ buf' = [buf EXCEPT ![c] = <<>>]
    /\ UNCHANGED <<dialVars, sendVars, delivered, cut, link, stream, breaks>>

(* The acceptor's task sees the end of the stream.                         *)
AcceptorEof(c) ==
    /\ reader[c] \in {"auth", "reading"} /\ link[c] = "down" /\ Incomplete(c)
    /\ reader' = [reader EXCEPT ![c] = "gone"] /\ buf' = [buf EXCEPT ![c] = <<>>]
    /\ UNCHANGED <<dialVars, sendVars, delivered, cut, link, stream, breaks>>

-----------------------------------------------------------------------------
(* The network *)

(* A connection breaks, and what is under way is lost.                     *)
Break(c) ==
    /\ link[c] = "up" /\ breaks < MaxBreaks
    /\ breaks' = breaks + 1
    /\ link' = [link EXCEPT ![c] = "down"]
    /\ stream' = [stream EXCEPT ![c] = <<>>]
    /\ UNCHANGED <<dialVars, sendVars, readVars>>

(* Somebody without the key connects with another proof ...                *)
StrangerConnects(c) ==
    /\ c \in Stranger
    /\ Open(c, encode_packet(WrongProof))
    /\ UNCHANGED <<dialVars, sendVars, buf, delivered, cut, breaks>>

(* ... and goes on to send a signal.                                       *)
StrangerSends(c) ==
    /\ c \in Stranger /\ link[c] = "up" /\ written[c] = <<>>
    /\ Len(stream[c]) + 2 <= StreamCap
    /\ stream' = [stream EXCEPT ![c] = @ \o encode_packet(1)]
    /\ written' = [written EXCEPT ![c] = <<1>>]
    /\ UNCHANGED <<dialVars, handed, writers, outbound, sent, readVars, link,
                   breaks>>

-----------------------------------------------------------------------------
(* Specification *)

Dialer == AddPeer \/ \E c \in Conn : TryConnect(c) \/ DialerEof(c)
Sender == FanOut \/ (\E c \in Conn : RegisterWriter(c)) \/ Broadcast
AcceptorTask(c) ==
    ReadBuf(c) \/ Handshake(c) \/ Forward(c) \/ Misread(c) \/ Oversized(c)
        \/ AcceptorEof(c)
Network ==
    \E c \in Conn : Break(c) \/ StrangerConnects(c) \/ StrangerSends(c)

Next == Dialer \/ Sender \/ (\E c \in Conn : AcceptorTask(c)) \/ Network

Spec == Init /\ [][Next]_vars

(* Every task is scheduled, the redial ticker goes off for ever, and a     *)
(* peer that listens is reached.  Nobody is bound to add a peer or to      *)
(* broadcast.                                                              *)
FairSpec ==
    /\ Spec
    /\ WF_vars(\E c \in Conn : TryConnect(c))
    /\ WF_vars(FanOut)
    /\ \A c \in Conn : /\ WF_vars(DialerEof(c)) /\ WF_vars(RegisterWriter(c))
                       /\ WF_vars(AcceptorTask(c))

-----------------------------------------------------------------------------
(* Properties *)

(* Of the connections that a node with a pre-shared key accepts, only the  *)
(* ones whose caller has shown the key bring signals into the ingest loop, *)
(* also when a signal is sent along with the proof.                        *)
OnlyAuthenticatedCallers ==
    Psk => \A c \in Stranger : delivered[c] = <<>>

(* On each connection the signals that are forwarded are among those       *)
(* written, in their order, none twice, however the stream is cut into     *)
(* reads, and also when the reader falls out of step and back.             *)
FifoPerConnection ==
    \A c \in Conn :
        \E f \in [1..Len(delivered[c]) -> 1..Len(written[c])] :
            /\ \A i \in DOMAIN f : delivered[c][i] = written[c][f[i]]
            /\ \A i, j \in DOMAIN f : i < j => f[i] < f[j]

(* A peer that was added is dialled until it is connected, and again after *)
(* each disconnect, as long as there are connections left to open.         *)
Redialled ==
    dial ~> \/ \E c \in listening : link[c] = "up"
            \/ \A c \in Conn \ Stranger : link[c] # "unused"

(* A signal written to a connection reaches the ingest loop, unless the    *)
(* connection breaks or the handshake dropped what had arrived behind the  *)
(* proof.                                                                  *)
WrittenIsDelivered ==
    \A c \in Conn \ Stranger, m \in Msg :
        m \in ToSet(written[c]) ~>
            m \in ToSet(delivered[c]) \/ link[c] = "down" \/ c \in cut

(* A signal in the outbound channel is written to the connected peers,     *)
(* unless one of them has stopped to read: then it stays.                  *)
QueuedIsWritten ==
    \A m \in Msg :
        m \in ToSet(outbound) ~>
            m \notin ToSet(outbound)
                \/ \E c \in Conn : reader[c] = "gone" /\ link[c] = "up"
=============================================================================
