------------------------------- MODULE Stream --------------------------------
(***************************************************************************)
(* The byte streams of one peer connection (core/peer.c, core/mse.c): what *)
(* the client frames, encrypts, queues and writes, and what it reads,      *)
(* decrypts, buffers and parses, over TCP or uTP.                          *)
(*                                                                         *)
(* A byte is its place in the stream together with the position of the     *)
(* RC4 keystream that still covers it (0: plain), so that a byte encrypted *)
(* or decrypted twice, not at all, or out of step is told from a right     *)
(* one.  Lengths are scaled down: header, handshake, public key, VC and    *)
(* crypto select are a few bytes each.                                     *)
(***************************************************************************)
EXTENDS Integers, Sequences, SequencesExt, FiniteSetsExt

CONSTANTS SendCap,    \* PEER_BUF_SIZE
          CryptChunk, \* the scratch buffer of peer_send_raw
          MaxUnits,   \* bound: messages offered to send_msg
          Script,     \* the payload lengths of the messages the peer sends
          MaxPad      \* MSE_MAX_PAD

Header == 2           \* length prefix
Handshake == 2        \* BT_HANDSHAKE_LEN
PubLen == 2           \* MSE_DH_LEN
VcLen == 2            \* MSE_VC_LEN
SelectLen == 2        \* crypto_select and len(padD)
Lengths == 0 .. 2     \* payloads the client sends

\* PEER_RECV_BUFFER_SIZE: the longest message and its length prefix.
RecvCap == Header + Max(ToSet(Script))

ASSUME StreamAssumption == /\ SendCap \in Nat /\ CryptChunk \in Nat \ {0}
                           /\ MaxUnits \in Nat /\ MaxPad \in Nat
                           /\ Script \in Seq(Nat) /\ Script # <<>>

VARIABLES snd,  \* the outgoing stream
          rcv   \* the incoming stream

streamVars == <<snd, rcv>>

----------------------------------------------------------------------------
(* Outgoing.  A unit is a part of the handshake or a message; units[u] is  *)
(* its length and the keystream position of its first byte (0: plain).     *)

Bytes(u, n, k) == [i \in 1 .. n |-> <<u, i, IF k = 0 THEN 0 ELSE k + i - 1>>]

SendInits == [pc : {"connecting"}, mse : BOOLEAN, active : {FALSE}, key : {1},
              sbuf : {<<>>}, wire : {<<>>}, units : {<<>>}, offered : {0},
              broken : {FALSE}]

\* transport_write takes any part of what it is offered; the rest is the second
\* component.  A broken connection takes nothing and says so.
Write(s, data) ==
  {<<[s EXCEPT !.wire = @ \o SubSeq(data, 1, n)], SubSeq(data, n + 1, Len(data))>> :
     n \in 0 .. Len(data)}

\* peer_send_plain: written at once when nothing waits; the rest is queued.
SendPlain(s, data) ==
  IF s.sbuf = <<>> /\ s.broken THEN {[s |-> s, ok |-> FALSE]}
  ELSE {IF Len(w[1].sbuf) + Len(w[2]) > SendCap THEN [s |-> w[1], ok |-> FALSE]
        ELSE [s |-> [w[1] EXCEPT !.sbuf = @ \o w[2]], ok |-> TRUE] :
          w \in IF s.sbuf = <<>> THEN Write(s, data) ELSE {<<s, data>>}}

\* Pieces of a unit, sent one after the other until one is refused.  The
\* keystream moves on before the piece is handed over.
SendPieces(s, pieces) ==
  LET sent[k \in 0 .. Len(pieces)] ==
        IF k = 0 THEN {[s |-> s, ok |-> TRUE]}
        ELSE UNION {IF ~x.ok THEN {x}
                    ELSE SendPlain([x.s EXCEPT !.key = IF s.active THEN @ + Len(pieces[k])
                                                       ELSE @], pieces[k]) :
                      x \in sent[k - 1]}
  IN  sent[Len(pieces)]

\* peer_send_raw encrypts and sends a payload in chunks.
Chunks(data) ==
  [c \in 1 .. (Len(data) + CryptChunk - 1) \div CryptChunk |->
     SubSeq(data, (c - 1) * CryptChunk + 1, Min({c * CryptChunk, Len(data)}))]

\* The two calls of peer_send_raw that make a frame.
FramePieces(s, bytes) ==
  LET payload == SubSeq(bytes, Header + 1, Len(bytes))
  IN  <<SubSeq(bytes, 1, Header)>> \o
      (IF payload = <<>> THEN <<>> ELSE IF s.active THEN Chunks(payload) ELSE <<payload>>)

\* peer_flush.
Flush(s) == IF s.broken THEN {s} ELSE {[w[1] EXCEPT !.sbuf = w[2]] : w \in Write(s, s.sbuf)}

\* Unit number Len(units) + 1 begins.
Begin(s, n, k) == [s EXCEPT !.units = Append(@, <<n, k>>)]

\* peer_connected sends the public key or the handshake; the answer to the
\* peer's public key is the encrypted request; MSE_DONE switches encryption on.
SendSetup ==
  /\ UNCHANGED rcv
  /\ \/ /\ snd.pc = "connecting"
        /\ \E n \in {IF snd.mse THEN PubLen ELSE Handshake} :
             \E x \in SendPlain(Begin(snd, n, 0), Bytes(1, n, 0)) :
               snd' = [x.s EXCEPT !.pc = IF snd.mse THEN "pub" ELSE "open"]
     \/ /\ snd.pc = "pub"
        /\ \E x \in SendPlain(Begin(snd, Handshake, 1), Bytes(2, Handshake, 1)) :
             snd' = [x.s EXCEPT !.pc = "request", !.key = Handshake + 1]
     \/ /\ snd.pc = "request"
        /\ snd' = [snd EXCEPT !.pc = "open", !.active = TRUE]

\* send_msg: room for the whole frame is made sure of before its first byte.
Frame(s, len) ==
  LET k == IF s.active THEN s.key ELSE 0
  IN  {x.s : x \in SendPieces(Begin(s, Header + len, k),
                 FramePieces(s, Bytes(Len(s.units) + 1, Header + len, k)))}

Fits(s, len) == Len(s.sbuf) + Header + len <= SendCap

SendMsg(s, len) ==
  IF Fits(s, len) THEN Frame(s, len)
  ELSE UNION {IF ~s.broken /\ Fits(f, len) THEN Frame(f, len) ELSE {f} : f \in Flush(s)}

\* Whoever sends a message ignores a refusal.
Offer ==
  /\ snd.pc = "open" /\ snd.offered < MaxUnits
  /\ \E len \in Lengths : \E s \in SendMsg(snd, len) :
       snd' = [s EXCEPT !.offered = @ + 1]
  /\ UNCHANGED rcv

\* POLLOUT or UTP_STATE_WRITABLE.
Writable ==
  /\ snd.sbuf # <<>>
  /\ snd' \in Flush(snd)
  /\ UNCHANGED rcv

Break ==
  /\ ~snd.broken
  /\ snd' = [snd EXCEPT !.broken = TRUE]
  /\ UNCHANGED rcv

----------------------------------------------------------------------------
(* Incoming.  The peer's stream: its public key and up to MaxPad bytes of  *)
(* padding, then under the keystream VC, select, more padding, the         *)
(* handshake and the messages.  Without MSE, the last two.                 *)

RecvInits == {r \in [mse : BOOLEAN, utp : BOOLEAN, padB : 0 .. MaxPad, padD : 0 .. MaxPad,
                     state : {"PUB", "HANDSHAKE"}, active : {FALSE}, key : {1}, have : {0},
                     head : {0}, rbuf : {<<>>}, read : {0}, got : {0}, failed : {FALSE}] :
                /\ r.mse <=> r.state = "PUB"
                /\ ~r.mse => r.padB = 0 /\ r.padD = 0}

\* Where the encrypted part and the handshake begin, and the length of messages
\* 1 .. m.
CipherAt(r) == PubLen + r.padB
HandshakeAt(r) == IF r.mse THEN CipherAt(r) + VcLen + SelectLen + r.padD ELSE 0
Upto(m) == m * Header + FoldSeq(+, 0, SubSeq(Script, 1, m))
StreamLen(r) == HandshakeAt(r) + Handshake + Upto(Len(Script))

\* Byte i of the stream as it is on the wire.
Cipher(r, i) == <<i, IF r.mse /\ i > CipherAt(r) THEN i - CipherAt(r) ELSE 0>>

\* rc4_crypt from keystream position k on: right only in step.
Crypt(bytes, k) == [j \in 1 .. Len(bytes) |->
                      IF bytes[j][2] = k + j - 1 THEN <<bytes[j][1], 0>> ELSE <<0, 0>>]

\* Are the first n buffered bytes plain and bytes at + 1 .. at + n of the stream?
Reads(r, n, at) == \A j \in 1 .. n : r.rbuf[j] = <<at + j, 0>>

Consume(r, n) == [r EXCEPT !.head = @ + n, !.rbuf = SubSeq(@, n + 1, Len(@))]

Garbled(r) == [r EXCEPT !.failed = TRUE]

\* mse_client_feed, one state after the other.  ST_READ_PUB.
FeedPub(r) ==
  IF r.state = "PUB" /\ Len(r.rbuf) >= PubLen
  THEN [Consume(r, PubLen) EXCEPT !.state = "VC", !.have = 0] ELSE r

VcAt(r) == {k \in 0 .. Len(r.rbuf) - VcLen :
              \A j \in 1 .. VcLen : r.rbuf[k + j][2] = j}

\* Mutant: all that was searched is skipped, a split VC with it.
FeedVcAll(r) ==
  IF r.state # "VC" THEN r
  ELSE IF VcAt(r) # {}
  THEN [Consume(r, Min(VcAt(r)) + VcLen) EXCEPT !.state = "SELECT", !.key = @ + VcLen, !.have = 0]
  ELSE Consume(r, Len(r.rbuf))

\* ST_SYNC_VC: skip to the VC; what may be its beginning stays.
FeedVc(r) ==
  IF r.state # "VC" THEN r
  ELSE IF VcAt(r) # {}
  THEN [Consume(r, Min(VcAt(r)) + VcLen) EXCEPT !.state = "SELECT", !.key = @ + VcLen, !.have = 0]
  ELSE LET skip == Max({0, Len(r.rbuf) - (VcLen - 1)})
       IN  [Consume(r, skip) EXCEPT !.have = @ + skip, !.failed = r.have + skip > MaxPad + PubLen]

\* ST_READ_SELECT: decrypted byte by byte as they come.
FeedSelect(r) ==
  IF r.state # "SELECT" THEN r
  ELSE LET n == Min({SelectLen - r.have, Len(r.rbuf)})
           s == [Consume(r, n) EXCEPT !.key = @ + n, !.have = @ + n,
                   !.failed = Crypt(SubSeq(r.rbuf, 1, n), r.key) # [j \in 1 .. n |->
                                <<CipherAt(r) + VcLen + r.have + j, 0>>]]
       IN  IF s.have < SelectLen THEN s ELSE [s EXCEPT !.state = "PADD", !.have = r.padD]

\* ST_READ_PADD, and MSE_DONE in peer_process: what is left in the buffer is
\* decrypted, later bytes as they arrive.
FeedPad(r) ==
  IF r.state # "PADD" THEN r
  ELSE LET n == Min({r.have, Len(r.rbuf)})
           s == [Consume(r, n) EXCEPT !.key = @ + n, !.have = @ - n]
       IN  IF s.have > 0 THEN s
           ELSE [s EXCEPT !.state = "HANDSHAKE", !.active = TRUE,
                          !.rbuf = Crypt(@, s.key), !.key = @ + Len(s.rbuf)]

\* process_handshake.
ProcessHandshake(r) ==
  IF r.state # "HANDSHAKE" \/ Len(r.rbuf) < Handshake THEN r
  ELSE IF ~Reads(r, Handshake, HandshakeAt(r)) THEN Garbled(r)
  ELSE [Consume(r, Handshake) EXCEPT !.state = "ACTIVE"]

\* process_message until no whole message is left.
ProcessMessages(r) ==
  IF r.state # "ACTIVE" THEN r
  ELSE LET last == Max({m \in r.got .. Len(Script) : Upto(m) - Upto(r.got) <= Len(r.rbuf)})
           n    == Upto(last) - Upto(r.got)
       IN  IF ~Reads(r, n, HandshakeAt(r) + Handshake + Upto(r.got)) THEN Garbled(r)
           ELSE [Consume(r, n) EXCEPT !.got = last]

\* A drained buffer starts at its front again.
Rewind(r) == IF r.rbuf = <<>> THEN [r EXCEPT !.head = 0] ELSE r

\* peer_process.
Process(r) ==
  Rewind(ProcessMessages(ProcessHandshake(FeedPad(FeedSelect(FeedVc(FeedPub(r)))))))

\* n bytes arrive; they are decrypted once MSE is done.
Arrived(r, n) ==
  LET new == [j \in 1 .. n |-> Cipher(r, r.read + j)]
  IN  [r EXCEPT !.read = @ + n,
                !.rbuf = @ \o IF r.active THEN Crypt(new, r.key) ELSE new,
                !.key = IF r.active THEN @ + n ELSE @]

RbufTail(r) == RecvCap - r.head - Len(r.rbuf)

\* peer_recv: into the tail; a full tail is compacted first, and a buffer that
\* is still full ends the connection.
RecvTcp ==
  /\ ~rcv.utp
  /\ \E c \in {IF RbufTail(rcv) = 0 THEN [rcv EXCEPT !.head = 0] ELSE rcv} :
       IF RbufTail(c) = 0 THEN rcv' = Garbled(c)
       ELSE \E n \in 1 .. Min({RbufTail(c), StreamLen(c) - c.read}) :
              rcv' = Process(Arrived(c, n))

\* utp_cb_on_read: libutp delivers no more than peer_rbuf_space reported;
\* peer_rbuf_append compacts when the tail is too short.
RecvUtp ==
  /\ rcv.utp
  /\ \E n \in 1 .. Min({RecvCap - Len(rcv.rbuf), StreamLen(rcv) - rcv.read}) :
       \E c \in {IF RbufTail(rcv) < n THEN [rcv EXCEPT !.head = 0] ELSE rcv} :
         rcv' = Process(Arrived(c, n))

Recv ==
  /\ rcv.read < StreamLen(rcv) /\ ~rcv.failed
  /\ RecvTcp \/ RecvUtp
  /\ UNCHANGED snd

----------------------------------------------------------------------------
StreamInit == snd \in SendInits /\ rcv \in RecvInits

StreamNext == SendSetup \/ Offer \/ Writable \/ Break \/ Recv

----------------------------------------------------------------------------
(* Properties.                                                             *)

Expected == FlattenSeq([u \in DOMAIN snd.units |->
                          Bytes(u, snd.units[u][1], snd.units[u][2])])

\* Both directions keep every byte, whatever the transport takes or delivers at
\* a time.  Sent: the wire and the queue hold whole frames in order, each byte
\* encrypted once and in step, although callers ignore refusals ("a partially
\* queued frame must never reach the wire", core/peer.c:82).  Received: a
\* well-formed stream is never garbled, is decrypted once, never overflows the
\* buffer, and every message that has arrived completely has been handled.
StreamIntact ==
  /\ IsPrefix(snd.wire, Expected)
  /\ ~snd.broken => snd.wire \o snd.sbuf = Expected
  /\ ~rcv.failed
  /\ rcv.read = StreamLen(rcv) => rcv.got = Len(Script)
=============================================================================
