-------------------------------- MODULE Utp ----------------------------------
(***************************************************************************)
(* A uTP connection (core/libutp/utp_internal.cpp) between this program,   *)
(* which only connects, and a peer that accepts, both running this code,   *)
(* over a network that loses, repeats and reorders packets.                *)
(*                                                                         *)
(* Payload is counted in units, the n-th unit written being the number n.  *)
(* The congestion window and the window the other end advertises are one   *)
(* number, `win', chosen freely where the code computes them from delays.  *)
(* Clocks only decide when a timer has run out, so a timer that is set may *)
(* run out at any check.  Path MTU discovery is left out: the packet size  *)
(* is fixed.                                                               *)
(***************************************************************************)
EXTENDS Integers, Sequences, SequencesExt, FiniteSets, FiniteSetsExt, TLC

CONSTANTS SeqRange,      \* SEQ_NR_MASK + 1
          ReorderMax,    \* REORDER_BUFFER_MAX_SIZE
          OutMax,        \* OUTGOING_BUFFER_MAX_SIZE
          AckWindow,     \* ACK_NR_ALLOWED_WINDOW
          DupAcks,       \* DUPLICATE_ACKS_BEFORE_RESEND
          EackBits,      \* packets an EACK tells of
          MaxResends,    \* consecutive timeouts before the connection is given up
          MaxSynResends, \* the same for a SYN
          PacketSize,    \* units in a packet
          Windows,       \* the windows the congestion control may arrive at
          FirstSeqs,     \* what utp_call_get_random may return to each end
          Writes,        \* units each end has to write
          MaxNet,        \* bound on the packets under way
          MaxFaults      \* bound on packets lost or repeated, and timers run out

ASSUME UtpAssumption == /\ {SeqRange, ReorderMax, OutMax, PacketSize} \subseteq Nat \ {0}
                        /\ ReorderMax + OutMax + AckWindow < SeqRange \div 2

VARIABLES utp,   \* the two sockets
          net,   \* the packets under way
          faults \* how often a packet was lost or repeated, or a timer ran out

utpVars == <<utp, net, faults>>

Hosts == {"here", "there"}
Other(s) == CHOOSE o \in Hosts : o # s

----------------------------------------------------------------------------
(* Sequence numbers.                                                       *)

Mod(n) == n % SeqRange

\* wrapping_compare_less
Less(a, b) == Mod(b - a) < Mod(a - b)

----------------------------------------------------------------------------
(* Sockets.  outbuf and inbuf hold what is in the circular buffers, by sequence *)
(* number.  `tx' collects what the current call sends; `lives' counts the       *)
(* sockets this end has had for the connection.                                 *)

\* utp_create_socket and utp_initialize_socket.  fast_resend_seq_nr is the number a
\* new socket has before its first one is drawn; only the accepting end corrects it.
Socket(state, seq, ack) ==
  [state |-> state, seq_nr |-> seq, ack_nr |-> ack, cur_window_packets |-> 0, cur_window |-> 0,
   win |-> PacketSize, outbuf |-> <<>>, inbuf |-> <<>>, reorder_count |-> 0,
   got_fin |-> FALSE, eof_pkt |-> 0, got_fin_reached |-> FALSE, fin_sent |-> FALSE,
   fin_sent_acked |-> FALSE, read_shutdown |-> FALSE, close_requested |-> FALSE,
   fast_timeout |-> FALSE, fast_resend_seq_nr |-> 1, duplicate_ack |-> 0,
   retransmit_count |-> 0, ida |-> FALSE, rto |-> FALSE,
   wrote |-> 0, got |-> <<>>, lives |-> 1, tx |-> {}]

NoSocket == [Socket("none", 1, 0) EXCEPT !.lives = 0]

Oldest(c) == Mod(c.seq_nr - c.cur_window_packets)

Full(c, bytes) == \/ c.cur_window_packets >= OutMax - 1
                  \/ c.cur_window + bytes > c.win

\* send_data: whatever is sent carries the ack, so none is due any more.
SendData(c, m) == [c EXCEPT !.tx = @ \cup {m}, !.ida = FALSE]

\* send_ack; with packets out of order it tells which ones beyond ack_nr + 1 came.
SendAck(c) ==
  LET eack == c.reorder_count # 0 /\ ~c.got_fin_reached
  IN  SendData(c, [type |-> "STATE", seq |-> c.seq_nr, ack |-> c.ack_nr, pay |-> <<>>,
                   eack |-> eack,
                   sel |-> IF eack THEN {i \in 0 .. EackBits - 1 :
                                           Mod(c.ack_nr + i + 2) \in DOMAIN c.inbuf}
                           ELSE {}])

SendKeepAlive(c) == [SendAck([c EXCEPT !.ack_nr = Mod(@ - 1)]) EXCEPT !.ack_nr = c.ack_nr]

\* send_packet
SendPacket(c, seq) ==
  LET p == c.outbuf[seq]
  IN  SendData([c EXCEPT !.cur_window = IF ~p.sent \/ p.need_resend THEN @ + Len(p.pay) ELSE @,
                         !.outbuf[seq].sent = TRUE, !.outbuf[seq].need_resend = FALSE],
               [type |-> p.type, seq |-> seq, ack |-> c.ack_nr, pay |-> p.pay,
                eack |-> FALSE, sel |-> {}])

\* flush_packets: what was never sent or is to be sent again, while there is room; a
\* last packet that is not full waits for the others (Nagle).
FlushPackets(c) ==
  LET step(r, i) ==
        LET seq == Mod(Oldest(c) + i)
        IN  IF \/ r.full \/ seq \notin DOMAIN r.c.outbuf
               \/ r.c.outbuf[seq].sent /\ ~r.c.outbuf[seq].need_resend THEN r
            ELSE IF Full(r.c, PacketSize) THEN [r EXCEPT !.full = TRUE]
            ELSE IF \/ seq # Mod(c.seq_nr - 1) \/ c.cur_window_packets = 1
                    \/ Len(r.c.outbuf[seq].pay) >= PacketSize
                 THEN [r EXCEPT !.c = SendPacket(r.c, seq)] ELSE r
  IN  FoldLeft(step, [c |-> c, full |-> FALSE],
               [i \in 1 .. c.cur_window_packets |-> i - 1]).c

\* write_outgoing_packet: into the last packet if it was not sent and has room, the
\* rest into a new one.
NewPacket(c, type, pay) ==
  [c EXCEPT !.outbuf = (c.seq_nr :> [type |-> type, pay |-> pay, sent |-> FALSE,
                                     need_resend |-> FALSE]) @@ @,
            !.seq_nr = Mod(@ + 1), !.cur_window_packets = @ + 1]

WriteOutgoingPacket(c, type, pay) ==
  LET last  == Mod(c.seq_nr - 1)
      joins == /\ pay # <<>> /\ c.cur_window_packets > 0 /\ last \in DOMAIN c.outbuf
               /\ ~c.outbuf[last].sent /\ Len(c.outbuf[last].pay) < PacketSize
      added == IF joins THEN Min({Len(pay), PacketSize - Len(c.outbuf[last].pay)}) ELSE 0
      b     == IF joins THEN [c EXCEPT !.outbuf[last].pay = @ \o SubSeq(pay, 1, added)] ELSE c
      rest  == SubSeq(pay, added + 1, Len(pay))
  IN  FlushPackets([(IF joins /\ rest = <<>> THEN b ELSE NewPacket(b, type, rest))
                      EXCEPT !.rto = TRUE])

\* utp_writev: packet by packet while the window has room for the whole packet.
Writev(c, units) ==
  LET n == Len(units)
      step(r, i) ==
        LET pay == SubSeq(units, (i - 1) * PacketSize + 1, Min({i * PacketSize, n}))
        IN  IF r.full THEN r
            ELSE IF Full(r.c, Len(pay))
            THEN [c |-> [r.c EXCEPT !.state = IF Full(r.c, PacketSize) THEN "CONNECTED_FULL" ELSE @],
                  full |-> TRUE]
            ELSE [r EXCEPT !.c = WriteOutgoingPacket([r.c EXCEPT !.wrote = @ + Len(pay)], "DATA", pay)]
  IN  FoldLeft(step, [c |-> c, full |-> FALSE],
               [i \in 1 .. (n + PacketSize - 1) \div PacketSize |-> i]).c

----------------------------------------------------------------------------
(* Acknowledgements.                                                       *)

Unsent(c, seq) == seq \in DOMAIN c.outbuf /\ ~c.outbuf[seq].sent

\* Mutant: a packet that timed out is taken from the window a second time.
AckPacketTwice(c, seq) ==
  IF seq \notin DOMAIN c.outbuf \/ Unsent(c, seq) THEN c
  ELSE [c EXCEPT !.outbuf = [q \in DOMAIN @ \ {seq} |-> @[q]],
                 !.cur_window = @ - Len(c.outbuf[seq].pay),
                 !.rto = TRUE, !.retransmit_count = 0]

\* ack_packet.  A packet that timed out no longer counts in the window.
AckPacket(c, seq) ==
  IF seq \notin DOMAIN c.outbuf \/ Unsent(c, seq) THEN c
  ELSE [c EXCEPT !.outbuf = [q \in DOMAIN @ \ {seq} |-> @[q]],
                 !.cur_window = IF c.outbuf[seq].need_resend THEN @ ELSE @ - Len(c.outbuf[seq].pay),
                 !.rto = TRUE, !.retransmit_count = 0]

\* The oldest packets up to the ack, as far as they were sent; then the ones behind
\* them that a selective ack has already removed.
AckOldest(c, acks) ==
  LET step(r, i) == IF r.stop \/ Unsent(r.c, Oldest(r.c)) THEN [r EXCEPT !.stop = TRUE]
                    ELSE [r EXCEPT !.c = [AckPacket(r.c, Oldest(r.c)) EXCEPT !.cur_window_packets = @ - 1]]
      a    == FoldLeft(step, [c |-> c, stop |-> FALSE], [i \in 1 .. acks |-> i]).c
      gone == {k \in 0 .. a.cur_window_packets :
                 \A i \in 0 .. k - 1 : Mod(Oldest(a) + i) \notin DOMAIN a.outbuf}
  IN  [a EXCEPT !.cur_window_packets = @ - Max(gone)]

\* Nagle's packet goes out once it is alone; after a timeout every ack sends the
\* oldest packet again, once each.
AfterAck(c) ==
  LET last == Mod(c.seq_nr - 1)
      a    == IF c.cur_window_packets = 1 /\ Unsent(c, last) THEN SendPacket(c, last) ELSE c
      old  == Oldest(a)
  IN  CASE ~a.fast_timeout -> a
        [] a.fast_timeout /\ old # a.fast_resend_seq_nr -> [a EXCEPT !.fast_timeout = FALSE]
        [] OTHER -> IF old \in DOMAIN a.outbuf /\ a.outbuf[old].sent
                    THEN SendPacket([a EXCEPT !.fast_resend_seq_nr = Mod(@ + 1)], old) ELSE a

\* selective_ack: from the highest packet down, those in the mask are acknowledged,
\* those with enough acknowledged ones above them are to be sent again, four at most,
\* the lowest first.
Resendable(c, v, count) == Mod(v - c.fast_resend_seq_nr) <= OutMax /\ count >= DupAcks

SelectiveAck(c, base, sel) ==
  LET look(r, bit) ==
        LET v   == Mod(base + bit)
            set == bit \in sel
            n   == IF set THEN r.count + 1 ELSE r.count
        IN  IF Mod(r.c.seq_nr - v - 1) >= r.c.cur_window_packets - 1 THEN r
            ELSE IF v \notin DOMAIN r.c.outbuf \/ Unsent(r.c, v) THEN [r EXCEPT !.count = n]
            ELSE IF set THEN [r EXCEPT !.count = n, !.c = AckPacket(r.c, v)]
            ELSE IF Resendable(r.c, v, n) THEN [r EXCEPT !.count = n, !.resends = <<v>> \o @]
            ELSE [r EXCEPT !.count = n]
      seen   == FoldLeft(look, [c |-> c, count |-> 0, resends |-> <<>>],
                         [i \in 1 .. EackBits + 1 |-> EackBits - i])
      first  == Mod(base - 1)
      all    == (IF Resendable(seen.c, first, seen.count) THEN <<first>> ELSE <<>>) \o seen.resends
      there  == SelectSeq(all, LAMBDA v : v \in DOMAIN seen.c.outbuf)
      resend(d, v) == [SendPacket(d, v) EXCEPT !.fast_resend_seq_nr = Mod(v + 1)]
      sent   == FoldLeft(resend, seen.c, SubSeq(there, 1, Min({4, Len(there)})))
  IN  IF c.cur_window_packets = 0 THEN c ELSE [sent EXCEPT !.duplicate_ack = seen.count]

\* The connection's state after an acknowledgement.
Connects(c, m, acks) ==
  LET a == IF m.type = "DATA" /\ c.state = "SYN_RECV" THEN [c EXCEPT !.state = "CONNECTED"] ELSE c
  IN  IF m.type = "STATE" /\ a.state = "SYN_SENT" THEN [a EXCEPT !.state = "CONNECTED"]
      ELSE IF a.fin_sent /\ a.cur_window_packets = acks
      THEN [a EXCEPT !.fin_sent_acked = TRUE,
                     !.state = IF a.close_requested THEN "DESTROY" ELSE @]
      ELSE a

\* How many packets an ack confirms; an old or impossible one confirms none.
AckCount(c, m) == LET below == Mod(m.ack - (c.seq_nr - 1 - c.cur_window_packets))
                  IN  IF below > c.cur_window_packets THEN 0 ELSE below

\* What utp_process_incoming notes of an ack before it looks at the packets: repeated
\* acks, the new window w, the state, and what a fast resend need not resend.
NoteAck(c, m, acks, w) ==
  LET none == Mod(m.ack - (c.seq_nr - 1 - c.cur_window_packets)) = 0
      dup  == IF c.cur_window_packets = 0 THEN c.duplicate_ack
              ELSE IF none /\ m.type = "STATE" THEN Min({c.duplicate_ack + 1, DupAcks}) ELSE 0
      next == IF Less(c.fast_resend_seq_nr, Mod(m.ack + 1)) THEN Mod(m.ack + 1)
              ELSE c.fast_resend_seq_nr
  IN  Connects([c EXCEPT !.duplicate_ack = dup, !.win = w, !.fast_resend_seq_nr = next], m, acks)

\* A connection that was full may have room again.
Room(c) == IF c.state = "CONNECTED_FULL" /\ ~Full(c, PacketSize)
           THEN [c EXCEPT !.state = "CONNECTED"] ELSE c

----------------------------------------------------------------------------
(* Payload.                                                                *)

\* utp_call_on_read, unless the reader has gone.
Deliver(c, pay) == IF c.read_shutdown THEN c ELSE [c EXCEPT !.got = @ \o pay]

\* The FIN is reached when everything before it has been: it is acknowledged at once.
ReachFin(c) ==
  IF c.got_fin /\ ~c.got_fin_reached /\ c.eof_pkt = c.ack_nr
  THEN [SendAck([c EXCEPT !.got_fin_reached = TRUE, !.rto = TRUE]) EXCEPT !.reorder_count = 0]
  ELSE c

\* An in-order packet, and the ones that waited for it.
InOrder(c, pay) ==
  LET step(r, i) ==
        LET a == ReachFin(r.c)
            n == Mod(a.ack_nr + 1)
        IN  IF r.stop THEN r
            ELSE IF a.reorder_count = 0 \/ n \notin DOMAIN a.inbuf THEN [c |-> a, stop |-> TRUE]
            ELSE [r EXCEPT !.c = [Deliver(a, a.inbuf[n]) EXCEPT
                                    !.inbuf = [q \in DOMAIN @ \ {n} |-> @[q]],
                                    !.ack_nr = n, !.reorder_count = @ - 1]]
  IN  [FoldLeft(step, [c |-> [Deliver(c, pay) EXCEPT !.ack_nr = Mod(@ + 1)], stop |-> FALSE],
                [i \in 1 .. ReorderMax + 1 |-> i]).c EXCEPT !.ida = TRUE]

\* A packet that came early is kept, unless it is there already or lies past the FIN
\* (compared without regard to wrapping).
OutOfOrder(c, m) ==
  IF c.got_fin /\ m.seq > c.eof_pkt THEN c
  ELSE IF m.seq \in DOMAIN c.inbuf THEN c
  ELSE [c EXCEPT !.inbuf = (m.seq :> m.pay) @@ @, !.reorder_count = @ + 1, !.ida = TRUE]

ValidAck(c, m) ==
  /\ ~Less(Mod(c.seq_nr - 1), m.ack)
  /\ ~Less(m.ack, Mod(c.seq_nr - 1 - (c.cur_window_packets + AckWindow)))

\* In SYN_SENT the other end's numbering is taken over.
TakeOver(c, m) == IF c.state = "SYN_SENT" THEN [c EXCEPT !.ack_nr = Mod(m.seq - 1)] ELSE c

\* A packet outside the reorder window is dropped; an old one is acknowledged again.
Outside(c, m, seqnr) ==
  IF seqnr >= SeqRange - ReorderMax /\ m.type # "STATE" THEN [c EXCEPT !.ida = TRUE] ELSE c

\* The payload half of utp_process_incoming.
Payload(c, m, seqnr) ==
  IF m.type = "STATE" \/ c.state \notin {"CONNECTED", "CONNECTED_FULL"} THEN c
  ELSE LET d == IF m.type = "FIN" /\ ~c.got_fin THEN [c EXCEPT !.got_fin = TRUE, !.eof_pkt = m.seq]
                ELSE c
       IN  IF seqnr = 0 THEN InOrder(d, m.pay) ELSE OutOfOrder(d, m)

----------------------------------------------------------------------------
(* The calls.                                                              *)

UtpInit == utp = [s \in Hosts |-> NoSocket] /\ net = {} /\ faults = 0

\* What a call sends joins the packets under way.
Does(s, c, left) ==
  /\ utp' = [utp EXCEPT ![s] = [c EXCEPT !.tx = {}]]
  /\ net' = left \cup {[to |-> Other(s), pkt |-> m] : m \in c.tx}
  /\ Cardinality(net') <= MaxNet

Fault(happens) == /\ faults' = IF happens THEN faults + 1 ELSE faults
                  /\ faults' <= MaxFaults

Alive(s) == utp[s].state \notin {"none", "gone"}
Open(s)  == utp[s].state \in {"CONNECTED", "CONNECTED_FULL"}

\* utp_process_incoming, step by step: the ack, the packets it confirms, what may be
\* sent on that account, the selective ack, and the payload.
ProcessIncoming(s, c, m, left) ==
  IF ~ValidAck(c, m) THEN Does(s, c, left)
  ELSE \E a \in {TakeOver(c, m)}, w \in Windows :
       \E seqnr \in {Mod(m.seq - a.ack_nr - 1)}, acks \in {AckCount(a, m)} :
         IF seqnr >= ReorderMax THEN Does(s, Outside(a, m, seqnr), left)
         ELSE \E b \in {AckOldest(NoteAck(a, m, acks, w), acks)} :
              \E d \in {AfterAck(b)} :
              \E e \in {IF m.eack THEN SelectiveAck(d, Mod(m.ack + 2), m.sel) ELSE d} :
              \E r \in {Payload(Room(e), m, seqnr)} : Does(s, r, left)

\* utp_connect: the SYN is the first packet of the window.
UtpConnect ==
  /\ utp["here"].state = "none" /\ UNCHANGED faults
  /\ \E seq \in FirstSeqs["here"] :
       LET c == NewPacket(Socket("SYN_SENT", seq, 0), "SYN", <<>>)
       IN  Does("here", SendPacket([c EXCEPT !.rto = TRUE], seq), net)

UtpWrite ==
  \E s \in Hosts :
    /\ UNCHANGED faults
    /\ utp[s].state = "CONNECTED" /\ ~utp[s].fin_sent /\ utp[s].wrote < Writes[s]
    /\ \E n \in 1 .. Writes[s] - utp[s].wrote :
         \E c \in {Writev(utp[s], [i \in 1 .. n |-> utp[s].wrote + i])} : Does(s, c, net)

\* The socket a SYN makes.
Accepted(c, seq, ack) == [Socket("SYN_RECV", seq, ack) EXCEPT !.fast_resend_seq_nr = seq,
                                                              !.lives = c.lives + 1]

\* utp_process_udp.  A SYN makes a socket where there is none, so also after the one it
\* made earlier was deleted; a reset ends the one it meets; what else meets none is
\* answered with a reset.
Receive ==
  \E d \in net : \E left \in {net, net \ {d}} :
    /\ Fault(left = net)
    /\ LET s == d.to
           m == d.pkt
           c == utp[s]
       IN  CASE m.type = "SYN" ->
                  IF s = "there" /\ ~Alive(s)
                  THEN \E seq \in FirstSeqs[s] : Does(s, SendAck(Accepted(c, seq, m.seq)), left)
                  ELSE Does(s, c, left)
             [] m.type = "RESET" ->
                  Does(s, IF ~Alive(s) THEN c
                          ELSE [c EXCEPT !.state = IF c.close_requested THEN "DESTROY"
                                                   ELSE "RESET"], left)
             [] OTHER ->
                  IF Alive(s)
                  THEN ProcessIncoming(s, c, m, left)
                  ELSE Does(s, SendData(c, [type |-> "RESET", seq |-> 0, ack |-> m.seq,
                                            pay |-> <<>>, eack |-> FALSE, sel |-> {}]), left)

\* The network loses a packet.
Lose == Fault(TRUE) /\ (\E d \in net : net' = net \ {d}) /\ UNCHANGED utp

\* utp_issue_deferred_acks, after the socket was drained.
DeferredAck ==
  /\ UNCHANGED faults
  /\ \E s \in Hosts : Alive(s) /\ utp[s].ida /\ Does(s, SendAck(utp[s]), net)

\* check_timeouts when the retransmission timer has run out.
RtoExpires(c) ==
  LET lost == {q \in DOMAIN c.outbuf : c.outbuf[q].sent /\ ~c.outbuf[q].need_resend}
      a    == [c EXCEPT !.duplicate_ack = 0,
                        !.cur_window = @ - FoldSet(LAMBDA q, n : n + Len(c.outbuf[q].pay), 0, lost),
                        !.win = IF c.cur_window_packets = 0 THEN Max({@, PacketSize})
                                ELSE PacketSize,
                        !.outbuf = [q \in DOMAIN @ |-> IF q \in lost
                                      THEN [@[q] EXCEPT !.need_resend = TRUE] ELSE @[q]]]
  IN  IF c.state = "SYN_RECV" THEN [c EXCEPT !.state = "DESTROY"]
      ELSE IF \/ c.retransmit_count >= MaxResends
              \/ c.state = "SYN_SENT" /\ c.retransmit_count >= MaxSynResends
      THEN [c EXCEPT !.state = IF c.close_requested THEN "DESTROY" ELSE "RESET"]
      ELSE IF c.cur_window_packets = 0 THEN a
      ELSE SendPacket([a EXCEPT !.retransmit_count = @ + 1, !.fast_timeout = TRUE], Oldest(a))

\* A socket that is done is deleted.
Deleted(c) == IF c.state # "DESTROY" THEN c
              ELSE [NoSocket EXCEPT !.state = "gone", !.wrote = c.wrote, !.got = c.got,
                              !.lives = c.lives, !.tx = c.tx]

\* utp_check_timeouts: what can be sent is, then the timers.
CheckTimeouts ==
  \E s \in Hosts, rto, idle \in BOOLEAN :
    /\ Alive(s)
    /\ Fault(rto \/ idle)
    /\ rto => utp[s].rto /\ utp[s].state \notin {"RESET", "DESTROY"}
    /\ idle => Open(s) /\ ~utp[s].fin_sent
    /\ \E f \in {IF utp[s].state = "DESTROY" THEN utp[s] ELSE FlushPackets(utp[s])} :
       \E r \in {Room(IF rto THEN RtoExpires(f) ELSE f)} :
       \E k \in {IF idle /\ r.state \in {"CONNECTED", "CONNECTED_FULL"} THEN SendKeepAlive(r) ELSE r} :
         Does(s, Deleted(k), net)

\* utp_close: a connected socket sends its FIN and lives on until it is acknowledged.
UtpClose ==
  \E s \in Hosts :
    /\ UNCHANGED faults
    /\ Alive(s) /\ utp[s].state # "DESTROY" /\ ~utp[s].close_requested
    /\ LET c == [utp[s] EXCEPT !.read_shutdown = TRUE, !.close_requested = TRUE]
       IN  Does(s, IF ~Open(s) THEN [utp[s] EXCEPT !.state = "DESTROY"]
                   ELSE WriteOutgoingPacket([c EXCEPT !.fin_sent = TRUE], "FIN", <<>>), net)

UtpNext == \/ UtpConnect \/ UtpWrite \/ Receive \/ Lose \/ DeferredAck
           \/ CheckTimeouts \/ UtpClose

----------------------------------------------------------------------------
(* Properties.                                                             *)

InFlight(c) == FoldSet(LAMBDA q, n : n + Len(c.outbuf[q].pay), 0,
                    {q \in DOMAIN c.outbuf : c.outbuf[q].sent /\ ~c.outbuf[q].need_resend})

\* Whatever is lost, repeated, delayed or sent again, each end reads a prefix of what
\* the other wrote, each unit once and in order, and all of it when it reaches the FIN.
\* A socket accepted for a repeated SYN after the first was deleted reads from the
\* start or nothing; what it writes is compared with no reader of the first one.
\* The bookkeeping this rests on is what check_invariant and the asserts of
\* utp_internal.cpp state: the window counts exactly the units in flight, its oldest
\* packet is still held, and nothing waits in the reorder buffer that could be
\* delivered.
UtpInOrder ==
  \A s \in Hosts :
    LET c == utp[s]
        o == utp[Other(s)]
    IN  /\ o.lives <= 1 => /\ c.got = [i \in 1 .. Len(c.got) |-> i] /\ Len(c.got) <= o.wrote
                           /\ c.got_fin_reached /\ ~c.read_shutdown => Len(c.got) = o.wrote
        /\ c.cur_window = InFlight(c)
        /\ c.cur_window_packets > 0 => Oldest(c) \in DOMAIN c.outbuf
        /\ c.reorder_count > 0 => Mod(c.ack_nr + 1) \notin DOMAIN c.inbuf
=============================================================================
