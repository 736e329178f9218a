-------------------------------- MODULE Swarm --------------------------------
(***************************************************************************)
(* Peer slots, the blocklist and the dial ladder of core/torrent.c over    *)
(* the candidate queue of PeerQueue.  Everything runs on the torrent       *)
(* thread; what varies is the order of discoveries, socket events, libutp  *)
(* callbacks and timeouts.  Times are abstracted to the order of the       *)
(* deadlines: a dial may time out at any moment, and the blocklist entries *)
(* expire oldest first.                                                    *)
(***************************************************************************)
EXTENDS PeerQueue

CONSTANTS MaxPeers,   \* MAX_ACTIVE_PEERS
          InFlight,   \* CONNECT_IN_FLIGHT
          BlockMax,   \* PEER_BLOCKLIST_SIZE
          MaxSupplies \* bound on calls of torrent_add_initial_peers

ASSUME SwarmAssumption == /\ MaxPeers \in Nat \ {0}
                          /\ InFlight \in Nat \ {0}
                          /\ BlockMax \in Nat \ {0}
                          /\ MaxSupplies \in Nat

VARIABLES queue,      \* the candidate queue
          peers,      \* slot -> peer or NoPeer
          num_peers,
          blocklist,  \* blocked endpoints, oldest first
          utp,        \* did utp_setup succeed?
          supplies    \* calls of torrent_add_initial_peers so far

swarmVars == <<queue, peers, num_peers, blocklist, utp, supplies>>

PeerSlots == 1 .. MaxPeers
NoPeer    == [ep |-> "none"]
Dialing   == {"CONNECTING", "MSE", "HANDSHAKE"}
Peer      == [ep : Endpoints, state : Dialing \cup {"ACTIVE", "DEAD"},
              mse : BOOLEAN, use_utp : {0, 1}]

Used(s) == peers[s] # NoPeer

Connected == {peers[s].ep : s \in {x \in PeerSlots : Used(x)}}
Blocked   == ToSet(blocklist)

\* blocklist_add: the ring overwrites its oldest entry.
BlocklistAdd(bl, e) ==
  IF Len(bl) < BlockMax THEN Append(bl, e) ELSE Append(Tail(bl), e)

SwarmInit == /\ queue = EmptyQueue
             /\ peers = [s \in PeerSlots |-> NoPeer]
             /\ num_peers = 0
             /\ blocklist = <<>>
             /\ utp \in BOOLEAN
             /\ supplies = 0

----------------------------------------------------------------------------
(* Candidates arrive.                                                      *)

\* One endpoint of an announce, of a peer exchange (cb_peers) or of the DHT
\* mailbox is pushed.
Discover ==
  /\ \E e \in Endpoints : queue' = Push(queue, e, Connected \cup Blocked)
  /\ UNCHANGED <<peers, num_peers, blocklist, utp, supplies>>

\* The application supplies verified peers.
InitialPeers ==
  /\ supplies < MaxSupplies
  /\ supplies' = supplies + 1
  /\ \E list \in [1 .. 2 -> Endpoints] :
       queue' = AddInitialPeers(queue, list, Connected \cup Blocked)
  /\ UNCHANGED <<peers, num_peers, blocklist, utp>>

----------------------------------------------------------------------------
(* Dialing.                                                                *)

CountConnecting == Cardinality({s \in PeerSlots :
                                  Used(s) /\ peers[s].state \in Dialing})

\* requeue_utp fails without a libutp context.
RequeueUtp(q, e, refused) ==
  IF utp THEN Insert(q, [ep |-> e, no_mse |-> 0, use_utp |-> 1], TRUE, refused)
  ELSE q

\* try_connect with a local failure (no socket, no memory, no libutp): only a
\* TCP dial without a socket is tried again, over uTP.
TryConnectFails ==
  /\ num_peers < MaxPeers /\ queue.qsize > 0 /\ CountConnecting < InFlight
  /\ UNCHANGED <<peers, num_peers, utp, supplies>>
  /\ \E entry \in {HeadEntry(queue)}, rest \in {Pop(queue)}, retry \in BOOLEAN :
       /\ retry => entry.use_utp = 0
       /\ \E q \in {IF retry THEN RequeueUtp(rest, entry.ep, Connected \cup Blocked)
                    ELSE rest} :
            /\ queue' = q
            /\ blocklist' = IF q # rest THEN blocklist
                            ELSE BlocklistAdd(blocklist, entry.ep)

\* try_connect puts a peer into the first free slot.
TryConnect ==
  /\ num_peers < MaxPeers /\ queue.qsize > 0 /\ CountConnecting < InFlight
  /\ num_peers' = num_peers + 1
  /\ UNCHANGED <<blocklist, utp, supplies>>
  /\ \E entry \in {HeadEntry(queue)}, rest \in {Pop(queue)},
        s \in {Min({y \in PeerSlots : ~Used(y)})} :
         /\ entry.use_utp = 1 => utp
         /\ queue' = rest
         /\ peers' = [peers EXCEPT ![s] =
                        [ep |-> entry.ep, state |-> "CONNECTING",
                         mse |-> entry.no_mse = 0, use_utp |-> entry.use_utp]]

\* peer_connected, on a TCP connect or on UTP_STATE_CONNECT.
PeerConnected(s) ==
  /\ Used(s) /\ peers[s].state = "CONNECTING"
  /\ peers' = [peers EXCEPT ![s].state = IF peers[s].mse THEN "MSE" ELSE "HANDSHAKE"]
  /\ UNCHANGED <<queue, num_peers, blocklist, utp, supplies>>

\* peer_process: the MSE handshake ends, or the BitTorrent handshake does.
HandshakeStep(s) ==
  /\ Used(s) /\ peers[s].state \in {"MSE", "HANDSHAKE"}
  /\ peers' = [peers EXCEPT ![s].state = IF @ = "MSE" THEN "HANDSHAKE" ELSE "ACTIVE"]
  /\ UNCHANGED <<queue, num_peers, blocklist, utp, supplies>>

----------------------------------------------------------------------------
(* Failures.                                                               *)

\* Mutant: a refused encryption is tried again with encryption.
DialFailureKeepsMse(p, e, q, refused) ==
  IF p.state = "MSE"
  THEN Insert(q, [ep |-> e, no_mse |-> 0, use_utp |-> p.use_utp], TRUE, refused)
  ELSE q

\* The requeueing part of handle_dial_failure: plaintext on the same transport
\* after a refused MSE handshake, else uTP after an early TCP failure
\* (should_retry_utp).
DialFailureRequeue(p, e, q, refused) ==
  LET plain == IF p.state = "MSE"
               THEN Insert(q, [ep |-> e, no_mse |-> 1, use_utp |-> p.use_utp],
                           TRUE, refused)
               ELSE q
  IN  IF plain # q THEN plain
      ELSE IF p.use_utp = 0 /\ p.state \in {"CONNECTING", "HANDSHAKE"}
      THEN RequeueUtp(q, e, refused)
      ELSE q

\* The slot is emptied before the failure is handled.
ConnectedWithout(s) == {peers[x].ep : x \in {y \in PeerSlots : Used(y) /\ y # s}}

\* Mutant: the count of peers is not adjusted.
FreeSlotUncounted(s) == peers' = [peers EXCEPT ![s] = NoPeer] /\ UNCHANGED num_peers

FreeSlot(s) == /\ peers' = [peers EXCEPT ![s] = NoPeer]
               /\ num_peers' = num_peers - 1

\* The failing peer leaves its slot, then the ladder goes on or ends.
DialFailure(s) ==
  /\ FreeSlot(s)
  /\ UNCHANGED <<utp, supplies>>
  /\ \E e \in {peers[s].ep} :
     \E requeued \in {DialFailureRequeue(peers[s], e, queue,
                                         ConnectedWithout(s) \cup Blocked)} :
       /\ queue' = requeued
       /\ blocklist' = IF requeued # queue THEN blocklist
                       ELSE BlocklistAdd(blocklist, e)

\* peer_recv or peer_flush of a TCP peer fails in the poll loop.
PeerError(s) == Used(s) /\ peers[s].use_utp = 0 /\ DialFailure(s)

\* The sweep finds a dial older than CONNECT_TIMEOUT_MS, of either transport.
DialTimeout(s) == Used(s) /\ peers[s].state \in Dialing /\ DialFailure(s)

\* A libutp callback (error, EOF, destroying, a failed read or write) can only
\* mark the peer.
UtpMarkDead(s) ==
  /\ Used(s) /\ peers[s].use_utp = 1
  /\ peers' = [peers EXCEPT ![s].state = "DEAD"]
  /\ UNCHANGED <<queue, num_peers, blocklist, utp, supplies>>

\* The sweep reclaims a peer marked dead, or evicts an active one (choked and
\* idle, too many strikes, silent): blocked at once.
Evict(s) ==
  /\ Used(s) /\ peers[s].state \in {"DEAD", "ACTIVE"}
  /\ FreeSlot(s)
  /\ blocklist' = BlocklistAdd(blocklist, peers[s].ep)
  /\ UNCHANGED <<queue, utp, supplies>>

\* PEER_BLOCKLIST_MS pass for the oldest entry.
BlockExpires ==
  /\ blocklist # <<>>
  /\ blocklist' = Tail(blocklist)
  /\ UNCHANGED <<queue, peers, num_peers, utp, supplies>>

SwarmNext ==
  \/ Discover \/ InitialPeers \/ TryConnect \/ TryConnectFails \/ BlockExpires
  \/ \E s \in PeerSlots : \/ PeerConnected(s) \/ HandshakeStep(s) \/ PeerError(s)
                          \/ DialTimeout(s) \/ UtpMarkDead(s) \/ Evict(s)

\* The tick dials and sweeps again and again.  The sweep empties a slot whose
\* dial is too old or whose peer is dead, so that no peer stays so for ever
\* (weak fairness of DialTimeout and of Evict on dead peers, written out).
\* Discoveries, answers of the remote end and evictions of live peers are not
\* assumed to happen.
SwarmFairness ==
  /\ WF_swarmVars(TryConnect \/ TryConnectFails)
  /\ \A s \in PeerSlots : []<>(Used(s) => peers[s].state = "ACTIVE")

SwarmSpec == SwarmInit /\ [][SwarmNext]_swarmVars /\ SwarmFairness

----------------------------------------------------------------------------
(* Properties.                                                             *)

\* Every field of the swarm state of torrent_t has its type, and the tail of the
\* ring is where head and size say it is.
SwarmTypeOK ==
  /\ queue.ring \in [Cells -> Entries \cup {NoEntry}]
  /\ queue.qhead \in Cells /\ queue.qtail \in Cells /\ queue.qsize \in 0 .. QueueMax
  /\ queue.qtail = (queue.qhead + queue.qsize) % QueueMax
  /\ queue.qhash \in [Slots -> Endpoints \cup {Empty, Dead}]
  /\ queue.tombstones = Cardinality({s \in Slots : queue.qhash[s] = Dead})
  /\ peers \in [PeerSlots -> Peer \cup {NoPeer}]
  /\ num_peers = Cardinality({s \in PeerSlots : Used(s)})
  /\ blocklist \in Seq(Endpoints) /\ Len(blocklist) <= BlockMax
  /\ utp \in BOOLEAN
  /\ supplies \in 0 .. MaxSupplies

\* An endpoint is at most once among the queued candidates and the peer slots,
\* whatever the order of discoveries, failures and retries: it is never dialled
\* twice at a time (the deduplication of queue_insert).
EachEndpointOnce ==
  LET cand == Queued(queue)
      used == {s \in PeerSlots : Used(s)}
  IN  /\ \A i, j \in DOMAIN cand : cand[i].ep = cand[j].ep => i = j
      /\ \A s, x \in used : peers[s].ep = peers[x].ep => s = x
      /\ \A i \in DOMAIN cand : cand[i].ep \notin Connected

\* The rungs of the ladder: TCP+MSE, TCP plaintext, uTP+MSE, uTP plaintext.
Rung(no_mse, use_utp) == 2 * use_utp + no_mse
PeerRung(p) == Rung(IF p.mse THEN 0 ELSE 1, p.use_utp)

\* A failed dial is only tried again on a higher rung (handle_dial_failure:
\* "so the ladder is bounded"), and goes to the front of the queue.
LadderClimbs ==
  [][\A s \in PeerSlots :
       (Used(s) /\ peers'[s] = NoPeer /\ queue'.qsize > queue.qsize) =>
          /\ HeadEntry(queue').ep = peers[s].ep
          /\ Rung(HeadEntry(queue').no_mse, HeadEntry(queue').use_utp)
               > PeerRung(peers[s])]_swarmVars

\* The hash set misses no queued endpoint, whatever collided with it, was
\* removed before it or was moved by a rebuild (queue_hash_add_raw drops its
\* endpoint when no slot is free, and a probe stops at an empty slot).
QueuedIsMember == \A i \in 1 .. queue.qsize : HashContains(queue, Queued(queue)[i].ep)

InRing(e) == \E i \in 1 .. queue.qsize : Queued(queue)[i].ep = e

\* "O(1) membership test for the queue above" (torrent.c:128): the hash set
\* holds exactly the endpoints of the ring.
MembershipExact == \A e \in Endpoints : HashContains(queue, e) <=> InRing(e)

\* An endpoint the set still holds although the ring does not.
StaleMember(e) == HashContains(queue, e) /\ ~InRing(e)

\* Every dial ends: the endpoint becomes an active peer or is blocked, unless
\* all slots are taken or the endpoint fell victim to a stale member of the
\* hash set (handle_dial_failure, CONNECT_TIMEOUT_MS sweep).
DialEnds ==
  \A e \in Endpoints :
    (\E s \in PeerSlots : Used(s) /\ peers[s].ep = e /\ peers[s].state \in Dialing)
      ~> \/ e \in Blocked
         \/ \E s \in PeerSlots : Used(s) /\ peers[s].ep = e /\ peers[s].state = "ACTIVE"
         \/ num_peers = MaxPeers
         \/ StaleMember(e)

============================================================================
