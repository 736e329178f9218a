------------------------------ MODULE PeerQueue ------------------------------
(***************************************************************************)
(* The queue of dial candidates of core/torrent.c: a ring of endpoints     *)
(* beside an open-addressing hash set with tombstones that answers "is     *)
(* this endpoint queued?".  The queue is one record; each C function that  *)
(* changes it is an operator from records to records.  An endpoint         *)
(* (address and port) is a model value; Home is what queue_hash_index      *)
(* makes of it, so that collisions are chosen by the instance.             *)
(***************************************************************************)
EXTENDS Integers, Sequences, FiniteSets, FiniteSetsExt, SequencesExt

CONSTANTS Endpoints,  \* endpoints the swarm may tell us of
          Bogus,      \* those queue_insert refuses: unroutable address, port < 2
          QueueMax,   \* MAX_PEER_QUEUE
          Home        \* endpoint -> first slot of its probe sequence

HashCap == 2 * QueueMax   \* QUEUE_HASH_CAP

Slots == 0 .. HashCap - 1
Cells == 0 .. QueueMax - 1

NoEntry == [ep |-> "none", no_mse |-> 0, use_utp |-> 0]
Entries == [ep : Endpoints, no_mse : {0, 1}, use_utp : {0, 1}]

\* A slot of the set: QH_EMPTY, QH_DEAD, or QH_USED with its endpoint.
Empty == "QH_EMPTY"
Dead  == "QH_DEAD"

ASSUME QueueAssumption ==
  /\ Bogus \subseteq Endpoints
  /\ QueueMax \in Nat \ {0}
  /\ Home \in [Endpoints -> Slots]
  /\ {Empty, Dead} \cap Endpoints = {}

EmptyQueue == [ring  |-> [c \in Cells |-> NoEntry],
               qhead |-> 0, qtail |-> 0, qsize |-> 0,
               qhash |-> [s \in Slots |-> Empty],
               tombstones |-> 0]

----------------------------------------------------------------------------
(* The hash set.                                                           *)

\* The i-th slot, from 0, that the probe for e visits.
ProbeAt(e, i) == (Home[e] + i) % HashCap

\* The slot at which e is found before an empty one, or None.
None == -1
FoundAt(q, e) ==
  LET stops == {i \in Slots : q.qhash[ProbeAt(e, i)] \in {Empty, e}}
  IN  IF stops = {} THEN None
      ELSE LET at == ProbeAt(e, Min(stops)) IN IF q.qhash[at] = e THEN at ELSE None

\* queue_hash_contains
HashContains(q, e) == FoundAt(q, e) # None

\* queue_hash_add_raw: the first slot that is not in use is taken.
HashAddRaw(q, e) ==
  LET free == {i \in Slots : q.qhash[ProbeAt(e, i)] \in {Empty, Dead}}
      at   == ProbeAt(e, Min(free))
  IN  IF free = {} THEN q
      ELSE [q EXCEPT !.qhash[at] = e,
                     !.tombstones = IF q.qhash[at] = Dead /\ @ > 0 THEN @ - 1 ELSE @]

\* The queued entries, oldest first.
Queued(q) == [i \in 1 .. q.qsize |-> q.ring[(q.qhead + i - 1) % QueueMax]]

\* queue_hash_rebuild: drop the tombstones, add the live queue again.
HashRebuild(q) ==
  LET added[n \in 0 .. q.qsize] ==  \* after n entries
        IF n = 0 THEN [q EXCEPT !.qhash = [s \in Slots |-> Empty], !.tombstones = 0]
        ELSE HashAddRaw(added[n - 1], Queued(q)[n].ep)
  IN  added[q.qsize]

\* queue_hash_add
HashAdd(q, e) ==
  HashAddRaw(IF q.tombstones > HashCap \div 4 THEN HashRebuild(q) ELSE q, e)

\* Mutant: a slot is freed at once, which cuts the probe of a later endpoint.
HashRemoveFrees(q, e) ==
  IF FoundAt(q, e) = None THEN q ELSE [q EXCEPT !.qhash[FoundAt(q, e)] = Empty]

\* queue_hash_remove: the slot becomes a tombstone.
HashRemove(q, e) ==
  IF FoundAt(q, e) = None THEN q
  ELSE [q EXCEPT !.qhash[FoundAt(q, e)] = Dead, !.tombstones = @ + 1]

----------------------------------------------------------------------------
(* The ring.                                                               *)

\* queue_insert takes the endpoint only if it is routable, there is room, and
\* it is neither queued, connected nor blocked (the last two are `refused`).
Admits(q, e, refused) ==
  /\ e \notin Bogus
  /\ q.qsize < QueueMax
  /\ ~HashContains(q, e)
  /\ e \notin refused

\* The tail of queue_insert: the entry is stored and counted first, then its
\* endpoint enters the set.
Store(q, entry, front) ==
  LET head == (q.qhead + QueueMax - 1) % QueueMax
      put  == IF front
              THEN [q EXCEPT !.qhead = head, !.ring[head] = entry]
              ELSE [q EXCEPT !.ring[q.qtail] = entry,
                             !.qtail = (q.qtail + 1) % QueueMax]
  IN  HashAdd([put EXCEPT !.qsize = @ + 1], entry.ep)

\* queue_insert
Insert(q, entry, front, refused) ==
  IF Admits(q, entry.ep, refused) THEN Store(q, entry, front) ELSE q

\* queue_push
Push(q, e, refused) ==
  Insert(q, [ep |-> e, no_mse |-> 0, use_utp |-> 0], FALSE, refused)

\* queue_pop of a queue that is not empty; the popped entry is the head.  A
\* vacated cell is never read again and is modelled as cleared.
HeadEntry(q) == q.ring[q.qhead]
Pop(q) ==
  HashRemove([q EXCEPT !.ring[q.qhead] = NoEntry,
                       !.qhead = (q.qhead + 1) % QueueMax,
                       !.qsize = @ - 1], HeadEntry(q).ep)

\* torrent_add_initial_peers: append the list, then rotate the entries that
\* were there before to the back with their dial flags.
PushAll(q, list, refused) ==
  LET pushed[n \in 0 .. Len(list)] ==
        IF n = 0 THEN q ELSE Push(pushed[n - 1], list[n], refused)
  IN  pushed[Len(list)]
Rotate(q, n, refused) ==
  LET after[k \in 0 .. n] ==
        IF k = 0 THEN q
        ELSE LET r == after[k - 1]
             IN  IF r.qsize = 0 THEN r
                 ELSE Insert(Pop(r), HeadEntry(r), FALSE, refused)
  IN  after[n]
AddInitialPeers(q, list, refused) ==
  LET grown == PushAll(q, list, refused)
  IN  IF grown.qsize = q.qsize THEN q ELSE Rotate(grown, q.qsize, refused)

============================================================================
