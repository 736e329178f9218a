------------------------------ MODULE Requests ------------------------------
(***************************************************************************)
(* Block requests: the request pipelines of core/peer.c, the scheduler,    *)
(* the hedger and the timeout sweep of core/torrent.c, over the request    *)
(* counts of the piece manager.  The remotes are honest: each answers a    *)
(* request at most once, possibly after it was expired or cancelled here.  *)
(* Time is left out: a request that was not answered may be due for a      *)
(* hedge or for expiry.  A write or an allocation that fails ends the      *)
(* torrent and belongs to Torrent.tla; here they succeed.                  *)
(***************************************************************************)
EXTENDS PieceMgr

CONSTANTS Conns,           \* peer slots
          UtpConns,        \* those that use uTP
          Bootstrap,       \* BOOTSTRAP_PIPELINE
          MinPipe,         \* MIN_REQUEST_PIPELINE
          MaxPipe,         \* request_pipeline_limit
          MaxHedged,       \* MAX_HEDGED_BLOCKS
          RecentDropped,   \* RECENT_DROPPED_REQUESTS
          MaxUnsolicited,  \* MAX_UNSOLICITED_PIECES
          DropStrikes,     \* TIMEOUT_DISCONNECT_STRIKES
          MaxFaults        \* bound on what remotes and the network spoil

ASSUME RequestsAssumption ==
  /\ UtpConns \subseteq Conns /\ IsFiniteSet(Conns)
  /\ {Bootstrap, MinPipe, MaxPipe, RecentDropped, MaxUnsolicited, DropStrikes}
       \subseteq Nat \ {0}
  /\ MinPipe <= MaxPipe
  /\ {MaxHedged, MaxFaults} \subseteq Nat

VARIABLES peer,    \* t->peers
          owed,    \* requests a remote may still answer
          burst,   \* the peer whose received bytes are being processed
          faults   \* what was spoilt so far

reqVars == <<pm, peer, owed, burst, faults>>

Req == {<<p, b>> : p \in Pieces, b \in 0 .. Max({BlockCount[p] : p \in Pieces}) - 1}
NoneOwed == [r \in Req |-> 0]

\* peer_create: forgot counts the requests that were given up without being
\* remembered, drops all those that were (both for the properties only).
NewPeer == [active |-> FALSE, choked |-> TRUE, have |-> {}, pipe |-> <<>>,
            dropped |-> <<>>, unsol |-> 0, strikes |-> 0, cool |-> FALSE,
            proven |-> FALSE, drops |-> 0, forgot |-> 0]

ReqInit == /\ \E async \in BOOLEAN : pm = Fresh([p \in Pieces |-> "other"], TRUE, async)
           /\ peer = [s \in Conns |-> NewPeer]
           /\ owed = [s \in Conns |-> NoneOwed]
           /\ burst = None
           /\ faults = 0

Idle == burst = None   \* the tick is not inside a peer's burst of messages

Spoil(n) == faults + n <= MaxFaults /\ faults' = faults + n

----------------------------------------------------------------------------
(* Pipelines.                                                              *)

\* peer_has_request
Holds(pr, r) == \E i \in DOMAIN pr.pipe : pr.pipe[i] = r

Holders(r) == {s \in Conns : Holds(peer[s], r)}

\* remember_dropped: the ring keeps the last RecentDropped requests.
RememberDropped(pr, r) ==
  LET all == Append(pr.dropped, r)
  IN  [pr EXCEPT !.dropped = IF Len(all) > RecentDropped THEN Tail(all) ELSE all,
                 !.drops = @ + 1]

\* peer_expire_requests remembers each of the requests it gives up.
RememberAll(pr, rs) ==
  LET kept[n \in 0 .. Len(rs)] ==  \* after n requests
        IF n = 0 THEN pr ELSE RememberDropped(kept[n - 1], rs[n])
  IN  kept[Len(rs)]

\* was_recently_dropped
WasRecentlyDropped(pr, r) == \E i \in DOMAIN pr.dropped : pr.dropped[i] = r

\* remove_pipeline and take_pipeline_request
RemovePipeline(pr, r) == [pr EXCEPT !.pipe = RemoveFirst(@, r)]

\* Mutant: a cancelled request is not remembered.
CancelBlockForgets(pr, r) == RemovePipeline(pr, r)

\* peer_cancel_block, once the CANCEL is in the send buffer.
CancelBlock(pr, r) == RemovePipeline(RememberDropped(pr, r), r)

\* Mutant: the counts of a lost peer's requests are kept.
ClearRequestsKeepsCounts(m, rs) == m

\* clear_request for each request of a sequence.
ClearRequests(m, rs) ==
  LET cleared[n \in 0 .. Len(rs)] ==  \* after n requests
        IF n = 0 THEN m ELSE ClearBlockRequested(cleared[n - 1], rs[n][1], rs[n][2])
  IN  cleared[Len(rs)]

----------------------------------------------------------------------------
(* Scheduling.                                                             *)

\* peer_pipeline_limit: the probe window before the first block, then
\* whatever the measured rate and the strikes make of it.
Limits(pr) == IF pr.proven THEN MinPipe .. MaxPipe ELSE {Bootstrap}

\* Mutant: the peer's own pipeline is not looked at.
UnaskedTwice(m, pr, p) == {b \in Blocks(p) : b \notin m.blocks[p] /\ m.reqs[p][b] = 0}

\* Blocks to ask the peer for: not received, not asked of anyone, and not in
\* this peer's pipeline (where a count that was cleared may have left it).
Unasked(m, pr, p) ==
  {b \in Blocks(p) : b \notin m.blocks[p] /\ m.reqs[p][b] = 0 /\ ~Holds(pr, <<p, b>>)}

\* One block of the piece a round of schedule_requests has picked; acc =
\* [m, pr, room, go], room being what the send buffer still takes and go
\* whether a block of the piece was asked for.
ScheduleBlock(acc, p, b, limit) ==
  IF Len(acc.pr.pipe) < limit /\ acc.room > 0 /\ b \in Unasked(acc.m, acc.pr, p)
  THEN [m |-> MarkBlockRequested(acc.m, p, b),
        pr |-> [acc.pr EXCEPT !.pipe = Append(@, <<p, b>>)],
        room |-> acc.room - 1, go |-> TRUE]
  ELSE acc

\* The blocks of that piece, in block order.
SchedulePiece(acc, p, limit) ==
  LET asked[n \in 0 .. BlockCount[p]] ==  \* after n blocks
        IF n = 0 THEN [acc EXCEPT !.m = MarkPending(acc.m, p, TRUE), !.go = FALSE]
        ELSE ScheduleBlock(asked[n - 1], p, n - 1, limit)
  IN  asked[BlockCount[p]]

\* One round of schedule_requests.
ScheduleRound(acc, limit) ==
  LET p == IF acc.go /\ Len(acc.pr.pipe) < limit
           THEN Pick(acc.m, acc.pr.have, Pieces, Lookahead, TRUE) ELSE None
  IN  IF p = None THEN [acc EXCEPT !.go = FALSE] ELSE SchedulePiece(acc, p, limit)

\* A round that goes on fills the pipeline further: limit rounds are enough.
ScheduleResult(pr, limit, room) ==
  LET round[n \in 0 .. limit] ==
        IF n = 0 THEN [m |-> pm, pr |-> pr, room |-> room, go |-> TRUE]
        ELSE ScheduleRound(round[n - 1], limit)
  IN  round[limit]

\* The requests of s that are new in its pipeline are sent.
Ask(s, pr) == owed' = [owed EXCEPT ![s] = [r \in Req |->
                         IF Holds(pr, r) /\ ~Holds(peer[s], r) THEN @[r] + 1 ELSE @[r]]]

\* schedule_requests
ScheduleRequests(s, limit, room) ==
  /\ Idle
  /\ peer[s].active /\ ~peer[s].choked /\ ~peer[s].cool
  /\ \E res \in {ScheduleResult(peer[s], limit, room)} :
       /\ res.m # pm \/ res.pr # peer[s]
       /\ pm' = res.m
       /\ peer' = [peer EXCEPT ![s] = res.pr]
       /\ Ask(s, res.pr)
  /\ UNCHANGED <<burst, faults>>

\* pick_hedge_peer: the ties between peers of equal strikes are broken by
\* times and lengths the model leaves open.
HedgePeers(s, r) ==
  LET fit == {c \in Conns \ {s} :
                /\ peer[c].active /\ ~peer[c].choked /\ ~peer[c].cool
                /\ r[1] \in peer[c].have
                /\ ~Holds(peer[c], r)
                /\ \E limit \in Limits(peer[c]) : Len(peer[c].pipe) < limit}
  IN  {c \in fit : \A d \in fit : peer[c].strikes <= peer[d].strikes}

Outstanding(p) == Cardinality({b \in Blocks(p) : pm.reqs[p][b] > 1})

\* schedule_hedged_requests for one overdue request of the head piece.
HedgeRequest(s, r, c) ==
  /\ Idle
  /\ pm.strict_order
  /\ peer[s].active /\ Holds(peer[s], r)
  /\ r[1] = HeadPiece(pm)
  /\ Outstanding(r[1]) < MaxHedged
  /\ r[2] \notin pm.blocks[r[1]] /\ pm.reqs[r[1]][r[2]] = 1
  /\ c \in HedgePeers(s, r)
  /\ pm' = MarkBlockRequested(pm, r[1], r[2])
  /\ \E pr \in {[peer[c] EXCEPT !.pipe = Append(@, r)]} :
       peer' = [peer EXCEPT ![c] = pr] /\ Ask(c, pr)
  /\ UNCHANGED <<burst, faults>>

----------------------------------------------------------------------------
(* Losing a peer, and what ends a burst of messages.                       *)

Gone(s) == owed' = [owed EXCEPT ![s] = NoneOwed]

\* clear_peer_requests and peer_destroy
DropPeer(s) == /\ pm' = ClearRequests(pm, peer[s].pipe)
               /\ peer' = [peer EXCEPT ![s] = NewPeer]
               /\ burst' = None
               /\ Gone(s)

\* A choked peer loses its pipeline, which is not remembered, and cools down.
Released(pr) == [pr EXCEPT !.pipe = <<>>, !.cool = TRUE, !.forgot = @ + Len(pr.pipe)]

\* At the end of a TCP peer's burst a choked peer loses its pipeline.  m and
\* prs are the manager and the peers after the message.
EndOfBurst(s, m, prs, last) ==
  LET held == s \notin UtpConns /\ prs[s].choked /\ prs[s].pipe # <<>>
  IN  IF held /\ last
      THEN /\ pm' = ClearRequests(m, prs[s].pipe)
           /\ peer' = [prs EXCEPT ![s] = Released(prs[s])]
           /\ burst' = None
      ELSE /\ pm' = m
           /\ peer' = prs
           /\ burst' = IF held THEN s ELSE None

----------------------------------------------------------------------------
(* Messages.                                                               *)

Talks(s) == burst \in {None, s} /\ peer[s].active

\* process_message for a PIECE that matches an outstanding request, and
\* cb_block: the other holders of the block are cancelled, as far as their
\* send buffers take the CANCEL (sent).
BlockWanted(s, r, tag, sent, last) ==
  LET before == pm.reqs[r[1]][r[2]]
      m == GotBlock(pm, r[1], r[2], tag, "stored", TRUE)
      mismatch == m.state[r[1]] = "EMPTY"
      others == IF before > 1 /\ ~mismatch THEN (Holders(r) \ {s}) \cap sent ELSE {}
      pr == [RemovePipeline(peer[s], r) EXCEPT !.proven = TRUE,
                                               !.strikes = IF @ > 0 THEN @ - 1 ELSE 0]
  IN  EndOfBurst(s, m, [c \in Conns |-> IF c = s THEN pr
                                       ELSE IF c \in others THEN CancelBlock(peer[c], r)
                                       ELSE peer[c]], last)

\* A PIECE nobody waits for is ignored when it answers a request that was
\* dropped lately; too many others end the connection.
BlockUnwanted(s, r, last) ==
  LET pr == IF WasRecentlyDropped(peer[s], r) THEN peer[s]
            ELSE [peer[s] EXCEPT !.unsol = @ + 1]
  IN  IF pr.unsol >= MaxUnsolicited
      THEN DropPeer(s)
      ELSE /\ EndOfBurst(s, pm, [peer EXCEPT ![s] = pr], last)
           /\ owed' = [owed EXCEPT ![s][r] = @ - 1]

Deliver(s, r, tag, sent, last) ==
  /\ Talks(s)
  /\ owed[s][r] > 0
  /\ IF tag = "bad" THEN Spoil(1) ELSE UNCHANGED faults
  /\ IF Holds(peer[s], r)
     THEN BlockWanted(s, r, tag, sent, last) /\ owed' = [owed EXCEPT ![s][r] = @ - 1]
     ELSE BlockUnwanted(s, r, last)

\* CHOKE: the remote forgets what it was asked, or answers it all the same.
Choke(s, keeps, last) ==
  /\ Talks(s)
  /\ ~peer[s].choked
  /\ Spoil(1)
  /\ EndOfBurst(s, pm, [peer EXCEPT ![s].choked = TRUE], last)
  /\ IF keeps THEN UNCHANGED owed ELSE Gone(s)

Unchoke(s) ==
  /\ Talks(s)
  /\ peer[s].choked
  /\ EndOfBurst(s, pm, [peer EXCEPT ![s].choked = FALSE], TRUE)
  /\ UNCHANGED <<owed, faults>>

\* HAVE or BITFIELD
Announce(s, ps) ==
  /\ Talks(s)
  /\ ps \ peer[s].have # {}
  /\ EndOfBurst(s, pm, [peer EXCEPT ![s].have = @ \cup ps], TRUE)
  /\ UNCHANGED <<owed, faults>>

----------------------------------------------------------------------------
(* The timeout sweep, connections and the rest of the tick.                *)

\* peer_expire_requests for the k oldest requests, and what the sweep does
\* about it: no strike for a peer that delivered lately (graced); a peer
\* without progress (idle) is dropped at DropStrikes.
Expire(s, k, graced, idle) ==
  /\ Idle
  /\ peer[s].active
  /\ graced => peer[s].proven /\ ~idle
  /\ \E old \in {SubSeq(peer[s].pipe, 1, k)} :
     \E kept \in {[RememberAll(peer[s], old)
                     EXCEPT !.pipe = SubSeq(@, k + 1, Len(@))]} :
     \E pr \in {IF graced THEN kept
                ELSE [kept EXCEPT !.strikes = @ + 1, !.cool = TRUE]} :
       /\ Spoil(Cardinality({i \in 1 .. k : owed[s][old[i]] > 0}))
       /\ IF pr.strikes >= DropStrikes /\ ~graced /\ idle
          THEN /\ pm' = ClearRequests(pm, peer[s].pipe)
               /\ peer' = [peer EXCEPT ![s] = NewPeer]
               /\ Gone(s)
          ELSE /\ pm' = ClearRequests(pm, old)
               /\ peer' = [peer EXCEPT ![s] = pr]
               /\ UNCHANGED owed
  /\ UNCHANGED burst

CoolEnds(s) == /\ Idle /\ peer[s].cool
               /\ peer' = [peer EXCEPT ![s].cool = FALSE]
               /\ UNCHANGED <<pm, owed, burst, faults>>

Connect(s) == /\ Idle /\ ~peer[s].active
              /\ peer' = [peer EXCEPT ![s].active = TRUE]
              /\ UNCHANGED <<pm, owed, burst, faults>>

\* The remote closes, stays silent for too long or keeps us choked.
Disconnect(s) == Talks(s) /\ Spoil(1) /\ DropPeer(s)

\* torrent_submit_web_piece, the hash worker and the drain of its results.
\* (The startup scan is over before the first request.)
WebSeed(p, tag) == /\ Idle /\ pm.state[p] # "DONE" /\ Spoil(1)
                   /\ WebPiece(p, tag, "stored", TRUE)
                   /\ UNCHANGED <<peer, owed, burst>>
HashDone == WorkerDone /\ UNCHANGED <<peer, owed, burst, faults>>
DrainTick == /\ Idle /\ pm.hashed > 0
             /\ DrainResults([i \in 1 .. pm.hashed |-> "stored"])
             /\ UNCHANGED <<peer, owed, burst, faults>>

ReqNext ==
  \/ \E s \in Conns :
       \/ Unchoke(s) \/ CoolEnds(s) \/ Connect(s) \/ Disconnect(s)
       \/ \E ps \in SUBSET Pieces : Announce(s, ps)
       \/ \E limit \in Limits(peer[s]) : \E room \in 1 .. limit :
            ScheduleRequests(s, limit, room)
       \/ \E r \in Req : \/ \E c \in Conns : HedgeRequest(s, r, c)
                         \/ \E tag \in {"good", "bad"}, sent \in {{}, Conns},
                               last \in BOOLEAN : Deliver(s, r, tag, sent, last)
       \/ \E keeps, last \in BOOLEAN : Choke(s, keeps, last)
       \/ \E k \in 1 .. Len(peer[s].pipe), graced, idle \in BOOLEAN :
            Expire(s, k, graced, idle)
  \/ \E p \in Pieces, tag \in {"good", "bad"} : WebSeed(p, tag)
  \/ HashDone
  \/ DrainTick

\* The tick keeps running; remotes unchoke, announce their pieces and answer
\* what they were asked and did not forget; dials succeed.  Each conjunct is
\* the weak fairness of a step that disables itself: it is not enabled for
\* ever.
CanSchedule(s) ==
  /\ Idle /\ peer[s].active /\ ~peer[s].choked /\ ~peer[s].cool
  /\ ScheduleResult(peer[s], Min(Limits(peer[s])), MaxPipe).pr # peer[s]

ReqFairness ==
  /\ \A s \in Conns :
       /\ []<>~(Talks(s) /\ peer[s].choked)                       \* Unchoke
       /\ []<>~(Talks(s) /\ peer[s].have # Pieces)                \* Announce
       /\ []<>~(Idle /\ peer[s].cool)                             \* CoolEnds
       /\ []<>~(Idle /\ ~peer[s].active)                          \* Connect
       /\ []<>~(CanSchedule(s))                                   \* ScheduleRequests
       /\ \A r \in Req : []<>~(Talks(s) /\ owed[s][r] > 0 /\ Holds(peer[s], r))
       /\ []<>~(/\ Idle /\ peer[s].pipe # <<>>                    \* Expire
                /\ owed[s][Head(peer[s].pipe)] = 0)
  /\ []<>~(pm.hashed < Len(pm.queue))                             \* HashDone
  /\ []<>~(Idle /\ pm.hashed > 0)                                 \* DrainTick

ReqSpec == ReqInit /\ [][ReqNext]_reqVars /\ ReqFairness
----------------------------------------------------------------------------
(* Properties.                                                             *)

\* Pipelines stay within the limit and never hold a request twice, although
\* the scheduler and the hedger fill them independently of each other.
ReqTypeOK ==
  /\ \A s \in Conns :
       /\ Range(peer[s].pipe) \subseteq Req
       /\ Len(peer[s].pipe) <= Max({MaxPipe, Bootstrap})
       /\ \A i, j \in DOMAIN peer[s].pipe : i # j => peer[s].pipe[i] # peer[s].pipe[j]
       /\ Len(peer[s].dropped) <= RecentDropped
       /\ peer[s].unsol \in 0 .. MaxUnsolicited - 1
       /\ ~peer[s].active => peer[s] = NewPeer
  /\ burst \in Conns \cup {None}
  /\ faults \in 0 .. MaxFaults

\* No orphaned request: a block that counts as requested is in the pipeline
\* of at least that many live peers, so that its answer, its expiry or the
\* loss of the peer frees it again.  (A count without a pipeline would keep
\* the block from ever being asked for.)  Hedges, cancels, chokes, expiry,
\* lost peers, web pieces and resets after a bad hash all move both sides.
NoOrphanRequest ==
  \A p \in Pieces : \A b \in Blocks(p) :
    pm.reqs[p][b] <= Cardinality(Holders(<<p, b>>))

\* "Late answers to requests we expired or CANCEL'd ourselves are dropped
\* silently": an honest remote collects a strike towards its disconnection
\* only for a request that a choke released, or that fell out of the ring
\* of the RecentDropped last ones.
LateAnswersForgiven ==
  \A s \in Conns :
    peer[s].unsol <= peer[s].forgot + Max({0, peer[s].drops - RecentDropped})

\* Once remotes and network stop spoiling things every piece arrives, however
\* chokes, expiries, cancels and lost peers left counts and pipelines behind.
BlocksArrive == <>[](pm.num_done = NumPieces)
=============================================================================
