------------------------------ MODULE Torrent ------------------------------
(***************************************************************************)
(* Verification and completion in core/torrent.c, over the sessions of one *)
(* download: creation with a startup scan or a fast-resume bitfield, ticks, *)
(* web-seed pieces, the bitfield snapshot, teardown, and crashes.  The     *)
(* piece manager is PieceMgr's record and its operators; peers, requests   *)
(* and the network part of a tick are reduced to the block they deliver.   *)
(***************************************************************************)
EXTENDS PieceMgr

CONSTANTS WebDuringScan, \* does the application submit pieces during the scan?
          MaxFaults,     \* bound: failures of disk, memory, data or process
          MaxSessions    \* bound: voluntary restarts by the application

ASSUME TorrentAssumption == /\ WebDuringScan \in BOOLEAN
                            /\ MaxFaults \in Nat
                            /\ MaxSessions \in Nat

VARIABLES
  up,       \* a torrent_t exists
  t,        \* its verification state
  last,     \* what torrent_tick returned last in this session (1 before)
  dirty,    \* pieces written and not yet flushed out of the stdio buffers
  saved,    \* {bf}: the bitfield the application keeps; {}: none
  checked,  \* pieces read back and hashed in this session since last written
  faults, sessions

vars == <<pm, up, t, last, dirty, saved, checked, faults, sessions>>

\* Mutant: a fast-resume bitfield counts as verified.
NewTorrentTrusts(scan) ==
  [startup_verifying |-> scan, startup_verify_index |-> 0,
   startup_verified_all |-> ~scan, final_verifying |-> FALSE,
   final_verify_index |-> 0, fatal_error |-> FALSE]

\* The verification fields of a new torrent_t.
NewTorrent(scan) ==
  [startup_verifying |-> scan, startup_verify_index |-> 0,
   startup_verified_all |-> FALSE, final_verifying |-> FALSE,
   final_verify_index |-> 0, fatal_error |-> FALSE]

TorrentInit ==
  /\ \E d \in Disks : pm = Fresh(d, FALSE, TRUE)
  /\ up = FALSE /\ t = NewTorrent(TRUE) /\ last = 1
  /\ dirty = {} /\ saved = {} /\ checked = {}
  /\ faults = 0 /\ sessions = 0

\* An environment failure, if any of the outcomes is bad, uses the budget.
Faulty(bad) == /\ bad => faults < MaxFaults
               /\ faults' = faults + (IF bad THEN 1 ELSE 0)

Ok     == "stored"
All(w) == [i \in 1 .. QMax |-> w]

\* Pieces written between m and n, with the same or with other bytes.
Written(m, n) ==
  {p \in Pieces : \/ m.disk[p] # n.disk[p]
                  \/ m.state[p] # "DONE" /\ n.state[p] = "DONE"}

----------------------------------------------------------------------------
(* The steps of a tick.  s gathers what they change: the manager m, the    *)
(* verification fields x, the checked and dirty pieces and the result.     *)

\* One piece of the startup scan; r: can the disk be read?
ScanOne(s, r) ==
  LET p == s.x.startup_verify_index
      m == CheckExisting(s.m, p, r)
  IN  [s EXCEPT !.m = m,
                !.x.startup_verify_index = @ + 1,
                !.checked = IF m.state[p] = "DONE" THEN @ \cup {p} ELSE @ \ {p}]

\* n pieces of the scan, one after the other.
ScanPieces(s, n, r) ==
  LET scanned[i \in 0 .. n] ==  \* after i pieces
        IF i = 0 THEN s ELSE ScanOne(scanned[i - 1], r)
  IN  scanned[n]

\* Mutant: the end of the scan is not recorded.
StartupScanGoesOn(s, k, r) ==
  IF ~s.x.startup_verifying THEN s
  ELSE LET n    == Min({k, NumPieces - s.x.startup_verify_index})
           scan == ScanPieces(s, n, r)
       IN  [scan EXCEPT !.x.startup_verified_all = scan.m.num_done = NumPieces]

\* The scan of this tick: k pieces fit into the time budget, at least one.
StartupScan(s, k, r) ==
  IF ~s.x.startup_verifying THEN s
  ELSE LET n    == Min({k, NumPieces - s.x.startup_verify_index})
           scan == ScanPieces(s, n, r)
       IN  IF scan.x.startup_verify_index < NumPieces THEN scan
           ELSE [scan EXCEPT !.x.startup_verifying = FALSE,
                             !.x.startup_verified_all = scan.m.num_done = NumPieces]

\* The manager moved from s.m to n; ideal: where it would have got without
\* failures.  A failure reaches cb_hash_result, cb_block or the web hand-off.
Moved(s, n, ideal) ==
  [s EXCEPT !.m = n,
            !.x.fatal_error = @ \/ n # ideal,
            !.checked = @ \ Written(s.m, n),
            !.dirty = @ \cup Written(s.m, n)]

\* check_completion; f: does storage_flush succeed?
CheckCompletion(s, r, f) ==
  LET reset == [s EXCEPT !.x.final_verifying = FALSE, !.x.final_verify_index = 0,
                         !.ret = 1]
  IN  IF s.m.num_done # NumPieces
      THEN [reset EXCEPT !.x.startup_verified_all = FALSE]
      ELSE IF s.x.startup_verified_all THEN [s EXCEPT !.ret = 0]
      ELSE IF ~s.x.final_verifying /\ ~f THEN [s EXCEPT !.ret = 1]
      ELSE LET started == s.x.final_verifying
               p == IF started THEN s.x.final_verify_index ELSE 0
               d == IF started THEN s.dirty ELSE {}
           IN  IF p = NumPieces THEN [s EXCEPT !.ret = 0]
               ELSE IF ~VerifyValid(s.m, p, r)
               THEN [reset EXCEPT !.m = VerifyPiece(s.m, p, r), !.dirty = d]
               ELSE [s EXCEPT !.x.final_verifying = TRUE,
                              !.x.final_verify_index = p + 1,
                              !.checked = @ \cup {p},
                              !.dirty = d,
                              !.ret = 1]

\* Blocks a tick gets from peers: none, or block b of piece p.
NoBlock == [p |-> None, b |-> 0, tag |-> "good"]
Deliveries == {NoBlock} \cup
  UNION {[p : {p}, b : Blocks(p), tag : {"good", "bad"}] : p \in Pieces}

PeerBlock(s, g, w) ==
  IF g.p = None THEN s
  ELSE Moved(s, GotBlock(s.m, g.p, g.b, g.tag, w, TRUE),
                GotBlock(s.m, g.p, g.b, g.tag, Ok, TRUE))

Now == [m |-> pm, x |-> t, checked |-> checked, dirty |-> dirty, ret |-> 1]

Become(s) == /\ pm' = s.m /\ t' = s.x
             /\ checked' = s.checked /\ dirty' = s.dirty

\* torrent_tick without its network bookkeeping: scan, drain, and, unless
\* that completed the torrent, the block from a peer; then the completion
\* check.  Requests are only sent by ticks that are past the startup scan, so
\* that a block can only arrive in a later tick.
Tick(k, g, r, w, f) ==
  /\ up /\ ~t.fatal_error
  /\ g.p # None => ~t.startup_verifying
  /\ Faulty(g.tag = "bad" \/ ~r \/ ~f \/ w # Ok)
  /\ \E scan  \in {StartupScan(Now, k, r)} :
     \E drain \in {Moved(scan, Drain(scan.m, All(w)), Drain(scan.m, All(Ok)))} :
     \E recv  \in {IF drain.m.num_done = NumPieces THEN drain
                   ELSE PeerBlock(drain, g, w)} :
     \E s     \in {CheckCompletion(recv, r, f)} : Become(s) /\ last' = s.ret
  /\ UNCHANGED <<up, saved, sessions>>

\* torrent_tick after a fatal error.
TickFailed ==
  /\ up /\ t.fatal_error
  /\ last' = -1
  /\ UNCHANGED <<pm, up, t, dirty, saved, checked, faults, sessions>>

----------------------------------------------------------------------------
(* The other calls of the application, and the environment.                *)

\* torrent_create_ex, with the saved bitfield or without.
Create(resume, async) ==
  /\ ~up
  /\ resume => saved # {}
  /\ up' = TRUE /\ last' = 1 /\ checked' = {}
  /\ t' = NewTorrent(~resume)
  /\ pm' = PresetHave(Fresh(pm.disk, FALSE, async),
                      IF resume THEN UNION saved ELSE {})
  /\ UNCHANGED <<dirty, saved, faults, sessions>>

\* torrent_submit_web_piece.
SubmitWeb(p, tag, w) ==
  /\ up
  /\ t.startup_verifying => WebDuringScan
  /\ Faulty(tag = "bad" \/ w # Ok)
  /\ Become(Moved(Now, SubmitWebPiece(pm, p, tag, w, TRUE).m,
                       SubmitWebPiece(pm, p, tag, Ok, TRUE).m))
  /\ UNCHANGED <<up, last, saved, sessions>>

\* The flush of torrent_copy_have_bitfield and of piece_mgr_destroy.
Flushed(w) == Moved(Now, HashFlush(pm, All(w)), HashFlush(pm, All(Ok)))

\* Mutants: the snapshot counts pieces being hashed, or does not wait.
CopyCountsHashing(w, f) ==
  /\ up
  /\ Faulty(w # Ok \/ ~f)
  /\ saved' = IF t.startup_verifying THEN saved
              ELSE {pm.have_bf \cup {p \in Pieces : pm.state[p] = "HASHING"}}
  /\ UNCHANGED <<pm, up, t, last, dirty, checked, sessions>>
CopyDoesNotWait(w, f) ==
  /\ up
  /\ Faulty(w # Ok \/ ~f)
  /\ saved' = IF t.startup_verifying THEN saved ELSE {pm.have_bf}
  /\ UNCHANGED <<pm, up, t, last, dirty, checked, sessions>>

\* torrent_copy_have_bitfield; the application keeps what it gets.
CopyHaveBitfield(w, f) ==
  /\ up
  /\ Faulty(w # Ok \/ ~f)
  /\ LET s == Flushed(w) IN
       /\ Become([s EXCEPT !.dirty = IF f /\ ~t.startup_verifying THEN {} ELSE @])
       /\ saved' = IF t.startup_verifying THEN saved ELSE {s.m.have_bf}
  /\ UNCHANGED <<up, last, sessions>>

\* The manager is gone, the disk stays, less the lost writes.
Without(m, lost) ==
  Fresh([p \in Pieces |-> IF p \in lost THEN "other" ELSE m.disk[p]], FALSE, TRUE)

\* torrent_destroy: hashes are finished, then the files are closed, which
\* flushes them; lost: writes for which the unchecked fclose failed.  The
\* application pauses a download, or gives up on one that failed.
Destroy(w, lost) ==
  /\ up
  /\ IF last = -1 THEN UNCHANGED sessions
     ELSE sessions < MaxSessions /\ sessions' = sessions + 1
  /\ Faulty(w # Ok \/ lost # {})
  /\ up' = FALSE /\ last' = 1 /\ dirty' = {} /\ checked' = {}
  /\ t' = NewTorrent(TRUE)
  /\ pm' = Without(Flushed(w).m, lost \cap Flushed(w).dirty)
  /\ UNCHANGED saved

\* The process dies; any part of what was not flushed is lost.
Crash(lost) ==
  /\ up /\ lost \subseteq dirty
  /\ Faulty(TRUE)
  /\ up' = FALSE /\ last' = 1 /\ dirty' = {} /\ checked' = {}
  /\ t' = NewTorrent(TRUE)
  /\ pm' = Without(pm, lost)
  /\ UNCHANGED <<saved, sessions>>

Worker == WorkerDone /\ UNCHANGED <<up, t, last, dirty, saved, checked, faults, sessions>>

Damage(p) == /\ Corrupt(p)
             /\ Faulty(TRUE)
             /\ UNCHANGED <<up, t, last, dirty, saved, checked, sessions>>

TorrentNext ==
  \/ \E k \in 1 .. NumPieces, g \in Deliveries, r, f \in BOOLEAN, w \in WriteResults :
       Tick(k, g, r, w, f)
  \/ TickFailed
  \/ \E resume, async \in BOOLEAN : Create(resume, async)
  \/ \E p \in Pieces, tag \in {"good", "bad"}, w \in WriteResults : SubmitWeb(p, tag, w)
  \/ \E w \in WriteResults, f \in BOOLEAN : CopyHaveBitfield(w, f)
  \/ \E w \in WriteResults, lost \in SUBSET {p \in Pieces : Readable(p)} : Destroy(w, lost)
  \/ \E lost \in SUBSET dirty : Crash(lost)
  \/ Worker
  \/ \E p \in Pieces : Damage(p)

TorrentSpec == TorrentInit /\ [][TorrentNext]_vars

\* The application ticks, recreates a torrent that is gone and destroys one
\* that failed; the worker is scheduled; some peer delivers each block.
Fairness ==
  /\ WF_vars(\E k \in 1 .. NumPieces : Tick(k, NoBlock, TRUE, Ok, TRUE))
  /\ WF_vars(TickFailed)
  /\ \A p \in Pieces : \A b \in Blocks(p) :
       WF_vars(/\ pm.state[p] \in {"EMPTY", "PENDING"} /\ b \notin pm.blocks[p]
               /\ Tick(1, [p |-> p, b |-> b, tag |-> "good"], TRUE, Ok, TRUE))
  /\ WF_vars(Worker)
  /\ WF_vars(Create(FALSE, TRUE))
  /\ WF_vars(last = -1 /\ Destroy(Ok, {}))

FairTorrentSpec == TorrentSpec /\ Fairness
----------------------------------------------------------------------------
(* Properties.                                                             *)

TorrentTypeOK ==
  /\ t.startup_verify_index \in 0 .. NumPieces
  /\ t.final_verify_index \in 0 .. NumPieces
  /\ t.startup_verifying => ~t.startup_verified_all
  /\ last \in {-1, 0, 1}
  /\ dirty \subseteq Pieces /\ checked \subseteq Pieces
  /\ saved \in {{}} \cup {{bf} : bf \in SUBSET Pieces}
  /\ faults \in 0 .. MaxFaults /\ sessions \in 0 .. MaxSessions

\* torrent_tick reports completion only when every piece that can be read
\* back was read from the disk and hashed in this session, after the session
\* last wrote it: by the final pass, or by a startup scan that found all.
CompleteMeansChecked ==
  last = 0 => \A p \in Pieces : Readable(p) => p \in checked

\* The bitfield kept for fast resume is never ahead of the storage: as long
\* as nothing fails, each piece it claims is valid on the disk.
SavedIsOnDisk ==
  faults = 0 => \A bf \in saved : \A p \in bf : Readable(p) => pm.disk[p] = "good"

\* A snapshot drops no finished piece: pieces whose hash is under way are
\* waited for, and the snapshot is all that is DONE.
SnapshotIsComplete ==
  [][saved' # saved => /\ pm'.queue = <<>>
                       /\ saved' = {{p \in Pieces : pm'.state[p] = "DONE"}}]_vars

\* However often the disk, the data or the process fails, once failures stop
\* the download completes: wrong bitfields, lost writes and failed final
\* passes heal, and no restart of verification goes on for ever.
EventuallyComplete == <>(last = 0)
=============================================================================
