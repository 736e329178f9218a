------------------------------- MODULE Session -------------------------------
(***************************************************************************)
(* The threads around a torrent: torrents that start and stop on threads   *)
(* of their own, the DHT engine they share (core/dht.c) and the announce   *)
(* and UPnP workers of each (core/torrent.c).                              *)
(*                                                                         *)
(* A section under jech_mu is one step.  lifecycle_mu is held over several *)
(* steps (starting the engine and linking the session, stopping and        *)
(* joining the engine), so it is a variable.  Peers are counted, not       *)
(* named.  What the vendored DHT finds, and what a tracker answers, is any *)
(* number of peers.                                                        *)
(***************************************************************************)
EXTENDS Naturals, Sequences, FiniteSets, SequencesExt

CONSTANTS Torrents,  \* all of one info-hash, the sessions that interact most
          Port,      \* torrent -> its announce port, 0: a pure lookup
          Mailbox,   \* DHT_SESSION_MAILBOX
          MaxLives   \* bound: how often torrents are created

ASSUME SessionAssumption == /\ "free" \notin Torrents
                            /\ Port \in [Torrents -> Nat]
                            /\ Mailbox \in Nat \ {0}
                            /\ MaxLives \in Nat

VARIABLES dht,   \* g_dht, the vendored engine's state and the cache file
          tor    \* torrent -> its thread, its session, its workers: worker is
                 \* announce_worker's progress, upnp: is upnp_worker running?

sessionVars == <<dht, tor>>

Dead == [pc |-> "none", attached |-> FALSE, mailbox |-> 0, due |-> FALSE,
         active |-> FALSE, mutex |-> FALSE, worker |-> "none", upnp |-> FALSE]

SessionInit ==
  /\ dht = [lock |-> "free", refcount |-> 0, sessions |-> <<>>, stop |-> FALSE,
            engine |-> "off", jech |-> FALSE, bootstrapped |-> FALSE,
            port |-> 0, cache |-> "none", lives |-> 0]
  /\ tor = [t \in Torrents |-> Dead]

At(t, pc) == tor[t].pc = pc
Go(t, pc) == [tor EXCEPT ![t].pc = pc]
Capped(n) == IF n > Mailbox THEN Mailbox ELSE n

----------------------------------------------------------------------------
(* torrent_create_ex.                                                      *)

Create(t) ==
  /\ At(t, "none") /\ dht.lives < MaxLives
  /\ tor' = Go(t, "attach")
  /\ dht' = [dht EXCEPT !.lives = @ + 1]

\* dht_engine_start: the vendored state is initialised, the stop flag is
\* cleared, the engine thread starts.
EngineStarted == [dht EXCEPT !.jech = TRUE, !.stop = FALSE, !.engine = "top",
                             !.bootstrapped = FALSE]

\* dht_attach takes lifecycle_mu; the first session starts the engine.
Attach(t) ==
  /\ At(t, "attach") /\ dht.lock = "free"
  /\ \E g \in {IF dht.refcount = 0 THEN EngineStarted ELSE dht} :
       dht' = [g EXCEPT !.lock = t, !.refcount = @ + 1]
  /\ tor' = Go(t, "link")

\* No memory, no socket, no thread: the torrent goes on without a session.
AttachFails(t) ==
  /\ At(t, "attach") /\ dht.lock = "free"
  /\ tor' = Go(t, "start")
  /\ UNCHANGED dht

\* The rest of dht_attach: the session is linked and its search is issued; the
\* local storage may answer at once, to every session of the hash.
Link(t) ==
  /\ At(t, "link")
  /\ dht' = [dht EXCEPT !.sessions = <<t>> \o @, !.port = Port[t], !.lock = "free"]
  /\ \E n \in {0, Mailbox} :
       tor' = [u \in Torrents |->
                 IF u = t THEN [tor[t] EXCEPT !.pc = "start", !.attached = TRUE,
                                              !.due = TRUE, !.mailbox = n]
                 ELSE IF u \in ToSet(dht.sessions)
                 THEN [tor[u] EXCEPT !.mailbox = Capped(@ + n)]
                 ELSE tor[u]]

\* announce_start: nothing while an announce is in flight; inline when there is
\* no mutex or no thread.
AnnounceStart(r) ==
  {r} \cup (IF r.active \/ ~r.mutex THEN {}
            ELSE {[r EXCEPT !.active = TRUE, !.worker = "calling"]})

\* The workers start; the first announce goes out.
Start(t) ==
  /\ At(t, "start")
  /\ \E mutex, upnp \in BOOLEAN :
       \E r \in AnnounceStart([tor[t] EXCEPT !.pc = "tick", !.mutex = mutex, !.upnp = upnp]) :
         tor' = [tor EXCEPT ![t] = r]
  /\ UNCHANGED dht

----------------------------------------------------------------------------
(* torrent_tick, and the workers.                                          *)

\* dht_session_poll takes a batch out of the mailbox.
Polled(r) == [r EXCEPT !.mailbox = IF r.attached /\ @ > 0 THEN @ - 1 ELSE @]

\* announce_collect: a finished worker is joined and its results are queued.
Collected(r) == IF r.active /\ r.worker = "published"
                THEN [r EXCEPT !.active = FALSE, !.worker = "none"] ELSE r

\* One tick: the mailbox is polled, a finished announce is collected, the next
\* one starts if it is due.
Tick(t) ==
  /\ At(t, "tick")
  /\ \E r \in {Collected(Polled(tor[t]))} :
       \E s \in AnnounceStart(r) : tor' = [tor EXCEPT ![t] = s]
  /\ UNCHANGED dht

\* announce_worker: the call returns (a tracker answered, the list is exhausted
\* or announce_stop cancelled it) and the results are published.
Publish(t) ==
  /\ tor[t].worker = "calling"
  /\ tor' = [tor EXCEPT ![t].worker = "published"]
  /\ UNCHANGED dht

\* upnp_worker ends, with or without a mapping.
UpnpDone(t) ==
  /\ tor[t].upnp
  /\ tor' = [tor EXCEPT ![t].upnp = FALSE]
  /\ UNCHANGED dht

\* 60 s after its last search a session is due again.
SearchDue(t) ==
  /\ t \in ToSet(dht.sessions) /\ ~tor[t].due
  /\ tor' = [tor EXCEPT ![t].due = TRUE]
  /\ UNCHANGED dht

----------------------------------------------------------------------------
(* torrent_destroy.                                                        *)

\* An announce in flight is told to give up: announce_stop is set from here on.
Destroy(t) ==
  /\ At(t, "tick")
  /\ tor' = Go(t, "joining")
  /\ UNCHANGED dht

\* Mutant: the mutex is destroyed without joining the worker.
JoinAnnounceNot(t) ==
  /\ At(t, "joining")
  /\ tor' = [tor EXCEPT ![t].pc = "unmap", ![t].active = FALSE, ![t].mutex = FALSE]
  /\ UNCHANGED dht

\* The worker is joined and the mutex destroyed.
JoinAnnounce(t) ==
  /\ At(t, "joining") /\ tor[t].worker # "calling"
  /\ tor' = [tor EXCEPT ![t].pc = "unmap", ![t].active = FALSE,
                        ![t].worker = "none", ![t].mutex = FALSE]
  /\ UNCHANGED dht

\* The UPnP worker is joined; a mapping it made is removed.
JoinUpnp(t) ==
  /\ At(t, "unmap") /\ ~tor[t].upnp
  /\ tor' = Go(t, IF tor[t].attached THEN "detach" ELSE "free")
  /\ UNCHANGED dht

\* Mutant: the engine is joined without being told to stop.
DetachWithoutStop(t) ==
  /\ At(t, "detach") /\ dht.lock = "free"
  /\ \E last \in {dht.refcount = 1} :
       /\ dht' = [dht EXCEPT !.sessions = RemoveFirst(@, t),
                             !.refcount = @ - 1,
                             !.lock = IF last THEN t ELSE @]
       /\ tor' = Go(t, IF last THEN "stopping" ELSE "free")

\* dht_detach: the session is unlinked; the last one stops the engine and keeps
\* lifecycle_mu.
Detach(t) ==
  /\ At(t, "detach") /\ dht.lock = "free"
  /\ \E last \in {dht.refcount = 1} :
       /\ dht' = [dht EXCEPT !.sessions = RemoveFirst(@, t),
                             !.refcount = @ - 1,
                             !.stop = @ \/ last,
                             !.lock = IF last THEN t ELSE @]
       /\ tor' = Go(t, IF last THEN "stopping" ELSE "free")

\* dht_cache_write keeps the old file (nothing to save, the temporary file
\* cannot be written), replaces it, or loses it (the second rename fails after
\* the old file was removed).
CacheAfterSave == {dht.cache, "saved", "none"}

\* dht_engine_stop: the thread is joined, the nodes are saved, the vendored
\* state is released.
EngineStop(t) ==
  /\ At(t, "stopping") /\ dht.engine = "exited"
  /\ \E c \in CacheAfterSave :
       dht' = [dht EXCEPT !.engine = "off", !.jech = FALSE, !.cache = c, !.lock = "free"]
  /\ tor' = Go(t, "free")

\* Peers, libutp, piece manager and storage go; the torrent is freed.
Free(t) ==
  /\ At(t, "free")
  /\ tor' = [tor EXCEPT ![t] = Dead]
  /\ UNCHANGED dht

----------------------------------------------------------------------------
(* dht_thread_main.                                                        *)

EngineTop ==
  /\ dht.engine = "top"
  /\ dht' = [dht EXCEPT !.engine = IF dht.stop THEN "exited"
                                   ELSE IF dht.bootstrapped THEN "pass" ELSE "ping"]
  /\ UNCHANGED tor

\* dht_bootstrap_ping, after the names were resolved without the lock.
EnginePing ==
  /\ dht.engine \in {"ping", "reping"}
  /\ dht' = [dht EXCEPT !.bootstrapped = TRUE,
                        !.engine = IF @ = "ping" THEN "pass" ELSE "top"]
  /\ UNCHANGED tor

\* Mutant: the test of the announce port is inverted.
CoveredInverted(t) == Port[t] # 0 /\ \E u \in ToSet(dht.sessions) \ {t} : Port[u] = 0

\* A lookup session rides on the search of an announcing one.
Covered(t) == Port[t] = 0 /\ \E u \in ToSet(dht.sessions) \ {t} : Port[u] # 0

\* Due sessions whose search is issued again, in list order.
Researched == SelectSeq(dht.sessions, LAMBDA u : tor[u].due /\ ~Covered(u))

\* One pass under jech_mu: datagrams and timers deliver peers to every session
\* (dht_callback; a full mailbox drops the newest), due searches are issued
\* again, and a table without good nodes asks for another bootstrap.
EnginePass ==
  /\ dht.engine = "pass"
  /\ \E n \in 0 .. Mailbox, next \in {"top", "reping"} :
       /\ dht' = [dht EXCEPT !.engine = next,
                             !.port = IF Researched = <<>> THEN @ ELSE Port[Last(Researched)]]
       /\ tor' = [u \in Torrents |->
                    IF u \in ToSet(dht.sessions)
                    THEN [tor[u] EXCEPT !.due = FALSE, !.mailbox = Capped(@ + n)]
                    ELSE tor[u]]

----------------------------------------------------------------------------
Lifecycle(t) == \/ Create(t) \/ Attach(t) \/ AttachFails(t) \/ Link(t) \/ Start(t)
                \/ Tick(t) \/ Destroy(t) \/ JoinAnnounce(t) \/ JoinUpnp(t)
                \/ Detach(t) \/ EngineStop(t) \/ Free(t)

Workers(t) == Publish(t) \/ UpnpDone(t) \/ SearchDue(t)

Engine == EngineTop \/ EnginePing \/ EnginePass

SessionNext == \/ \E t \in Torrents : Lifecycle(t) \/ Workers(t)
               \/ Engine

SessionSpec == SessionInit /\ [][SessionNext]_sessionVars

\* Every thread runs: the engine and the workers come back from their calls
\* (all have timeouts), a lock holder goes on, and a started destroy proceeds
\* when nothing blocks it.  When a torrent is created or destroyed is free.
SessionFairness ==
  /\ []<>(dht.engine \notin {"ping", "reping", "pass"})
  /\ []<>~(dht.engine = "top" /\ dht.stop)
  /\ \A t \in Torrents :
       /\ []<>(tor[t].worker # "calling")
       /\ []<>~tor[t].upnp
       /\ []<>~(At(t, "attach") /\ dht.lock = "free")
       /\ []<>~At(t, "link")
       /\ []<>~At(t, "start")
       /\ []<>~(At(t, "joining") /\ tor[t].worker # "calling")
       /\ []<>~(At(t, "unmap") /\ ~tor[t].upnp)
       /\ []<>~(At(t, "detach") /\ dht.lock = "free")
       /\ []<>~(At(t, "stopping") /\ dht.engine = "exited")
       /\ []<>~At(t, "free")

\* A session is due a minute after its last search.
SearchesComeDue == \A t \in Torrents : []<>(t \in ToSet(dht.sessions) => tor[t].due)
                                       /\ []<>(dht.engine # "top")

----------------------------------------------------------------------------
(* Properties.                                                             *)

\* While nobody is inside dht_attach or dht_detach the reference count is the
\* number of linked sessions and the engine thread lives exactly while there are
\* any (core/dht.c, "refcount"); the thread never enters the vendored code
\* outside dht_init .. dht_uninit; the list holds only sessions that are not
\* freed; and no worker outlives the mutex or the torrent it writes to.
NothingOutlived ==
  /\ dht.lock = "free" => /\ dht.refcount = Len(dht.sessions)
                          /\ dht.engine # "off" <=> dht.refcount > 0
  /\ dht.engine # "off" => dht.jech
  /\ ToSet(dht.sessions) = {t \in Torrents : tor[t].attached /\
                              tor[t].pc \in {"start", "tick", "joining", "unmap", "detach"}}
  /\ IsInjective(dht.sessions)
  /\ \A t \in Torrents :
       /\ tor[t].worker # "none" => tor[t].mutex /\ tor[t].active
       /\ tor[t].upnp => tor[t].pc \in {"tick", "joining", "unmap"}

\* torrent_destroy always ends, whatever the engine, the workers and the other
\* torrents do: announce_stop and the stop flag of the engine are seen, and no
\* two locks wait for each other.
DestroyEnds ==
  \A t \in Torrents : At(t, "joining") ~> At(t, "none")

\* A lookup session that attaches overwrites the announce port of the search
\* (core/dht.c:424, where the sweep's comment promises not to clobber it); the
\* announcing session's next search puts its port back.
PortReturns ==
  \A t \in Torrents :
    Port[t] # 0 => (t \in ToSet(dht.sessions) ~> (dht.port # 0 \/ t \notin ToSet(dht.sessions)))
=============================================================================
