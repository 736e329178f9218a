---------------------------- MODULE SessionProofs ----------------------------
(***************************************************************************)
(* Proof of NothingOutlived for any number of torrents, announce ports and *)
(* mailbox sizes.                                                          *)
(*                                                                         *)
(* The invariant says nothing while lifecycle_mu is held, so it is not     *)
(* inductive: SessionInv adds what the holder is doing.  A thread in the   *)
(* middle of dht_attach has counted its session and not linked it yet; a   *)
(* thread in the middle of dht_engine_stop is the last one, with nothing   *)
(* counted and the engine still there; nobody else is inside either.       *)
(***************************************************************************)
EXTENDS Session, DataFacts

Pcs == {"none", "attach", "link", "start", "tick", "joining", "unmap", "detach",
        "stopping", "free"}

TorRec == [pc : Pcs, attached : BOOLEAN, mailbox : Nat, due : BOOLEAN, active : BOOLEAN,
           mutex : BOOLEAN, worker : {"none", "calling", "published"}, upnp : BOOLEAN]

\* The fields of g_dht.
Shaped(d) ==
  d = [lock |-> d.lock, refcount |-> d.refcount, sessions |-> d.sessions,
       stop |-> d.stop, engine |-> d.engine, jech |-> d.jech,
       bootstrapped |-> d.bootstrapped, port |-> d.port, cache |-> d.cache,
       lives |-> d.lives]

DhtShape == Shaped(dht)

SessionTypeOK ==
  /\ DhtShape
  /\ dht.lock \in Torrents \cup {"free"}
  /\ dht.refcount \in Nat
  /\ dht.sessions \in Seq(Torrents)
  /\ tor \in [Torrents -> TorRec]

\* The sessions on the list.
IsLinked(r) == r.attached /\ r.pc \in {"start", "tick", "joining", "unmap", "detach"}

ListInv == /\ ToSet(dht.sessions) = {t \in Torrents : IsLinked(tor[t])}
           /\ IsInjective(dht.sessions)

\* Inside dht_attach after the engine was started, or inside dht_engine_stop.
InLock(r) == r.pc \in {"link", "stopping"}

\* Who holds lifecycle_mu over several steps, and what is counted meanwhile.
LockInv ==
  /\ \A t \in Torrents : dht.lock = t <=> InLock(tor[t])
  /\ \A t \in Torrents : tor[t].pc = "link" => dht.refcount = Len(dht.sessions) + 1
  /\ \A t \in Torrents : tor[t].pc = "stopping" =>
       dht.refcount = 0 /\ Len(dht.sessions) = 0 /\ dht.engine # "off"
  /\ (\A t \in Torrents : ~InLock(tor[t])) => dht.refcount = Len(dht.sessions)
  /\ (\A t \in Torrents : tor[t].pc # "stopping") =>
       (dht.engine # "off" <=> dht.refcount > 0)
  /\ dht.engine # "off" => dht.jech

\* What a torrent's thread and workers may be doing at each point.
RecOK(r) ==
  /\ r.pc \in {"none", "attach", "link"} => ~r.attached
  /\ r.pc = "detach" => r.attached
  /\ r.worker # "none" => r.mutex /\ r.active /\ r.pc \in {"tick", "joining"}
  /\ r.upnp => r.pc \in {"tick", "joining", "unmap"}

WorkerInv == \A t \in Torrents : RecOK(tor[t])

SessionInv == SessionTypeOK /\ ListInv /\ LockInv /\ WorkerInv

LEMMA SessionInvInit == SessionInit => SessionInv
<1> SUFFICES ASSUME SessionInit PROVE SessionInv
  OBVIOUS
<1>1. Dead \in TorRec /\ RecOK(Dead) /\ ~IsLinked(Dead) /\ ~InLock(Dead) /\ Dead.pc = "none"
  BY DEF Dead, TorRec, Pcs, RecOK, IsLinked, InLock
<1>2. \A t \in Torrents : tor[t] = Dead
  BY DEF SessionInit
<1>3. SessionTypeOK
  BY <1>1 DEF SessionInit, SessionTypeOK, DhtShape, Shaped
<1>4. dht.sessions = <<>> /\ Len(dht.sessions) = 0 /\ ToSet(dht.sessions) = {}
      /\ IsInjective(dht.sessions)
  BY DEF SessionInit, ToSet, IsInjective
<1>5. ListInv
  BY <1>1, <1>2, <1>4 DEF ListInv
<1>6. LockInv
  BY <1>1, <1>2, <1>4, SessionAssumption DEF SessionInit, LockInv
<1>7. WorkerInv
  BY <1>1, <1>2 DEF WorkerInv
<1> QED
  BY <1>3, <1>5, <1>6, <1>7 DEF SessionInv

\* A thread goes on to its next point and does nothing else.
LEMMA GoForm ==
  ASSUME NEW f \in [Torrents -> TorRec], NEW t \in Torrents, NEW pc \in Pcs, NEW g,
         g = [f EXCEPT ![t].pc = pc]
  PROVE  /\ g \in [Torrents -> TorRec] /\ g = [f EXCEPT ![t] = [@ EXCEPT !.pc = pc]]
         /\ g[t].pc = pc /\ g[t].attached = f[t].attached /\ g[t].worker = f[t].worker
         /\ g[t].upnp = f[t].upnp /\ g[t].mutex = f[t].mutex /\ g[t].active = f[t].active
         /\ \A u \in Torrents : u # t => g[u] = f[u]
BY DEF TorRec

\* Steps of one thread or worker that neither take nor hold lifecycle_mu and
\* leave the list alone.
LEMMA PrivateStep ==
  ASSUME SessionInv, NEW t \in Torrents, NEW r \in TorRec,
         tor' = [tor EXCEPT ![t] = r],
         \/ UNCHANGED dht
         \/ dht' = [dht EXCEPT !.lives = @ + 1],
         ~InLock(tor[t]), ~InLock(r), IsLinked(r) <=> IsLinked(tor[t]), RecOK(r)
  PROVE  SessionInv'
<1>1. /\ UNCHANGED <<dht.lock, dht.refcount, dht.sessions, dht.engine, dht.jech>>
      /\ SessionTypeOK'
  BY DEF SessionInv, SessionTypeOK, DhtShape, Shaped
<1>2. tor'[t] = r /\ \A u \in Torrents : u # t => tor'[u] = tor[u]
  BY DEF SessionInv, SessionTypeOK, DhtShape, Shaped
<1>3. ListInv'
  BY <1>1, <1>2 DEF SessionInv, ListInv
<1>4. LockInv'
  BY <1>1, <1>2 DEF SessionInv, LockInv, InLock
<1>5. WorkerInv'
  BY <1>1, <1>2 DEF SessionInv, WorkerInv
<1> QED
  BY <1>1, <1>3, <1>4, <1>5 DEF SessionInv

\* Steps that only change mailboxes and search timers, and an engine that is
\* running before and after.
LEMMA EngineKeepsAll ==
  ASSUME SessionInv, dht.engine # "off", dht'.engine # "off",
         UNCHANGED <<dht.lock, dht.refcount, dht.sessions, dht.jech>>,
         SessionTypeOK',
         \A u \in Torrents : /\ tor'[u].pc = tor[u].pc
                             /\ tor'[u].attached = tor[u].attached
                             /\ tor'[u].active = tor[u].active
                             /\ tor'[u].mutex = tor[u].mutex
                             /\ tor'[u].worker = tor[u].worker
                             /\ tor'[u].upnp = tor[u].upnp
  PROVE  SessionInv'
<1>1. ListInv'
  BY DEF SessionInv, ListInv, IsLinked
<1>2. LockInv'
  BY DEF SessionInv, LockInv, InLock
<1>3. WorkerInv'
  BY DEF SessionInv, WorkerInv, RecOK
<1> QED
  BY <1>1, <1>2, <1>3 DEF SessionInv

LEMMA AnnounceStartKeeps ==
  ASSUME NEW r \in TorRec, RecOK(r), r.pc = "tick", NEW s \in AnnounceStart(r)
  PROVE  s \in TorRec /\ RecOK(s) /\ s.pc = "tick" /\ s.attached = r.attached
BY DEF AnnounceStart, TorRec, Pcs, RecOK
----------------------------------------------------------------------------
(* dht_attach and dht_detach.                                              *)

\* Nobody holds the lock, so nobody is inside.
LEMMA FreeLock ==
  ASSUME SessionInv, dht.lock = "free"
  PROVE  /\ \A t \in Torrents : ~InLock(tor[t])
         /\ dht.refcount = Len(dht.sessions)
         /\ dht.engine # "off" <=> dht.refcount > 0
<1>1. \A t \in Torrents : ~InLock(tor[t])
  BY SessionAssumption DEF SessionInv, LockInv
<1>2. \A t \in Torrents : tor[t].pc # "stopping"
  BY <1>1 DEF InLock
<1> QED
  BY <1>1, <1>2 DEF SessionInv, LockInv

LEMMA StartedForm ==
  ASSUME NEW d, Shaped(d), NEW e,
         e = [d EXCEPT !.jech = TRUE, !.stop = FALSE, !.engine = "top",
                       !.bootstrapped = FALSE]
  PROVE  /\ e.refcount = d.refcount /\ e.sessions = d.sessions
         /\ e.engine = "top" /\ e.jech /\ Shaped(e)
BY DEF Shaped

LEMMA AttachKeeps == ASSUME SessionInv, NEW t \in Torrents, Attach(t) PROVE SessionInv'
<1> USE DEF SessionInv
<1>1. /\ \A u \in Torrents : ~InLock(tor[u])
      /\ dht.refcount = Len(dht.sessions)
      /\ dht.engine # "off" <=> dht.refcount > 0
  BY FreeLock DEF Attach
<1>2. /\ tor[t].pc = "attach" /\ tor'[t] = [tor[t] EXCEPT !.pc = "link"]
      /\ \A u \in Torrents : u # t => tor'[u] = tor[u]
  BY DEF Attach, At, Go, SessionTypeOK
<1>3. /\ dht'.lock = t /\ dht'.refcount = dht.refcount + 1
      /\ dht'.sessions = dht.sessions
      /\ dht'.engine # "off" /\ dht'.jech
      /\ DhtShape'
  <2>1. CASE dht.refcount = 0
    <3> DEFINE g == EngineStarted
    <3>1. dht' = [g EXCEPT !.lock = t, !.refcount = @ + 1]
      BY <2>1 DEF Attach
    <3>2. /\ g.refcount = dht.refcount /\ g.sessions = dht.sessions
          /\ g.engine = "top" /\ g.jech /\ Shaped(g)
      BY StartedForm DEF EngineStarted, SessionTypeOK, DhtShape
    <3> HIDE DEF g
    <3> QED
      BY <3>1, <3>2 DEF DhtShape, Shaped
  <2>2. CASE dht.refcount # 0
    <3>1. dht' = [dht EXCEPT !.lock = t, !.refcount = @ + 1]
      BY <2>2 DEF Attach
    <3>2. dht.engine # "off" /\ dht.jech
      BY <1>1, <2>2 DEF LockInv, SessionTypeOK
    <3> QED
      BY <3>1, <3>2 DEF SessionTypeOK, DhtShape, Shaped
  <2> QED
    BY <2>1, <2>2
<1>4. SessionTypeOK'
  <2>1. tor' \in [Torrents -> TorRec]
    BY DEF Attach, Go, SessionTypeOK, TorRec, Pcs
  <2> QED
    BY <1>3, <2>1 DEF SessionTypeOK
<1>5. tor'[t].pc = "link" /\ tor'[t].attached = tor[t].attached /\ tor'[t].worker = tor[t].worker
      /\ tor'[t].upnp = tor[t].upnp
  BY <1>2 DEF SessionTypeOK, TorRec
<1>6. ListInv'
  <2>1. \A u \in Torrents : IsLinked(tor'[u]) <=> IsLinked(tor[u])
    BY <1>2, <1>5 DEF IsLinked
  <2> QED
    BY <1>3, <2>1 DEF ListInv
<1>7. LockInv'
  <2>1. Len(dht.sessions) \in Nat /\ dht.refcount \in Nat
    BY DEF SessionTypeOK
  <2>2. \A u \in Torrents : u # t => ~InLock(tor'[u])
    BY <1>1, <1>2
  <2> QED
    BY <1>1, <1>3, <1>5, <2>1, <2>2 DEF LockInv, InLock
<1>8. WorkerInv'
  BY <1>2, <1>5 DEF WorkerInv, RecOK
<1> QED
  BY <1>4, <1>6, <1>7, <1>8

LEMMA LinkKeeps == ASSUME SessionInv, NEW t \in Torrents, Link(t) PROVE SessionInv'
<1> USE DEF SessionInv
<1>1. /\ dht.lock = t /\ tor[t].pc = "link" /\ dht.refcount = Len(dht.sessions) + 1
      /\ \A u \in Torrents : u # t => ~InLock(tor[u])
  BY DEF Link, At, LockInv, InLock
<1>2. t \notin ToSet(dht.sessions)
  BY <1>1 DEF ListInv, IsLinked
<1>3. /\ dht'.sessions \in Seq(Torrents) /\ Len(dht'.sessions) = Len(dht.sessions) + 1
      /\ ToSet(dht'.sessions) = ToSet(dht.sessions) \cup {t}
      /\ IsInjective(dht'.sessions)
  <2>1. dht'.sessions = <<t>> \o dht.sessions
    BY DEF Link, SessionTypeOK, DhtShape, Shaped
  <2> QED
    BY <1>2, <2>1, PrependForm DEF SessionTypeOK, ListInv
<1>4. /\ dht'.lock = "free" /\ dht'.refcount = dht.refcount
      /\ dht'.engine = dht.engine /\ dht'.jech = dht.jech
      /\ DhtShape'
  BY DEF Link, SessionTypeOK, DhtShape, Shaped
<1>5. /\ tor' \in [Torrents -> TorRec]
      /\ tor'[t].pc = "start" /\ tor'[t].attached /\ tor'[t].worker = tor[t].worker
      /\ tor'[t].upnp = tor[t].upnp
      /\ \A u \in Torrents : u # t => /\ tor'[u].pc = tor[u].pc
                             /\ tor'[u].attached = tor[u].attached
                             /\ tor'[u].active = tor[u].active
                             /\ tor'[u].mutex = tor[u].mutex
                             /\ tor'[u].worker = tor[u].worker
                             /\ tor'[u].upnp = tor[u].upnp
  <2>1. PICK n \in {0, Mailbox} :
          tor' = [u \in Torrents |->
                 IF u = t THEN [tor[t] EXCEPT !.pc = "start", !.attached = TRUE,
                                              !.due = TRUE, !.mailbox = n]
                 ELSE IF u \in ToSet(dht.sessions)
                 THEN [tor[u] EXCEPT !.mailbox = Capped(@ + n)]
                 ELSE tor[u]]
    BY DEF Link
  <2>2. n \in Nat /\ \A m \in Nat : Capped(m + n) \in Nat
    BY SessionAssumption DEF Capped
  <2>3. tor \in [Torrents -> TorRec]
    BY DEF SessionTypeOK
  <2>4. ASSUME NEW u \in Torrents, u # t
        PROVE  /\ tor'[u] \in TorRec
               /\ tor'[u].pc = tor[u].pc
               /\ tor'[u].attached = tor[u].attached
               /\ tor'[u].active = tor[u].active
               /\ tor'[u].mutex = tor[u].mutex
               /\ tor'[u].worker = tor[u].worker
               /\ tor'[u].upnp = tor[u].upnp
    BY <2>1, <2>2, <2>3, <2>4 DEF TorRec
  <2>5. /\ tor'[t] \in TorRec
        /\ tor'[t].pc = "start" /\ tor'[t].attached /\ tor'[t].worker = tor[t].worker
        /\ tor'[t].upnp = tor[t].upnp
    BY <2>1, <2>2, <2>3 DEF TorRec, Pcs
  <2>6. tor' \in [Torrents -> TorRec]
    BY <2>1, <2>4, <2>5
  <2> QED
    BY <2>4, <2>5, <2>6
<1>6. SessionTypeOK'
  BY <1>3, <1>4, <1>5 DEF SessionTypeOK
<1>7. ListInv'
  BY <1>3, <1>5 DEF ListInv, IsLinked
<1>8. LockInv'
  <2>1. Len(dht.sessions) \in Nat /\ dht.refcount \in Nat
    BY DEF SessionTypeOK
  <2>2. \A u \in Torrents : ~InLock(tor'[u])
    BY <1>1, <1>5 DEF InLock
  <2>3. \A u \in Torrents : tor[u].pc # "stopping"
    BY <1>1 DEF InLock
  <2>4. \A u \in Torrents : tor'[u].pc \notin {"link", "stopping"}
    BY <2>2 DEF InLock
  <2> QED
    BY <1>1, <1>3, <1>4, <2>1, <2>2, <2>3, <2>4, SessionAssumption DEF LockInv
<1>9. WorkerInv'
  <2>1. RecOK(tor[t]) /\ \A u \in Torrents : RecOK(tor[u])
    BY DEF WorkerInv
  <2> QED
    BY <1>1, <1>5, <2>1 DEF WorkerInv, RecOK
<1> QED
  BY <1>6, <1>7, <1>8, <1>9

LEMMA DetachKeeps == ASSUME SessionInv, NEW t \in Torrents, Detach(t) PROVE SessionInv'
<1> USE DEF SessionInv
<1> DEFINE last == dht.refcount = 1
<1>1. /\ \A u \in Torrents : ~InLock(tor[u])
      /\ dht.refcount = Len(dht.sessions)
      /\ dht.engine # "off" <=> dht.refcount > 0
  BY FreeLock DEF Detach
<1>2. t \in ToSet(dht.sessions)
  BY DEF Detach, At, WorkerInv, RecOK, ListInv, IsLinked
<1>3. /\ dht'.sessions \in Seq(Torrents) /\ Len(dht'.sessions) = Len(dht.sessions) - 1
      /\ ToSet(dht'.sessions) = ToSet(dht.sessions) \ {t}
      /\ IsInjective(dht'.sessions)
  <2>1. dht'.sessions = RemoveFirst(dht.sessions, t)
    BY DEF Detach, SessionTypeOK, DhtShape, Shaped
  <2> QED
    BY <1>2, <2>1, RemoveFirstForm DEF SessionTypeOK, ListInv
<1>4. Len(dht.sessions) \in Nat \ {0} /\ dht.refcount \in Nat
  <2>1. dht.sessions \in Seq(Torrents) /\ dht.sessions # <<>>
    BY <1>2 DEF ToSet, SessionTypeOK
  <2> QED
    BY <2>1 DEF SessionTypeOK
<1>5. /\ dht'.lock = IF last THEN t ELSE "free"
      /\ dht'.refcount = dht.refcount - 1
      /\ dht'.engine = dht.engine /\ dht'.jech = dht.jech
      /\ DhtShape'
  BY DEF Detach, SessionTypeOK, DhtShape, Shaped
<1>6. /\ tor' = [tor EXCEPT ![t].pc = IF last THEN "stopping" ELSE "free"]
      /\ tor[t].pc = "detach"
  BY DEF Detach, Go, At
<1>7. /\ tor' \in [Torrents -> TorRec]
      /\ tor'[t].pc = IF last THEN "stopping" ELSE "free"
      /\ tor'[t].attached = tor[t].attached /\ tor'[t].worker = tor[t].worker
      /\ tor'[t].upnp = tor[t].upnp
      /\ \A u \in Torrents : u # t => tor'[u] = tor[u]
  <2>1. (IF last THEN "stopping" ELSE "free") \in Pcs
    BY DEF Pcs
  <2> QED
    BY <1>6, <2>1, GoForm DEF SessionTypeOK
<1>8. SessionTypeOK'
  BY <1>1, <1>3, <1>4, <1>5, <1>7 DEF SessionTypeOK
<1>9. ListInv'
  BY <1>3, <1>7 DEF ListInv, IsLinked
<1>10. LockInv'
  <2>1. \A u \in Torrents : u # t => ~InLock(tor'[u])
    BY <1>1, <1>7
  <2>2. CASE last
    BY <1>1, <1>3, <1>4, <1>5, <1>7, <2>1, <2>2 DEF LockInv, InLock
  <2>3. CASE ~last
    <3>1. \A u \in Torrents : ~InLock(tor'[u])
      BY <1>7, <2>1, <2>3 DEF InLock
    <3>2. \A u \in Torrents : tor'[u].pc \notin {"link", "stopping"}
      BY <3>1 DEF InLock
    <3>3. dht.refcount > 1
      <4>1. dht.refcount # 1 /\ dht.refcount \in Nat /\ dht.refcount # 0
        BY <1>1, <1>4, <2>3
      <4> QED
        BY <4>1
    <3> QED
      BY <1>1, <1>3, <1>4, <1>5, <2>3, <3>1, <3>2, <3>3, SessionAssumption DEF LockInv
  <2> QED
    BY <2>2, <2>3
<1>11. WorkerInv'
  BY <1>6, <1>7 DEF WorkerInv, RecOK
<1> QED
  BY <1>8, <1>9, <1>10, <1>11

LEMMA EngineStopKeeps == ASSUME SessionInv, NEW t \in Torrents, EngineStop(t) PROVE SessionInv'
<1> USE DEF SessionInv
<1>1. /\ dht.lock = t /\ tor[t].pc = "stopping"
      /\ dht.refcount = 0 /\ Len(dht.sessions) = 0
      /\ \A u \in Torrents : u # t => ~InLock(tor[u])
  BY DEF EngineStop, At, LockInv, InLock
<1>2. /\ dht'.lock = "free" /\ dht'.refcount = 0 /\ dht'.sessions = dht.sessions
      /\ dht'.engine = "off"
      /\ DhtShape'
  BY <1>1 DEF EngineStop, SessionTypeOK, DhtShape, Shaped
<1>3. /\ tor' \in [Torrents -> TorRec] /\ tor'[t].pc = "free"
      /\ tor'[t].attached = tor[t].attached /\ tor'[t].worker = tor[t].worker
      /\ tor'[t].upnp = tor[t].upnp
      /\ \A u \in Torrents : u # t => tor'[u] = tor[u]
  <2>1. "free" \in Pcs /\ tor' = [tor EXCEPT ![t].pc = "free"]
    BY DEF Pcs, EngineStop, Go
  <2> QED
    BY <2>1, GoForm DEF SessionTypeOK
<1>4. SessionTypeOK'
  BY <1>2, <1>3 DEF SessionTypeOK
<1>5. ListInv'
  BY <1>1, <1>2, <1>3 DEF ListInv, IsLinked
<1>6. LockInv'
  <2>1. \A u \in Torrents : ~InLock(tor'[u]) /\ tor'[u].pc \notin {"link", "stopping"}
    BY <1>1, <1>3 DEF InLock
  <2> QED
    BY <1>1, <1>2, <2>1, SessionAssumption DEF LockInv
<1>7. WorkerInv'
  BY <1>1, <1>3 DEF WorkerInv, RecOK
<1> QED
  BY <1>4, <1>5, <1>6, <1>7
----------------------------------------------------------------------------
(* The steps of the engine, and of one thread or worker.                   *)

LEMMA EngineKeeps == ASSUME SessionInv, Engine PROVE SessionInv'
<1> USE DEF SessionInv
<1>1. CASE EngineTop
  <2>1. /\ UNCHANGED <<dht.lock, dht.refcount, dht.sessions, dht.jech, tor>>
        /\ dht.engine # "off" /\ dht'.engine # "off" /\ DhtShape'
    BY <1>1 DEF EngineTop, SessionTypeOK, DhtShape, Shaped
  <2> QED
    BY <2>1, EngineKeepsAll DEF SessionTypeOK
<1>2. CASE EnginePing
  <2>1. /\ UNCHANGED <<dht.lock, dht.refcount, dht.sessions, dht.jech, tor>>
        /\ dht.engine # "off" /\ dht'.engine # "off" /\ DhtShape'
    BY <1>2 DEF EnginePing, SessionTypeOK, DhtShape, Shaped
  <2> QED
    BY <2>1, EngineKeepsAll DEF SessionTypeOK
<1>3. CASE EnginePass
  <2>1. PICK n \in 0 .. Mailbox, next \in {"top", "reping"} :
          /\ dht' = [dht EXCEPT !.engine = next,
                             !.port = IF Researched = <<>> THEN @ ELSE Port[Last(Researched)]]
          /\ tor' = [u \in Torrents |->
                    IF u \in ToSet(dht.sessions)
                    THEN [tor[u] EXCEPT !.due = FALSE, !.mailbox = Capped(@ + n)]
                    ELSE tor[u]]
    BY <1>3 DEF EnginePass
  <2>2. /\ UNCHANGED <<dht.lock, dht.refcount, dht.sessions, dht.jech>>
        /\ dht.engine # "off" /\ dht'.engine # "off" /\ DhtShape'
    BY <1>3, <2>1 DEF EnginePass, SessionTypeOK, DhtShape, Shaped
  <2>3. n \in Nat /\ \A m \in Nat : Capped(m + n) \in Nat
    BY SessionAssumption DEF Capped
  <2>4. ASSUME NEW u \in Torrents
        PROVE  /\ tor'[u] \in TorRec
               /\ tor'[u].pc = tor[u].pc
               /\ tor'[u].attached = tor[u].attached
               /\ tor'[u].active = tor[u].active
               /\ tor'[u].mutex = tor[u].mutex
               /\ tor'[u].worker = tor[u].worker
               /\ tor'[u].upnp = tor[u].upnp
    <3>1. tor[u] \in TorRec
      BY DEF SessionTypeOK
    <3> QED
      BY <2>1, <2>3, <3>1 DEF TorRec
  <2>5. tor' \in [Torrents -> TorRec]
    BY <2>1, <2>4
  <2>6. SessionTypeOK'
    BY <2>2, <2>5 DEF SessionTypeOK
  <2> QED
    BY <2>2, <2>4, <2>6, EngineKeepsAll
<1> QED
  BY <1>1, <1>2, <1>3 DEF Engine

\* A thread goes on to its next point, outside lifecycle_mu and without
\* touching the list.
LEMMA GoKeeps ==
  ASSUME SessionInv, NEW t \in Torrents, NEW pc \in Pcs, tor' = Go(t, pc),
         \/ UNCHANGED dht
         \/ dht' = [dht EXCEPT !.lives = @ + 1],
         ~InLock(tor[t]), pc \notin {"link", "stopping"},
         ~IsLinked(tor[t]) => ~(tor[t].attached /\
                                pc \in {"start", "tick", "joining", "unmap", "detach"}),
         IsLinked(tor[t]) => pc \in {"start", "tick", "joining", "unmap", "detach"},
         RecOK([tor[t] EXCEPT !.pc = pc])
  PROVE  SessionInv'
<1> DEFINE r == [tor[t] EXCEPT !.pc = pc]
<1>1. tor[t] \in TorRec
  BY DEF SessionInv, SessionTypeOK
<1>2. r \in TorRec /\ r.pc = pc /\ r.attached = tor[t].attached
  BY <1>1 DEF TorRec
<1>3. tor' = [tor EXCEPT ![t] = r]
  BY DEF Go, SessionInv, SessionTypeOK
<1>4. ~InLock(r) /\ (IsLinked(r) <=> IsLinked(tor[t]))
  BY <1>2 DEF InLock, IsLinked
<1> HIDE DEF r
<1>5. RecOK(r)
  BY DEF r
<1> QED
  BY <1>2, <1>3, <1>4, <1>5, PrivateStep

LEMMA StepKeeps ==
  ASSUME SessionInv, NEW t \in Torrents, Lifecycle(t) \/ Workers(t) PROVE SessionInv'
<1>1. /\ tor[t] \in TorRec /\ RecOK(tor[t])
      /\ t \in ToSet(dht.sessions) <=> IsLinked(tor[t])
  BY DEF SessionInv, SessionTypeOK, WorkerInv, ListInv
<1>2. CASE Create(t)
  <2>1. /\ tor' = Go(t, "attach") /\ tor[t].pc = "none" /\ "attach" \in Pcs
        /\ dht' = [dht EXCEPT !.lives = @ + 1]
    BY <1>2 DEF Create, At, Pcs
  <2>2. RecOK([tor[t] EXCEPT !.pc = "attach"]) /\ ~InLock(tor[t]) /\ ~tor[t].attached
        /\ ~IsLinked(tor[t])
    BY <1>1, <2>1 DEF TorRec, RecOK, InLock, IsLinked
  <2> QED
    BY <2>1, <2>2, GoKeeps
<1>3. CASE AttachFails(t)
  <2>1. /\ tor' = Go(t, "start") /\ tor[t].pc = "attach" /\ "start" \in Pcs
        /\ UNCHANGED dht
    BY <1>3 DEF AttachFails, At, Pcs
  <2>2. RecOK([tor[t] EXCEPT !.pc = "start"]) /\ ~InLock(tor[t]) /\ ~tor[t].attached
        /\ ~IsLinked(tor[t])
    BY <1>1, <2>1 DEF TorRec, RecOK, InLock, IsLinked
  <2> QED
    BY <2>1, <2>2, GoKeeps
<1>4. CASE Start(t)
  <2>1. PICK mutex \in BOOLEAN, upnp \in BOOLEAN :
          \E r \in AnnounceStart([tor[t] EXCEPT !.pc = "tick", !.mutex = mutex, !.upnp = upnp]) :
            tor' = [tor EXCEPT ![t] = r]
    BY <1>4 DEF Start
  <2> DEFINE q == [tor[t] EXCEPT !.pc = "tick", !.mutex = mutex, !.upnp = upnp]
  <2>2. tor[t].pc = "start" /\ UNCHANGED dht
    BY <1>4 DEF Start, At
  <2>3. q \in TorRec /\ RecOK(q) /\ q.pc = "tick" /\ q.attached = tor[t].attached
    BY <1>1, <2>2 DEF TorRec, Pcs, RecOK
  <2>4. PICK r \in AnnounceStart(q) : tor' = [tor EXCEPT ![t] = r]
    BY <2>1
  <2> HIDE DEF q
  <2>5. r \in TorRec /\ RecOK(r) /\ r.pc = "tick" /\ r.attached = tor[t].attached
    BY <2>3, AnnounceStartKeeps
  <2>6. ~InLock(tor[t]) /\ ~InLock(r) /\ (IsLinked(r) <=> IsLinked(tor[t]))
    BY <2>2, <2>5 DEF InLock, IsLinked
  <2> QED
    BY <2>2, <2>4, <2>5, <2>6, PrivateStep
<1>5. CASE Tick(t)
  <2>1. tor[t].pc = "tick" /\ UNCHANGED dht
    BY <1>5 DEF Tick, At
  <2> DEFINE p == Polled(tor[t])
             q == Collected(p)
  <2>2. p \in TorRec /\ RecOK(p) /\ p.pc = "tick" /\ p.attached = tor[t].attached
    BY <1>1, <2>1 DEF TorRec, RecOK, Polled
  <2>3. PICK s \in AnnounceStart(q) : tor' = [tor EXCEPT ![t] = s]
    BY <1>5 DEF Tick
  <2> HIDE DEF p
  <2>4. q \in TorRec /\ RecOK(q) /\ q.pc = "tick" /\ q.attached = tor[t].attached
    BY <2>2 DEF TorRec, RecOK, Collected
  <2> HIDE DEF q
  <2>5. s \in TorRec /\ RecOK(s) /\ s.pc = "tick" /\ s.attached = tor[t].attached
    BY <2>3, <2>4, AnnounceStartKeeps
  <2>6. ~InLock(tor[t]) /\ ~InLock(s) /\ (IsLinked(s) <=> IsLinked(tor[t]))
    BY <2>1, <2>5 DEF InLock, IsLinked
  <2> QED
    BY <2>1, <2>3, <2>5, <2>6, PrivateStep
<1>6. CASE Destroy(t)
  <2>1. /\ tor' = Go(t, "joining") /\ tor[t].pc = "tick" /\ "joining" \in Pcs
        /\ UNCHANGED dht
    BY <1>6 DEF Destroy, At, Pcs
  <2>2. RecOK([tor[t] EXCEPT !.pc = "joining"]) /\ ~InLock(tor[t])
        /\ (IsLinked(tor[t]) <=> tor[t].attached)
    BY <1>1, <2>1 DEF TorRec, RecOK, InLock, IsLinked
  <2> QED
    BY <2>1, <2>2, GoKeeps
<1>7. CASE JoinAnnounce(t)
  <2> DEFINE r == [tor[t] EXCEPT !.pc = "unmap", !.active = FALSE, !.worker = "none",
                                 !.mutex = FALSE]
  <2>1. tor[t].pc = "joining" /\ UNCHANGED dht
    BY <1>7 DEF JoinAnnounce, At
  <2>2. tor' = [tor EXCEPT ![t] = r]
    BY <1>7 DEF JoinAnnounce, SessionInv, SessionTypeOK
  <2>3. /\ r \in TorRec /\ RecOK(r) /\ ~InLock(r) /\ ~InLock(tor[t])
        /\ IsLinked(r) <=> IsLinked(tor[t])
    BY <1>1, <2>1 DEF TorRec, Pcs, RecOK, InLock, IsLinked
  <2> HIDE DEF r
  <2> QED
    BY <2>1, <2>2, <2>3, PrivateStep
<1>8. CASE JoinUpnp(t)
  <2> DEFINE pc == IF tor[t].attached THEN "detach" ELSE "free"
  <2>1. /\ tor' = Go(t, pc) /\ tor[t].pc = "unmap" /\ pc \in Pcs
        /\ UNCHANGED dht /\ ~tor[t].upnp
    BY <1>8 DEF JoinUpnp, At, Pcs
  <2>2. RecOK([tor[t] EXCEPT !.pc = pc]) /\ ~InLock(tor[t])
        /\ (IsLinked(tor[t]) <=> tor[t].attached)
    BY <1>1, <2>1 DEF TorRec, RecOK, InLock, IsLinked
  <2> QED
    BY <2>1, <2>2, GoKeeps
<1>9. CASE Free(t)
  <2>1. tor[t].pc = "free" /\ tor' = [tor EXCEPT ![t] = Dead] /\ UNCHANGED dht
    BY <1>9 DEF Free, At
  <2>2. /\ Dead \in TorRec /\ RecOK(Dead) /\ ~IsLinked(Dead) /\ ~InLock(Dead)
        /\ ~IsLinked(tor[t]) /\ ~InLock(tor[t])
    BY <1>1, <2>1 DEF Dead, TorRec, Pcs, RecOK, IsLinked, InLock
  <2> QED
    BY <2>1, <2>2, PrivateStep
<1>10. CASE Publish(t)
  <2> DEFINE r == [tor[t] EXCEPT !.worker = "published"]
  <2>1. tor[t].worker = "calling" /\ UNCHANGED dht
    BY <1>10 DEF Publish
  <2>2. tor' = [tor EXCEPT ![t] = r]
    BY <1>10 DEF Publish, SessionInv, SessionTypeOK
  <2>3. /\ r \in TorRec /\ RecOK(r) /\ ~InLock(r) /\ ~InLock(tor[t])
        /\ IsLinked(r) <=> IsLinked(tor[t])
    BY <1>1, <2>1 DEF TorRec, RecOK, InLock, IsLinked
  <2> HIDE DEF r
  <2> QED
    BY <2>1, <2>2, <2>3, PrivateStep
<1>11. CASE UpnpDone(t)
  <2> DEFINE r == [tor[t] EXCEPT !.upnp = FALSE]
  <2>1. tor[t].upnp /\ UNCHANGED dht
    BY <1>11 DEF UpnpDone
  <2>2. tor' = [tor EXCEPT ![t] = r]
    BY <1>11 DEF UpnpDone, SessionInv, SessionTypeOK
  <2>3. /\ r \in TorRec /\ RecOK(r) /\ ~InLock(r) /\ ~InLock(tor[t])
        /\ IsLinked(r) <=> IsLinked(tor[t])
    BY <1>1, <2>1 DEF TorRec, RecOK, InLock, IsLinked
  <2> HIDE DEF r
  <2> QED
    BY <2>1, <2>2, <2>3, PrivateStep
<1>12. CASE SearchDue(t)
  <2> DEFINE r == [tor[t] EXCEPT !.due = TRUE]
  <2>1. IsLinked(tor[t]) /\ UNCHANGED dht
    BY <1>1, <1>12 DEF SearchDue
  <2>2. tor' = [tor EXCEPT ![t] = r]
    BY <1>12 DEF SearchDue, SessionInv, SessionTypeOK
  <2>3. /\ r \in TorRec /\ RecOK(r) /\ ~InLock(r) /\ ~InLock(tor[t])
        /\ IsLinked(r) <=> IsLinked(tor[t])
    BY <1>1, <2>1 DEF TorRec, RecOK, InLock, IsLinked
  <2> HIDE DEF r
  <2> QED
    BY <2>1, <2>2, <2>3, PrivateStep
<1> QED
  BY <1>2, <1>3, <1>4, <1>5, <1>6, <1>7, <1>8, <1>9, <1>10, <1>11, <1>12,
     AttachKeeps, LinkKeeps, DetachKeeps, EngineStopKeeps DEF Lifecycle, Workers

LEMMA SessionInvHolds == SessionSpec => []SessionInv
<1>1. ASSUME SessionInv, [SessionNext]_sessionVars PROVE SessionInv'
  <2>1. CASE SessionNext
    BY <1>1, <2>1, StepKeeps, EngineKeeps DEF SessionNext
  <2>2. CASE UNCHANGED sessionVars
    <3> USE DEF sessionVars
    <3>1. SessionTypeOK'
      BY <1>1, <2>2 DEF SessionInv, SessionTypeOK, DhtShape, Shaped
    <3>2. ListInv'
      BY <1>1, <2>2 DEF SessionInv, ListInv
    <3>3. LockInv'
      BY <1>1, <2>2 DEF SessionInv, LockInv
    <3>4. WorkerInv'
      BY <1>1, <2>2 DEF SessionInv, WorkerInv
    <3> QED
      BY <3>1, <3>2, <3>3, <3>4 DEF SessionInv
  <2> QED
    BY <1>1, <2>1, <2>2
<1> QED
  BY <1>1, SessionInvInit, PTL DEF SessionSpec

\* For any number of torrents: while lifecycle_mu is free the reference count of
\* the DHT engine is the number of linked sessions and the engine thread runs
\* exactly while there are any; the list never holds a freed session, nor one
\* twice; and no announce or UPnP worker outlives the mutex or the torrent it
\* writes to (dht_attach, dht_detach, dht_engine_stop, torrent_destroy).
THEOREM NoThreadOutlivesItsTorrent == SessionSpec => []NothingOutlived
<1>1. ASSUME SessionInv PROVE NothingOutlived
  <2>1. dht.lock = "free" => /\ dht.refcount = Len(dht.sessions)
                             /\ dht.engine # "off" <=> dht.refcount > 0
    BY <1>1, FreeLock
  <2>2. dht.engine # "off" => dht.jech
    BY <1>1 DEF SessionInv, LockInv
  <2>3. /\ IsInjective(dht.sessions)
        /\ ToSet(dht.sessions) = {t \in Torrents : tor[t].attached /\
                              tor[t].pc \in {"start", "tick", "joining", "unmap", "detach"}}
    BY <1>1 DEF SessionInv, ListInv, IsLinked
  <2>4. \A t \in Torrents :
          /\ tor[t].worker # "none" => tor[t].mutex /\ tor[t].active
          /\ tor[t].upnp => tor[t].pc \in {"tick", "joining", "unmap"}
    BY <1>1 DEF SessionInv, WorkerInv, RecOK
  <2> QED
    BY <2>1, <2>2, <2>3, <2>4 DEF NothingOutlived
<1> QED
  BY <1>1, SessionInvHolds, PTL
=============================================================================
