------------------------------- MODULE Tracker -------------------------------
(***************************************************************************)
(* One announce to one tracker URL (core/tracker.c).  The UDP exchange is  *)
(* modelled datagram by datagram: the network delays, loses and duplicates *)
(* replies, strangers write to the socket, and a reply to an early try may *)
(* come when a later one is waiting.  A datagram is what the client can    *)
(* tell apart: "conn" (16 bytes, the connect transaction), "ann" (at least *)
(* 20 bytes, the announce transaction), "short" (fewer bytes than the      *)
(* phase wants, whoever sent it) and "bogus" (long enough, with another    *)
(* action, transaction or source).                                         *)
(* Peers are counted.                                                      *)
(***************************************************************************)
EXTENDS Naturals, Sequences, FiniteSets

CONSTANTS UdpRetries,  \* UDP_RETRIES
          MaxStray,    \* bound: duplicated, short and bogus datagrams
          MaxFound     \* max_peers

ASSUME TrackerAssumption == /\ UdpRetries \in Nat \ {0}
                            /\ MaxStray \in Nat
                            /\ MaxFound \in Nat \ {0}

VARIABLE trk

trackerVars == <<trk>>

Datagrams == {"conn", "ann", "short", "bogus"}

\* flying: replies on their way; inbox: the socket's queue; cancel: has the
\* caller's callback begun to say so?  timeouts counts those of the announce
\* phase, stray the datagrams no request of this call explains.
TrackerInits ==
  {[pc |-> "url", scheme |-> s, attempt |-> 0, flying |-> [conn |-> 0, ann |-> 0],
    inbox |-> <<>>, cancel |-> FALSE, connected |-> FALSE, timeouts |-> 0, stray |-> 0,
    outcome |-> "running", peers |-> 0] : s \in {"http", "udp", "other"}}

TrackerInit == trk \in TrackerInits

Fail(t, why) == [t EXCEPT !.pc = "done", !.outcome = why]

\* No more peers are taken than fit.
Answer(t, n) == [t EXCEPT !.pc = "done", !.outcome = "answered",
                          !.peers = IF n > MaxFound THEN MaxFound ELSE n]

----------------------------------------------------------------------------
(* tracker_announce_url_ex_cancel_event and the HTTP tracker.              *)

\* A cancelled call, another scheme, a host that does not parse or resolve, or
\* no socket: no peers.
UrlFails ==
  /\ trk.pc = "url"
  /\ trk' = Fail(trk, "failed")

\* http_announce_once: curl fails, the status or the body is wrong; the tracker
\* reports a failure; or it sends peers, of which MaxFound are taken.
HttpAnnounce ==
  /\ trk.pc = "url" /\ trk.scheme = "http"
  /\ \/ \E why \in {"failed", "tracker_failure"} : trk' = Fail(trk, why)
     \/ \E n \in 0 .. MaxFound + 1 : trk' = Answer(trk, n)

UdpStart ==
  /\ trk.pc = "url" /\ trk.scheme = "udp" /\ ~trk.cancel
  /\ trk' = [trk EXCEPT !.pc = "send"]

----------------------------------------------------------------------------
(* udp_announce: the two retry loops.                                      *)

Phase == IF trk.connected THEN "ann" ELSE "conn"

\* One more request, which the tracker answers unless it or the answer is lost.
SendRequest ==
  /\ trk.pc = "send" /\ ~trk.cancel /\ trk.attempt < UdpRetries
  /\ \E answers \in 0 .. 1 :
       trk' = [trk EXCEPT !.pc = "wait", !.attempt = @ + 1, !.flying[Phase] = @ + answers]

GiveUp ==
  /\ trk.pc = "send" /\ (trk.cancel \/ trk.attempt = UdpRetries)
  /\ trk' = Fail(trk, "failed")

\* udp_poll_read polls the cancel callback in every slice of the wait.
PollCancelled ==
  /\ trk.pc = "wait" /\ trk.cancel
  /\ trk' = Fail(trk, "failed")

PollTimeout ==
  /\ trk.pc = "wait" /\ trk.inbox = <<>>
  /\ trk' = [trk EXCEPT !.pc = "send", !.timeouts = IF trk.connected THEN @ + 1 ELSE @]

\* Mutant: the announce phase reads any 16 bytes as a reply.
ShortConnect(d) == d = "short"

\* Is the datagram too short for the phase?  A connect reply is 16 bytes long,
\* and the announce phase wants 20.
Short(d) == d = "short" \/ (trk.connected /\ d = "conn")

\* udp_reply_matches.
Matches(d) == d = Phase

\* A datagram is read: too short, it costs the try; one that does not match ends
\* the call; a connect reply opens the announce phase, an announce reply ends it.
ReadReply ==
  /\ trk.pc = "wait" /\ trk.inbox # <<>>
  /\ \E d \in {Head(trk.inbox)}, t \in {[trk EXCEPT !.inbox = Tail(@)]} :
       \/ Short(d) /\ trk' = [t EXCEPT !.pc = "send"]
       \/ ~Short(d) /\ ~Matches(d) /\ trk' = Fail(t, "failed")
       \/ /\ ~Short(d) /\ Matches(d) /\ ~trk.connected
          /\ trk' = [t EXCEPT !.pc = "send", !.connected = TRUE, !.attempt = 0]
       \/ /\ ~Short(d) /\ Matches(d) /\ trk.connected
          /\ \E n \in 0 .. MaxFound + 1 : trk' = Answer(t, n)

----------------------------------------------------------------------------
(* The network and the caller.                                             *)

\* A reply arrives.
Arrive ==
  \E d \in {"conn", "ann"} :
    /\ trk.flying[d] > 0 /\ trk.pc # "done"
    /\ trk' = [trk EXCEPT !.flying[d] = @ - 1, !.inbox = Append(@, d)]

\* A reply is duplicated, or a datagram nobody asked for arrives.
Stray ==
  /\ trk.stray < MaxStray /\ trk.pc \in {"send", "wait"}
  /\ \E d \in {"short", "bogus"} \cup {x \in {"conn", "ann"} : trk.flying[x] > 0} :
       trk' = [trk EXCEPT !.stray = @ + 1, !.inbox = Append(@, d)]

Cancel ==
  /\ ~trk.cancel /\ trk.pc # "done"
  /\ trk' = [trk EXCEPT !.cancel = TRUE]

TrackerNext == \/ UrlFails \/ HttpAnnounce \/ UdpStart \/ SendRequest \/ GiveUp
               \/ PollCancelled \/ PollTimeout \/ ReadReply
               \/ Arrive \/ Stray \/ Cancel

TrackerSpec == TrackerInit /\ [][TrackerNext]_trackerVars

----------------------------------------------------------------------------
(* Properties.                                                             *)

\* Retries of the connect phase do not starve the announce phase: its late
\* answers cost announce tries (core/tracker.c, "short announce reply"), but at
\* most all of them but one.  Once connected, a call ends without an announce
\* reply only if it was cancelled, an announce try timed out, or a datagram came
\* that no request explains.
UdpFailureExplained ==
  trk.outcome = "failed" /\ trk.connected
    => trk.cancel \/ trk.timeouts > 0 \/ trk.stray > 0
=============================================================================
