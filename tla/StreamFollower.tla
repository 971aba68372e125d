---------------------------- MODULE StreamFollower ----------------------------
(***************************************************************************)
(* Tins::TCPIP::StreamFollower with the Stream of one connection and its   *)
(* two Flows: the packets of a connection, as a capture shows them (some   *)
(* missed, some twice, some late), go through Flow::update_state() and the *)
(* client's DataTracker, and the stream is dropped when it is finished,    *)
(* buffers too much, or was not heard of for too long.                     *)
(*                                                                         *)
(* A packet is handled in steps: the flow takes it (the loop of its        *)
(* tracker is in DataTracker), then the stream is checked, then all        *)
(* streams are cleaned up when it is time.  The two flows of a stream are  *)
(* objects of one class; only the client's data is modelled, the server's  *)
(* packets carry flags alone.  The clock moves between packets.            *)
(***************************************************************************)
EXTENDS DataTracker

CONSTANTS
  max_buffered_chunks,  \* 512
  max_buffered_bytes,   \* 3 MB
  stream_keep_alive,    \* five minutes
  MaxTime               \* bound on the clock

ASSUME FollowerAssumption ==
  /\ max_buffered_chunks \in Nat /\ max_buffered_bytes \in Nat
  /\ stream_keep_alive \in Nat \ {0} /\ MaxTime \in Nat

VARIABLES
  pc,            \* "idle", "tracker", "check" or "cleanup"
  tracked,       \* streams_ has this connection
  client_state, server_state,  \* Flow::state_
  now, last_seen, last_cleanup

followerVars == <<pc, tracked, client_state, server_state, now, last_seen, last_cleanup>>
vars == <<trackerVars, followerVars>>

-----------------------------------------------------------------------------
FlowStates == {"UNKNOWN", "SYN_SENT", "ESTABLISHED", "FIN_SENT", "RST_SENT"}

(* Flow::update_state(): the first of these that applies.                  *)
NextState(state, flags) ==
  CASE "FIN" \in flags -> "FIN_SENT"
    [] "FIN" \notin flags /\ "RST" \in flags -> "RST_SENT"
    [] flags \cap {"FIN", "RST"} = {} /\ state = "SYN_SENT" /\ "ACK" \in flags -> "ESTABLISHED"
    [] flags \cap {"FIN", "RST"} = {} /\ state = "UNKNOWN" /\ "SYN" \in flags -> "SYN_SENT"
    [] OTHER -> state

(* ESTABLISHED is entered with a step of the sequence number.              *)
NextSequenceNumber(state, flags) ==
  IF state = "SYN_SENT" /\ NextState(state, flags) = "ESTABLISHED"
  THEN (seq_number + 1) % Modulus ELSE seq_number

(* Stream::is_finished()                                                   *)
IsFinished ==
  \/ "RST_SENT" \in {client_state, server_state}
  \/ {client_state, server_state} = {"FIN_SENT"}

BuffersTooMuch_Bytes == total_buffered_bytes > max_buffered_bytes

BuffersTooMuch ==
  \/ Cardinality(DOMAIN buffered_payload) > max_buffered_chunks
  \/ total_buffered_bytes > max_buffered_bytes

Goto(from, to) == pc = from /\ pc' = to

-----------------------------------------------------------------------------
Init ==
  /\ TrackerInit
  /\ pc = "idle"
  /\ tracked = FALSE
  /\ client_state = "UNKNOWN" /\ server_state = "UNKNOWN"
  /\ now = 0 /\ last_seen = 0 /\ last_cleanup = 0

(* The SYN of a connection that is not followed: a Stream is made, takes   *)
(* the packet, and is announced to the user.  Without a callback to do so, *)
(* callback_not_set leaves the call, and the stream stays.                 *)
NewStream ==
  /\ Goto("idle", "cleanup") \/ Goto("idle", "idle")
  /\ ~tracked
  /\ tracked' = TRUE
  /\ client_state' = NextState("UNKNOWN", {"SYN"})
  /\ server_state' = "UNKNOWN"
  /\ last_seen' = now
  /\ Fresh(InitialSeq)
  /\ UNCHANGED <<now, last_cleanup>>

(* Any other packet of a connection that is not followed, and the packets  *)
(* of other connections.                                                   *)
Unrelated ==
  /\ Goto("idle", "cleanup")
  /\ UNCHANGED <<trackerVars, tracked, client_state, server_state, now, last_seen, last_cleanup>>

(* Stream::process_packet() and Flow::process_packet() for a packet of the *)
(* client without data, and for one with data, all of which may be old.    *)
ClientFlags == {{"SYN"}, {"ACK"}, {"FIN", "ACK"}, {"RST"}}

FromClient(flags) ==
  /\ Goto("idle", "check")
  /\ tracked
  /\ client_state' = NextState(client_state, flags)
  /\ SetSequenceNumber(NextSequenceNumber(client_state, flags))
  /\ last_seen' = now
  /\ UNCHANGED <<tracked, server_state, now, last_cleanup>>

DataFlags == {{"ACK"}, {"FIN", "ACK"}}

DataFromClient(c, flags) ==
  /\ tracked
  /\ client_state' = NextState(client_state, flags)
  /\ last_seen' = now
  /\ LET current == NextSequenceNumber(client_state, flags)
     IN  \/ /\ Goto("idle", "tracker")
            /\ ProcessPayload(current, SeqOf(c.first), c)
         \/ /\ Goto("idle", "check")
            /\ IsOld(current, SeqOf(c.first), c)
            /\ SetSequenceNumber(current)
  /\ UNCHANGED <<tracked, server_state, now, last_cleanup>>

ServerFlags == {{"SYN", "ACK"}, {"ACK"}, {"FIN", "ACK"}, {"RST"}}

FromServer(flags) ==
  /\ Goto("idle", "check")
  /\ tracked
  /\ server_state' = NextState(server_state, flags)
  /\ last_seen' = now
  /\ UNCHANGED <<trackerVars, tracked, client_state, now, last_cleanup>>

(* The tracker at work, and the user's callback once it returns.           *)
TrackerStep ==
  /\ pc = "tracker"
  /\ Loop
  /\ UNCHANGED followerVars

TrackerReturns ==
  /\ Goto("tracker", "check")
  /\ Return
  /\ UNCHANGED <<tracked, client_state, server_state, now, last_seen, last_cleanup>>

(* The stream is erased when it is finished or buffers too much; the       *)
(* Stream object goes, and what it had buffered with it.                   *)
Check ==
  /\ Goto("check", "cleanup")
  /\ tracked' = ~(IsFinished \/ BuffersTooMuch)
  /\ UNCHANGED <<trackerVars, client_state, server_state, now, last_seen, last_cleanup>>

(* cleanup_streams(), when it is time for it.                              *)
CleanupDue == last_cleanup + stream_keep_alive <= now

Stale_UsesCleanup == last_cleanup + stream_keep_alive < now
Stale == last_seen + stream_keep_alive <= now

Cleanup ==
  /\ Goto("cleanup", "idle")
  /\ tracked' = (tracked /\ ~(CleanupDue /\ Stale))
  /\ last_cleanup' = IF CleanupDue THEN now ELSE last_cleanup
  /\ UNCHANGED <<trackerVars, client_state, server_state, now, last_seen>>

Tick ==
  /\ pc = "idle"
  /\ now < MaxTime
  /\ now' = now + 1
  /\ UNCHANGED <<trackerVars, pc, tracked, client_state, server_state, last_seen, last_cleanup>>

Next ==
  \/ NewStream \/ Unrelated
  \/ \E flags \in ClientFlags : FromClient(flags)
  \/ \E c \in Segments, flags \in DataFlags : DataFromClient(c, flags)
  \/ \E flags \in ServerFlags : FromServer(flags)
  \/ TrackerStep \/ TrackerReturns \/ Check \/ Cleanup
  \/ Tick

(* Handling a packet is a sequential computation that does not wait.       *)
Spec == Init /\ [][Next]_vars /\ WF_vars(TrackerStep \/ TrackerReturns \/ Check \/ Cleanup)

-----------------------------------------------------------------------------
TypeOK ==
  /\ TrackerTypeOK
  /\ pc \in {"idle", "tracker", "check", "cleanup"}
  /\ running = (pc = "tracker")
  /\ {client_state, server_state} \subseteq FlowStates
  /\ tracked \in BOOLEAN
  /\ last_seen \in 0 .. now /\ last_cleanup \in 0 .. now

(* A stream that stays followed keeps within the limits, whatever gap its  *)
(* capture has.                                                            *)
BuffersBounded ==
  tracked /\ pc \in {"idle", "cleanup"} =>
    /\ Cardinality(DOMAIN buffered_payload) <= max_buffered_chunks
    /\ total_buffered_bytes <= max_buffered_bytes

(* When a packet, of this connection or of another one, was handled, the   *)
(* last clean-up is less than a keep-alive time ago, and no stream is      *)
(* followed that was silent that long at that clean-up; one that was heard *)
(* of within a keep-alive time is not given up for its silence.            *)
StaleStreamsGo ==
  [][pc = "cleanup" =>
       /\ now < last_cleanup' + stream_keep_alive
       /\ tracked' => last_cleanup' < last_seen + stream_keep_alive
       /\ tracked /\ ~tracked' => last_seen + stream_keep_alive <= now]_vars

(* "The maximum time to keep unseen streams": when a packet was handled,   *)
(* no stream is followed that was silent for longer.                       *)
KeepAliveIsMaximum ==
  [][pc = "cleanup" => (tracked' => now <= last_seen + stream_keep_alive)]_vars

(* Each direction is the byte stream promised: when the SYN was            *)
(* acknowledged before any packet with FIN or RST.                         *)
Promised == INSTANCE ByteStream
              WITH seen <- IF Synchronised THEN arrived ELSE {}, out <- Len(delivered)

FollowsTheStream == Promised!Spec
=============================================================================
