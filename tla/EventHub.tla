------------------------------ MODULE EventHub ------------------------------
(***************************************************************************)
(* The daemon's event stream: sequenced_emitter numbers the runtime events *)
(* (daemon/router.rs), SseHub keeps the last of them and fans them out     *)
(* (daemon/http/sse.rs), and one thread per GET /events connection writes  *)
(* them to its client (handle_events and stream_events in                  *)
(* daemon/http/mod.rs).                                                    *)
(*                                                                         *)
(* Emitters are the job, RPC and auth threads.  A client is one            *)
(* EventSource: it reads one connection at a time, opens the next after it *)
(* lost the last, and reports the last number it saw (Last-Event-ID).  The *)
(* thread of a connection the client has left goes on until a write fails. *)
(* The JSON of a frame is left out: a frame is its number and its session. *)
(***************************************************************************)
EXTENDS Naturals, Sequences, FiniteSets, SequencesExt

CONSTANTS
    Emitters,       \* threads that emit runtime events
    Clients,
    SessionIds,
    Filter,         \* client -> the session it asks for, or NoSession for all
    ReplayCapacity, \* SSE_REPLAY_CAPACITY (1024)
    SubscriberCapacity, \* SSE_SUBSCRIBER_CAPACITY (512)
    MaxEvents,      \* bound: events emitted
    MaxConns,       \* bound: connections opened
    NoSession, NoEmitter, NoConn, NoCursor, NoFrame

Conns == 1..MaxConns
Scopes == SessionIds \cup {NoSession}
Seqs == 1..MaxEvents
Frames == [seq : Seqs, session : Scopes]

ASSUME HubAssumption ==
    /\ NoEmitter \notin Emitters /\ NoSession \notin SessionIds
    /\ Filter \in [Clients -> Scopes]
    /\ ReplayCapacity \in Nat \ {0} /\ SubscriberCapacity \in Nat \ {0}
    /\ MaxEvents \in Nat \ {0} /\ MaxConns \in Nat \ {0}
    /\ NoConn \notin Conns /\ NoCursor \notin Nat /\ NoFrame \notin Frames

VARIABLES
    next,           \* event_seq, the number the next event gets
    gate,           \* the emitter that holds the event_seq mutex
    minted,         \* emitter -> the frame it numbered and has not broadcast
    replay,         \* HubState.replay, oldest first
    opened,         \* SseHub.next_id: connections opened so far
    conn,           \* connection -> its server thread
    reading,        \* client -> the connection it reads
    cursor,         \* client -> the last number it received
    got,            \* history: client -> the numbers it received, in order
    since,          \* history: client -> the number its stream began after
    evicted,        \* history: client -> what a reconnect could not replay
    sent            \* history: the frames broadcast, in order

hub == <<next, gate, minted, replay, sent>>
client == <<reading, cursor, got, since, evicted>>
hubVars == <<hub, opened, conn, client>>

\* SseFrame::visible_to: everything for an unfiltered client; a session's client
\* gets that session's frames and the global ones.
VisibleTo(frame, filter) ==
    filter = NoSession \/ frame.session = NoSession \/ frame.session = filter

\* The frames at the positions in I, in order.
AtPositions(frames, I) ==
    LET nth(n) == CHOOSE i \in I : Cardinality({j \in I : j <= i}) = n
    IN  [n \in 1..Cardinality(I) |-> frames[nth(n)]]

ConnStates == [owner : Clients, phase : {"open", "closing", "closed"},
               subscribed : BOOLEAN, backlog : Seq(Frames), channel : Seq(Frames)]

HubInit ==
    /\ next = 1 /\ gate = NoEmitter /\ replay = <<>> /\ sent = <<>>
    /\ minted = [e \in Emitters |-> NoFrame]
    /\ opened = 0
    /\ conn = [k \in {} |-> {}]
    /\ reading = [c \in Clients |-> NoConn]
    /\ cursor = [c \in Clients |-> NoCursor]
    /\ got = [c \in Clients |-> <<>>]
    /\ since = [c \in Clients |-> 0]
    /\ evicted = [c \in Clients |-> {}]

-----------------------------------------------------------------------------
(* sequenced_emitter and SseHub::broadcast.                                *)

\* MUTANT: the number comes from an atomic counter and the mutex is not held on.
MintUngated(e, s) ==
    /\ next <= MaxEvents /\ minted[e] = NoFrame
    /\ minted' = [minted EXCEPT ![e] = [seq |-> next, session |-> s]]
    /\ next' = next + 1
    /\ UNCHANGED <<gate, replay, sent, opened, conn, client>>

\* Take the mutex, take the number.
Mint(e, s) ==
    /\ next <= MaxEvents /\ minted[e] = NoFrame
    /\ gate = NoEmitter
    /\ gate' = e
    /\ minted' = [minted EXCEPT ![e] = [seq |-> next, session |-> s]]
    /\ next' = next + 1
    /\ UNCHANGED <<replay, sent, opened, conn, client>>

Addressed(k, frame) == conn[k].subscribed /\ VisibleTo(frame, Filter[conn[k].owner])
Full(k) == Len(conn[k].channel) >= SubscriberCapacity

\* MUTANT: a full subscriber loses the frame and stays subscribed.
FanOutDropping(frame) ==
    [k \in DOMAIN conn |->
        IF ~Addressed(k, frame) \/ Full(k) THEN conn[k]
        ELSE [conn[k] EXCEPT !.channel = Append(@, frame)]]

\* try_send to every subscriber the frame is addressed to; a full one is dropped
\* from the hub, and with its sender the channel ends once it is drained.
FanOut(frame) ==
    [k \in DOMAIN conn |->
        IF ~Addressed(k, frame) THEN conn[k]
        ELSE IF Full(k) THEN [conn[k] EXCEPT !.subscribed = FALSE]
        ELSE [conn[k] EXCEPT !.channel = Append(@, frame)]]

\* The oldest frame leaves the full ring.
PushReplay(frame) ==
    LET ring == Append(replay, frame)
    IN  IF Len(ring) > ReplayCapacity THEN Tail(ring) ELSE ring

\* The whole of broadcast is one region of the hub's mutex; then the gate opens.
Broadcast(e) ==
    /\ minted[e] # NoFrame
    /\ replay' = PushReplay(minted[e])
    /\ conn' = FanOut(minted[e])
    /\ sent' = Append(sent, minted[e])
    /\ minted' = [minted EXCEPT ![e] = NoFrame]
    /\ gate' = NoEmitter
    /\ UNCHANGED <<next, opened, client>>

-----------------------------------------------------------------------------
(* GET /events.                                                            *)

Connection(c, frames) ==
    [owner |-> c, phase |-> "open", subscribed |-> TRUE,
     backlog |-> frames, channel |-> <<>>]

\* What the replay ring still has after the client's cursor.  A client that has
\* received nothing sends no Last-Event-ID and gets no backlog.
Backlog(c) ==
    IF cursor[c] = NoCursor THEN <<>>
    ELSE AtPositions(replay,
             {i \in DOMAIN replay : /\ replay[i].seq > cursor[c]
                                    /\ VisibleTo(replay[i], Filter[c])})

\* What was broadcast and addressed to a client.
SentTo(c) == {f \in ToSet(sent) : VisibleTo(f, Filter[c])}

LastSent == IF sent = <<>> THEN 0 ELSE Last(sent).seq

\* SseHub::subscribe: the backlog is read and the sender registered in one region.
Subscribe(c) ==
    /\ reading[c] = NoConn /\ opened < MaxConns
    /\ opened' = opened + 1
    /\ conn' = [k \in DOMAIN conn \cup {opened + 1} |->
                   IF k = opened + 1 THEN Connection(c, Backlog(c)) ELSE conn[k]]
    /\ reading' = [reading EXCEPT ![c] = opened + 1]
    /\ IF cursor[c] = NoCursor
       THEN since' = [since EXCEPT ![c] = LastSent] /\ UNCHANGED evicted
       ELSE /\ evicted' = [evicted EXCEPT ![c] = @ \cup
                 {f.seq : f \in {g \in SentTo(c) : g.seq > cursor[c]} \ ToSet(replay)}]
            /\ UNCHANGED since
    /\ UNCHANGED <<hub, cursor, got>>

Receives(c, frame) ==
    /\ cursor' = [cursor EXCEPT ![c] = frame.seq]
    /\ got' = [got EXCEPT ![c] = Append(@, frame.seq)]
    /\ UNCHANGED <<reading, since, evicted>>

\* stream_events writes the next frame, the backlog first.  A client that has left
\* either lets it be lost on the wire or makes the write fail.
WriteFrame(k) ==
    /\ conn[k].phase = "open"
    /\ conn[k].backlog # <<>> \/ conn[k].channel # <<>>
    /\ LET replaying == conn[k].backlog # <<>>
           frame == Head(IF replaying THEN conn[k].backlog ELSE conn[k].channel)
           rest == IF replaying THEN [conn[k] EXCEPT !.backlog = Tail(@)]
                                ELSE [conn[k] EXCEPT !.channel = Tail(@)]
           c == conn[k].owner
       IN  IF reading[c] = k
           THEN Receives(c, frame) /\ conn' = [conn EXCEPT ![k] = rest]
           ELSE /\ \/ conn' = [conn EXCEPT ![k] = rest]
                   \/ conn' = [conn EXCEPT ![k] = [rest EXCEPT !.phase = "closing"]]
                /\ UNCHANGED client
    /\ UNCHANGED <<hub, opened>>

Drained(k) == conn[k].backlog = <<>> /\ conn[k].channel = <<>>

\* The keep-alive comment of an idle connection is what notices a vanished client.
KeepAliveFails(k) ==
    /\ conn[k].phase = "open" /\ Drained(k) /\ conn[k].subscribed
    /\ reading[conn[k].owner] # k
    /\ conn' = [conn EXCEPT ![k].phase = "closing"]
    /\ UNCHANGED <<hub, opened, client>>

\* MUTANT: a pruned channel is taken for an idle one.
ChannelEndsIdle(k) ==
    /\ conn[k].phase = "open" /\ Drained(k) /\ ~conn[k].subscribed
    /\ reading[conn[k].owner] # k
    /\ conn' = [conn EXCEPT ![k].phase = "closing"]
    /\ UNCHANGED <<hub, opened, client>>

\* The hub dropped the sender and what it had queued is written: the stream ends.
ChannelEnds(k) ==
    /\ conn[k].phase = "open" /\ Drained(k) /\ ~conn[k].subscribed
    /\ conn' = [conn EXCEPT ![k].phase = "closing"]
    /\ UNCHANGED <<hub, opened, client>>

\* hub.unsubscribe(id); the thread drops its receiver and its writer.  No last chunk is
\* written and the keep-alive connection is not closed: the client is not told.
Unsubscribe(k) ==
    /\ conn[k].phase = "closing"
    /\ conn' = [conn EXCEPT ![k].phase = "closed", ![k].subscribed = FALSE,
                            ![k].backlog = <<>>, ![k].channel = <<>>]
    /\ UNCHANGED <<hub, opened, client>>

\* The network takes the connection away, or the client gives it up.
ConnectionLost(c) ==
    /\ reading[c] # NoConn
    /\ reading' = [reading EXCEPT ![c] = NoConn]
    /\ UNCHANGED <<hub, opened, conn, cursor, got, since, evicted>>

-----------------------------------------------------------------------------
Leave(k) == KeepAliveFails(k) \/ ChannelEnds(k) \/ Unsubscribe(k)
Serve(k) == WriteFrame(k) \/ Leave(k)

HubNext ==
    \/ \E e \in Emitters : Broadcast(e) \/ \E s \in Scopes : Mint(e, s)
    \/ \E c \in Clients : Subscribe(c) \/ ConnectionLost(c)
    \/ \E k \in DOMAIN conn : Serve(k)

HubSpec == HubInit /\ [][HubNext]_hubVars

\* A connection's thread runs on, for its waits end after SSE_HEARTBEAT, and a write to
\* a vanished client fails in the end.  A write to a client that stalls may never return.
HubFairSpec == HubSpec /\ \A k \in Conns : WF_hubVars(k \in DOMAIN conn /\ Leave(k))

-----------------------------------------------------------------------------
(* Properties.                                                             *)

\* Every variable keeps its type.
HubTypeOK ==
    /\ next \in 1..(MaxEvents + 1) /\ gate \in Emitters \cup {NoEmitter}
    /\ minted \in [Emitters -> Frames \cup {NoFrame}]
    /\ replay \in Seq(Frames) /\ Len(replay) <= ReplayCapacity /\ sent \in Seq(Frames)
    /\ opened \in 0..MaxConns /\ DOMAIN conn = 1..opened
    /\ \A k \in DOMAIN conn : conn[k] \in ConnStates
    /\ reading \in [Clients -> Conns \cup {NoConn}]
    /\ cursor \in [Clients -> Seqs \cup {NoCursor}]
    /\ got \in [Clients -> Seq(Seqs)] /\ since \in [Clients -> 0..MaxEvents]
    /\ evicted \in [Clients -> SUBSET Seqs]

\* "seq order == persist/deliver order" (sequenced_emitter): what a client receives
\* over all its connections, replays included, is strictly ascending, so no event
\* comes twice or after a later one.
StreamAscends ==
    \A c \in Clients : \A i, j \in DOMAIN got[c] : i < j => got[c][i] < got[c][j]

\* Every event a client is entitled to, from where its stream began up to its
\* cursor, it has received, unless the ring had already dropped it when the client
\* came back: neither pruning nor reconnecting loses anything else.
OnlyEvictedMissed ==
    \A c \in Clients : cursor[c] # NoCursor =>
        \A f \in SentTo(c) :
            since[c] < f.seq /\ f.seq <= cursor[c] =>
                f.seq \in ToSet(got[c]) \cup evicted[c]

Abandoned(k) == k \in DOMAIN conn /\ (~conn[k].subscribed \/ reading[conn[k].owner] # k)

Ended(k) == k \in DOMAIN conn /\ conn[k].phase = "closed"
Writing(k) == k \in DOMAIN conn /\ conn[k].phase = "open" /\ ~Drained(k)

\* "a slow client is treated as disconnected": a connection that the hub has pruned, or
\* whose client has gone, ends with its thread and its subscriber freed, unless the
\* thread is held for ever in a write its client does not take.
StreamEnds ==
    \A k \in Conns : [](Abandoned(k) => <>(Ended(k) \/ []Writing(k)))
=============================================================================
