---------------------------- MODULE WechatBridge ----------------------------
(***************************************************************************)
(* The WeChat bridge: the host's login, start, stop and status operations  *)
(* (nerve-workstation/src/wechat/mod.rs) and the bridge thread's long-poll *)
(* loop with its message filter and retry (nerve-wechat/src/bridge.rs),    *)
(* which runs one delegated turn per message (wechat/control.rs).          *)
(*                                                                         *)
(* Operations run on job threads and interleave with the bridge thread.    *)
(* The gateway is external: it holds a stream of messages, returns those   *)
(* behind a cursor and may deliver the last Redeliver ones again.  What a  *)
(* message says, the chat it belongs to and the events emitted about it    *)
(* are left out.                                                           *)
(***************************************************************************)
EXTENDS Naturals, Sequences, SequencesExt

CONSTANTS
    Bridges,                  \* bridge threads, one per successful start
    MaxMsgs,                  \* bound: messages the gateway holds
    KindOf,                   \* message -> "self", "stranger", "media" or "text"
    Anonymous,                \* messages without a message_id
    Redeliver,                \* bound: how far back the gateway delivers again
    SEEN_CAP,
    MAX_CONSECUTIVE_ERRORS,
    NoBridge

Messages == 1..MaxMsgs

ASSUME WechatAssumption ==
    /\ MaxMsgs \in Nat /\ KindOf \in [Messages -> {"self", "stranger", "media", "text"}]
    /\ Anonymous \subseteq Messages
    /\ SEEN_CAP \in Nat \ {0} /\ Redeliver \in Nat /\ MAX_CONSECUTIVE_ERRORS \in Nat
    /\ NoBridge \notin Bridges

VARIABLES
    loggedIn,       \* session.is_some()
    slot,           \* WechatHost::bridge
    stopping,       \* bridge -> the wechat.stop call that took it: where it stands
    flag,           \* bridge -> its stop flag
    pc,             \* bridge -> where its thread is
    cursor,         \* bridge -> the gateway cursor
    batch,          \* bridge -> messages of the current poll still to be handled
    seen,           \* bridge -> seen_order, oldest first
    errors,         \* bridge -> consecutive transient errors
    turned,         \* history of a live thread: bridge -> messages a delegated turn was started for
    repeated,       \* history of a live thread: bridge -> messages a second one was started for
    dropped         \* history of a live thread: bridge -> messages left over by failed polls

host == <<loggedIn, slot, stopping, flag>>
history == <<turned, repeated, dropped>>
wechatVars == <<host, pc, cursor, batch, seen, errors, history>>

\* A thread whose handle is not finished.
Live(b) == pc[b] \notin {"unborn", "exited"}

WechatInit ==
    /\ loggedIn = FALSE /\ slot = NoBridge
    /\ stopping = [b \in Bridges |-> "no"]
    /\ flag = [b \in Bridges |-> FALSE]
    /\ pc = [b \in Bridges |-> "unborn"]
    /\ cursor = [b \in Bridges |-> 0]
    /\ batch = [b \in Bridges |-> <<>>]
    /\ seen = [b \in Bridges |-> <<>>]
    /\ errors = [b \in Bridges |-> 0]
    /\ turned = [b \in Bridges |-> {}]
    /\ repeated = [b \in Bridges |-> {}]
    /\ dropped = [b \in Bridges |-> {}]

Goto(b, label) == pc' = [pc EXCEPT ![b] = label]

-----------------------------------------------------------------------------
(* The host's operations.                                                  *)

\* wechat.login: the QR code was confirmed.  Every other end leaves the host alone.
ConfirmLogin ==
    /\ ~loggedIn /\ loggedIn' = TRUE
    /\ UNCHANGED <<slot, stopping, flag, pc, cursor, batch, seen, errors, history>>

\* wechat.start, one region of the bridge lock.  A finished bridge is joined and
\* replaced; a running one, or no login, refuses the start.
Start(b) ==
    /\ loggedIn /\ pc[b] = "unborn"
    /\ \A other \in Bridges : slot = other => ~Live(other)
    /\ slot' = b
    /\ Goto(b, "check")
    /\ UNCHANGED <<loggedIn, stopping, flag, cursor, batch, seen, errors, history>>

\* wechat.stop takes the bridge out under the lock, then signals and joins it.
StopTakes(b) ==
    /\ slot = b /\ slot' = NoBridge
    /\ stopping' = [stopping EXCEPT ![b] = "taken"]
    /\ UNCHANGED <<loggedIn, flag, pc, cursor, batch, seen, errors, history>>

\* MUTANT: the thread is joined without being told to stop.
StopJoinsOnly(b) ==
    /\ stopping[b] = "taken"
    /\ stopping' = [stopping EXCEPT ![b] = "joining"]
    /\ UNCHANGED <<loggedIn, slot, flag, pc, cursor, batch, seen, errors, history>>

StopSignals(b) ==
    /\ stopping[b] = "taken"
    /\ stopping' = [stopping EXCEPT ![b] = "joining"]
    /\ flag' = [flag EXCEPT ![b] = TRUE]
    /\ UNCHANGED <<loggedIn, slot, pc, cursor, batch, seen, errors, history>>

StopReturns(b) ==
    /\ stopping[b] = "joining" /\ pc[b] = "exited"
    /\ stopping' = [stopping EXCEPT ![b] = "returned"]
    /\ UNCHANGED <<loggedIn, slot, flag, pc, cursor, batch, seen, errors, history>>

\* wechat.status reaps a bridge whose thread has exited.
Status(b) ==
    /\ slot = b /\ ~Live(b)
    /\ slot' = NoBridge
    /\ UNCHANGED <<loggedIn, stopping, flag, pc, cursor, batch, seen, errors, history>>

-----------------------------------------------------------------------------
(* The bridge thread: run_until.                                           *)

\* run_bridge_thread returns: the Bridge, its cursor and its ring are dropped.
Exit(b) ==
    /\ Goto(b, "exited")
    /\ cursor' = [cursor EXCEPT ![b] = 0] /\ batch' = [batch EXCEPT ![b] = <<>>]
    /\ seen' = [seen EXCEPT ![b] = <<>>] /\ errors' = [errors EXCEPT ![b] = 0]
    /\ turned' = [turned EXCEPT ![b] = {}] /\ repeated' = [repeated EXCEPT ![b] = {}]
    /\ dropped' = [dropped EXCEPT ![b] = {}]

StopSeen(b) ==
    /\ pc[b] = "check" /\ flag[b]
    /\ Exit(b)
    /\ UNCHANGED host

PollAgain(b) ==
    /\ pc[b] = "check" /\ ~flag[b]
    /\ Goto(b, "poll")
    /\ UNCHANGED <<host, cursor, batch, seen, errors, history>>

\* A poll ended in an error: what was left of its batch is not returned to.  A
\* transport error goes round the loop while fewer than the limit came in a row.
PollFails(b, rest, retryable) ==
    \/ /\ retryable /\ errors[b] < MAX_CONSECUTIVE_ERRORS
       /\ errors' = [errors EXCEPT ![b] = @ + 1]
       /\ batch' = [batch EXCEPT ![b] = <<>>]
       /\ dropped' = [dropped EXCEPT ![b] = @ \cup (ToSet(rest) \ turned[b])]
       /\ Goto(b, "check")
       /\ UNCHANGED <<cursor, seen, turned, repeated>>
    \/ ~(retryable /\ errors[b] < MAX_CONSECUTIVE_ERRORS) /\ Exit(b)

\* get_updates fails.
UpdatesFail(b, retryable) ==
    /\ pc[b] = "poll"
    /\ PollFails(b, <<>>, retryable)
    /\ UNCHANGED host

\* The cursor the gateway returned; an empty one (a poll that timed out) keeps it.
Advance(at, last) == IF last > at THEN last ELSE at

\* get_updates returns the messages behind the cursor up to some last one, after
\* some it has delivered before.
Updates(b, again, last) ==
    /\ pc[b] = "poll"
    /\ again <= cursor[b] /\ last >= cursor[b]
    /\ batch' = [batch EXCEPT ![b] =
                    [i \in 1..(last - cursor[b] + again) |-> cursor[b] - again + i]]
    /\ cursor' = [cursor EXCEPT ![b] = Advance(@, last)]
    /\ Goto(b, "message")
    /\ UNCHANGED <<host, seen, errors, history>>

\* The batch is done: poll_once returned Ok.
BatchDone(b) ==
    /\ pc[b] = "message" /\ batch[b] = <<>>
    /\ errors' = [errors EXCEPT ![b] = 0]
    /\ Goto(b, "check")
    /\ UNCHANGED <<host, cursor, batch, seen, history>>

\* MUTANT: the full ring gives up the newest id.
RememberSeenOldest(ring, m) ==
    IF Len(Append(ring, m)) > SEEN_CAP THEN ring ELSE Append(ring, m)

\* remember_seen: a new id goes in; the oldest leaves once the ring is over its cap.
RememberSeen(ring, m) ==
    IF Len(Append(ring, m)) > SEEN_CAP THEN Tail(Append(ring, m)) ELSE Append(ring, m)

\* accepts: own messages, ids in the ring and strangers are passed over; an id goes
\* into the ring whoever sent it.
Duplicate(b, m) == m \notin Anonymous /\ m \in ToSet(seen[b])
Accepts(b, m) == KindOf[m] \in {"media", "text"} /\ ~Duplicate(b, m)

\* handle_message up to its first call out.
TakeMessage(b) ==
    /\ pc[b] = "message" /\ batch[b] # <<>>
    /\ LET m == Head(batch[b])
           new == KindOf[m] # "self" /\ m \notin Anonymous /\ ~Duplicate(b, m)
       IN  /\ seen' = [seen EXCEPT ![b] = IF new THEN RememberSeen(@, m) ELSE @]
           /\ \/ /\ ~Accepts(b, m)
                 /\ batch' = [batch EXCEPT ![b] = Tail(@)]
                 /\ UNCHANGED <<pc, history>>
              \/ /\ Accepts(b, m) /\ KindOf[m] = "media"
                 /\ Goto(b, "reply")
                 /\ UNCHANGED <<batch, history>>
              \/ /\ Accepts(b, m) /\ KindOf[m] = "text"
                 /\ Goto(b, "turn")
                 /\ turned' = [turned EXCEPT ![b] = @ \cup {m}]
                 /\ repeated' = [repeated EXCEPT ![b] = @ \cup ({m} \cap turned[b])]
                 /\ dropped' = [dropped EXCEPT ![b] = @ \ {m}]
                 /\ UNCHANGED batch
    /\ UNCHANGED <<host, cursor, errors>>

\* The delegated turn ends; the reply is sent.
TurnEnds(b) ==
    /\ pc[b] = "turn" /\ Goto(b, "reply")
    /\ UNCHANGED <<host, cursor, batch, seen, errors, history>>

\* No such agent, or the delegate failed: fatal, like a gateway error.
TurnFails(b) ==
    /\ pc[b] = "turn"
    /\ PollFails(b, Tail(batch[b]), FALSE)
    /\ UNCHANGED host

Replied(b) ==
    /\ pc[b] = "reply"
    /\ batch' = [batch EXCEPT ![b] = Tail(@)]
    /\ Goto(b, "message")
    /\ UNCHANGED <<host, cursor, seen, errors, history>>

ReplyFails(b, retryable) ==
    /\ pc[b] = "reply"
    /\ PollFails(b, Tail(batch[b]), retryable)
    /\ UNCHANGED host

-----------------------------------------------------------------------------
Thread(b) ==
    \/ StopSeen(b) \/ PollAgain(b) \/ BatchDone(b) \/ TakeMessage(b)
    \/ TurnEnds(b) \/ TurnFails(b) \/ Replied(b)
    \/ \E r \in BOOLEAN : UpdatesFail(b, r) \/ ReplyFails(b, r)
    \/ \E again \in 0..Redeliver, last \in 0..MaxMsgs : Updates(b, again, last)

Stopping(b) == StopSignals(b) \/ StopReturns(b)

WechatNext ==
    \/ ConfirmLogin
    \/ \E b \in Bridges :
          Start(b) \/ StopTakes(b) \/ Status(b) \/ Stopping(b) \/ Thread(b)

WechatSpec == WechatInit /\ [][WechatNext]_wechatVars

\* The polls, the sends and the delegated turn return in bounded time; nothing
\* obliges anyone to start or stop a bridge.
WechatFairSpec ==
    WechatSpec /\ \A b \in Bridges : WF_wechatVars(Thread(b)) /\ WF_wechatVars(Stopping(b))

-----------------------------------------------------------------------------
(* Properties.                                                             *)

\* How far back the gateway may deliver again for the ring to know the message: the
\* ids it took up after that of a message lie less than Redeliver to either side of
\* it, because a poll that failed lets older messages come after younger ones.
RingReaches == 2 * Redeliver <= SEEN_CAP + 1

\* "Dedup: each message_id is handled at most once" (bridge.rs) and "handle every
\* returned message" (poll_once), for one bridge: what the gateway delivers again
\* within the ring's reach (RingReaches) starts no second turn, also after polls that
\* failed half way, and a text from an owner that the cursor has passed started a turn
\* or is about to, unless it was left over by a poll that ended in an error.
HandledOnce ==
    \A b \in Bridges :
        /\ repeated[b] \subseteq Anonymous
        /\ \A m \in 1..cursor[b] :
              KindOf[m] = "text" => m \in turned[b] \cup ToSet(batch[b]) \cup dropped[b]

\* wechat.stop ends a bridge whatever its thread is doing, and can reach every one: a
\* live thread is the one in the slot, or a stop call is already at work on it.
StopEnds ==
    /\ [](\A b \in Bridges : Live(b) => slot = b \/ stopping[b] \in {"taken", "joining"})
    /\ \A b \in Bridges : stopping[b] = "taken" ~> stopping[b] = "returned"

\* Every variable keeps its type.
WechatTypeOK ==
    /\ loggedIn \in BOOLEAN /\ slot \in Bridges \cup {NoBridge}
    /\ stopping \in [Bridges -> {"no", "taken", "joining", "returned"}]
    /\ flag \in [Bridges -> BOOLEAN]
    /\ pc \in [Bridges -> {"unborn", "check", "poll", "message", "turn", "reply", "exited"}]
    /\ cursor \in [Bridges -> 0..MaxMsgs] /\ batch \in [Bridges -> Seq(Messages)]
    /\ seen \in [Bridges -> Seq(Messages \ Anonymous)]
    /\ errors \in [Bridges -> 0..MAX_CONSECUTIVE_ERRORS]
    /\ turned \in [Bridges -> SUBSET Messages] /\ repeated \in [Bridges -> SUBSET Messages]
    /\ dropped \in [Bridges -> SUBSET Messages]
=============================================================================
