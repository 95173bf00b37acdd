------------------------------ MODULE Connection ------------------------------
(***************************************************************************)
(* src/connection/Connection.ts: the WebRTC connection to a peer, and the  *)
(* connections that replace it, which send from the same queue             *)
(* (WebRtcEndpoint.messageQueues).                                         *)
(*                                                                         *)
(* JavaScript runs one callback at a time, so nothing but the native       *)
(* threads of node-datachannel interferes with attemptToFlushMessages,     *)
(* whose iterations are steps of their own here.  The native side is       *)
(* external: it opens, drains and closes the data channel, and its         *)
(* callbacks wait for their turn in the event loop.                        *)
(***************************************************************************)
EXTENDS MessageQueue, FiniteSets

CONSTANTS
    Large,                 \* the messages longer than getMaxMessageSize()
    Burst,                 \* 10, in attemptToFlushMessages
    High,                  \* bufferThresholdHigh, in messages
    Low,                   \* bufferThresholdLow, in messages
    MaxPingPongAttempts,   \* maxPingPongAttempts
    MaxConnections,        \* bound: how often the endpoint connects to the peer
    MaxItems               \* bound: how many messages are sent

ASSUME ThresholdsAssumption == Low \in Nat /\ High \in Nat /\ Low < High
ASSUME BurstAssumption == Burst \in Nat \ {0}
ASSUME PingAssumption == MaxPingPongAttempts \in Nat
ASSUME BoundsAssumption == MaxConnections \in Nat \ {0} /\ MaxItems \in Nat

VARIABLES
    finished,       \* isFinished
    channel,        \* dataChannel # null
    paused,         \* paused
    armed,          \* the timers that are set (flushRef, flushTimeoutRef, ...)
    pingAttempts,   \* pingAttempts
    flushing,       \* attemptToFlushMessages runs
    successes,      \* its numOfSuccessSends
    channelState,   \* native: "new", "open" or "closed"
    buffered,       \* native: bufferedAmount(), in messages
    callbacks,      \* native callbacks the event loop has not run yet
    peerAlive,      \* the peer answers pings and takes data
    connections     \* how many connections there were

jsVars == <<finished, channel, paused, armed, pingAttempts>>
loopVars == <<flushing, successes>>
nativeVars == <<channelState, buffered, callbacks>>
vars == <<queueVars, jsVars, loopVars, nativeVars, peerAlive, connections>>

-----------------------------------------------------------------------------
\* A callback or a timer runs only between runs of attemptToFlushMessages.
Turn == ~flushing /\ UNCHANGED loopVars

Open == channelState = "open"

\* isOpen
IsOpen == channel /\ Open

Arm(timer) == armed' = armed \cup {timer}

Consume(callback) == /\ callback \in callbacks
                     /\ callbacks' = callbacks \ {callback}

\* close, of a connection that is not finished: it removes all listeners,
\* closes the native connection and clears the timers; `timers` are those that
\* are set afterwards.
CloseLeaving(timers) ==
    /\ finished' = TRUE
    /\ channel' = FALSE
    /\ armed' = timers
    /\ channelState' = "closed"
    /\ buffered' = 0
    /\ callbacks' = {}
    /\ UNCHANGED <<paused, pingAttempts>>

\* Mutant of Close: it does not clear the retry timer.
CloseKeepingRetry == CloseLeaving(armed \cap {"flushTimeout"})

Close == CloseLeaving({})

Init ==
    /\ QueueInit
    /\ finished = FALSE
    /\ channel = FALSE
    /\ paused = FALSE
    /\ armed = {"connection", "ping"}
    /\ pingAttempts = 0
    /\ flushing = FALSE
    /\ successes = 0
    /\ channelState = "new"
    /\ buffered = 0
    /\ callbacks = {}
    /\ peerAlive \in BOOLEAN
    /\ connections = 1

-----------------------------------------------------------------------------
(***************************************************************************)
(* The endpoint                                                            *)
(***************************************************************************)
\* WebRtcEndpoint.connect after the last connection has gone: constructor and
\* connect.
NewConnection ==
    /\ Turn
    /\ finished
    /\ connections < MaxConnections
    /\ connections' = connections + 1
    /\ finished' = FALSE
    /\ channel' = FALSE
    /\ paused' = FALSE
    /\ armed' = {"connection", "ping"}
    /\ pingAttempts' = 0
    /\ channelState' = "new"
    /\ buffered' = 0
    /\ callbacks' = {}
    /\ peerAlive' \in BOOLEAN
    /\ UNCHANGED queueVars

\* send; WebRtcEndpoint.send rejects when there is no connection.
Send ==
    /\ Turn
    /\ ~finished
    /\ Len(outcome) < MaxItems
    /\ Arm("flush")
    /\ Add
    /\ UNCHANGED <<finished, channel, paused, pingAttempts, nativeVars, peerAlive, connections>>

\* WebRtcEndpoint.close, or an error from the signaller
EndpointCloses ==
    /\ Turn
    /\ ~finished
    /\ Close
    /\ UNCHANGED <<queueVars, peerAlive, connections>>

-----------------------------------------------------------------------------
(***************************************************************************)
(* Timers and native callbacks                                             *)
(***************************************************************************)
\* The connection timer; the state "connecting" only sets it again.
ConnectionTimesOut ==
    /\ Turn
    /\ "connection" \in armed
    /\ ~finished
    /\ Close
    /\ UNCHANGED <<queueVars, peerAlive, connections>>

\* Mutant of PingFires: the attempts are not counted.
PingFiresUncounted ==
    /\ Turn
    /\ "ping" \in armed
    /\ IF IsOpen /\ pingAttempts >= MaxPingPongAttempts
       THEN CloseLeaving({"ping"})
       ELSE UNCHANGED <<jsVars, nativeVars>>
    /\ UNCHANGED <<queueVars, peerAlive, connections>>

\* ping.  It arms its timer again even when it has just closed the connection.
PingFires ==
    /\ Turn
    /\ "ping" \in armed
    /\ IF IsOpen /\ pingAttempts >= MaxPingPongAttempts
       THEN CloseLeaving({"ping"})
       ELSE /\ pingAttempts' = IF IsOpen THEN pingAttempts + 1 ELSE pingAttempts
            /\ UNCHANGED <<finished, channel, paused, armed, nativeVars>>
    /\ UNCHANGED <<queueVars, peerAlive, connections>>

\* onStateChange ("disconnected", "failed" or "closed") or the data channel's
\* "closed"
OnClosed ==
    /\ Turn
    /\ "closed" \in callbacks
    /\ Close
    /\ UNCHANGED <<queueVars, peerAlive, connections>>

\* onDataChannel and the data channel's "open": openDataChannel
OnOpen ==
    /\ Turn
    /\ Consume("open")
    /\ channel' = TRUE
    /\ armed' = (armed \ {"connection"}) \cup {"flush"}
    /\ UNCHANGED <<finished, paused, pingAttempts, channelState, buffered,
                   queueVars, peerAlive, connections>>

\* The data channel's "bufferedAmountLow"
OnBufferedAmountLow ==
    /\ Turn
    /\ Consume("bufferedAmountLow")
    /\ paused' = FALSE
    /\ IF paused THEN Arm("flush") ELSE UNCHANGED armed
    /\ UNCHANGED <<finished, channel, pingAttempts, channelState, buffered,
                   queueVars, peerAlive, connections>>

\* The message "pong"
OnPong ==
    /\ Turn
    /\ Consume("pong")
    /\ pingAttempts' = 0
    /\ UNCHANGED <<finished, channel, paused, armed, channelState, buffered,
                   queueVars, peerAlive, connections>>

-----------------------------------------------------------------------------
(***************************************************************************)
(* attemptToFlushMessages                                                  *)
(***************************************************************************)
\* setImmediate or the retry timer calls it.
FlushStarts(timer) ==
    /\ ~flushing
    /\ timer \in armed
    /\ armed' = armed \ {timer}
    /\ flushing' = TRUE
    /\ successes' = 0
    /\ UNCHANGED <<queueVars, finished, channel, paused, pingAttempts, nativeVars,
                   peerAlive, connections>>

Continues == UNCHANGED flushing

Returns == flushing' = FALSE

\* The condition of the loop
HasWork == ~finished /\ queue # <<>> /\ channel

LoopEnds ==
    /\ flushing
    /\ ~HasWork
    /\ Returns
    /\ UNCHANGED <<queueVars, jsVars, successes, nativeVars, peerAlive, connections>>

\* Mutant of Relinquish: nobody flushes the rest.
RelinquishForGood ==
    /\ flushing
    /\ HasWork
    /\ successes >= Burst
    /\ Returns
    /\ UNCHANGED <<queueVars, jsVars, successes, nativeVars, peerAlive, connections>>

Relinquish ==
    /\ flushing
    /\ HasWork
    /\ successes >= Burst
    /\ Arm("flush")
    /\ Returns
    /\ UNCHANGED <<queueVars, finished, channel, paused, pingAttempts, successes,
                   nativeVars, peerAlive, connections>>

\* The iteration gets to the message at the head of the queue.
AtHead == flushing /\ HasWork /\ successes < Burst

DropTooLarge ==
    /\ AtHead
    /\ Head(queue) \in Large
    /\ ImmediateFail
    /\ Continues
    /\ UNCHANGED <<jsVars, successes, nativeVars, peerAlive, connections>>

BufferIsHigh == buffered >= High

PauseFlush ==
    /\ AtHead
    /\ Head(queue) \notin Large
    /\ paused \/ BufferIsHigh
    /\ paused' = TRUE
    /\ Returns
    /\ UNCHANGED <<queueVars, finished, channel, armed, pingAttempts, successes,
                   nativeVars, peerAlive, connections>>

Sends == /\ AtHead
         /\ Head(queue) \notin Large
         /\ ~paused
         /\ ~BufferIsHigh

SendSucceeds ==
    /\ Sends
    /\ Open
    /\ Delivered
    /\ buffered' = buffered + 1
    /\ successes' = successes + 1
    /\ Continues
    /\ UNCHANGED <<jsVars, channelState, callbacks, peerAlive, connections>>

\* Mutant of ProcessFailedMessage: no retry is scheduled.
ProcessFailedMessageOnly ==
    /\ IncrementTries
    /\ UNCHANGED armed

\* processFailedMessage
ProcessFailedMessage ==
    /\ IncrementTries
    /\ Arm("flushTimeout")

\* sendMessage returns false, or the channel is found closed right after it:
\* the loop goes on.
SendRefused ==
    /\ Sends
    /\ ProcessFailedMessage
    /\ Continues
    /\ UNCHANGED <<finished, channel, paused, pingAttempts, successes, nativeVars,
                   peerAlive, connections>>

\* sendMessage throws: the retry timer goes on.
SendThrows ==
    /\ Sends
    /\ ProcessFailedMessage
    /\ Returns
    /\ UNCHANGED <<finished, channel, paused, pingAttempts, successes, nativeVars,
                   peerAlive, connections>>

LoopStep == \/ LoopEnds \/ Relinquish \/ DropTooLarge \/ PauseFlush
            \/ SendSucceeds \/ SendRefused \/ SendThrows

-----------------------------------------------------------------------------
(***************************************************************************)
(* The native side, on threads of its own                                  *)
(***************************************************************************)
Native == UNCHANGED <<queueVars, jsVars, loopVars, connections>>

ChannelOpens ==
    /\ channelState = "new"
    /\ peerAlive
    /\ channelState' = "open"
    /\ callbacks' = callbacks \cup {"open"}
    /\ UNCHANGED <<buffered, peerAlive>>
    /\ Native

\* The channel or the peer connection closes or fails.
ChannelCloses ==
    /\ channelState # "closed"
    /\ channelState' = "closed"
    /\ buffered' = 0
    /\ callbacks' = callbacks \cup {"closed"}
    /\ UNCHANGED peerAlive
    /\ Native

\* A buffered message leaves; the callback is made when the amount falls to the
\* threshold of setBufferedAmountLowThreshold.
Drain ==
    /\ Open
    /\ peerAlive
    /\ buffered > 0
    /\ buffered' = buffered - 1
    /\ callbacks' = IF buffered = Low + 1
                    THEN callbacks \cup {"bufferedAmountLow"}
                    ELSE callbacks
    /\ UNCHANGED <<channelState, peerAlive>>
    /\ Native

PeerPongs ==
    /\ Open
    /\ peerAlive
    /\ pingAttempts > 0
    /\ "pong" \notin callbacks
    /\ callbacks' = callbacks \cup {"pong"}
    /\ UNCHANGED <<channelState, buffered, peerAlive>>
    /\ Native

\* The peer crashes or the network to it breaks, and nothing tells.
PeerDies ==
    /\ peerAlive
    /\ peerAlive' = FALSE
    /\ UNCHANGED nativeVars
    /\ Native

Next == \/ NewConnection \/ Send \/ EndpointCloses
        \/ ConnectionTimesOut \/ PingFires
        \/ OnClosed \/ OnOpen \/ OnBufferedAmountLow \/ OnPong
        \/ \E timer \in {"flush", "flushTimeout"} : FlushStarts(timer)
        \/ LoopStep
        \/ ChannelOpens \/ ChannelCloses \/ Drain \/ PeerPongs \/ PeerDies

Spec == Init /\ [][Next]_vars

\* Timers fire, the event loop runs the callbacks and the loop, and a peer that
\* is alive takes what is buffered.
FairSpec ==
    /\ Spec
    /\ WF_vars(ConnectionTimesOut)
    /\ WF_vars(PingFires)
    /\ WF_vars(OnClosed)
    /\ WF_vars(OnOpen)
    /\ WF_vars(OnBufferedAmountLow)
    /\ WF_vars(FlushStarts("flush"))
    /\ WF_vars(FlushStarts("flushTimeout"))
    /\ WF_vars(LoopStep)
    /\ WF_vars(Drain)

-----------------------------------------------------------------------------
FlagsOK ==
    /\ finished \in BOOLEAN
    /\ channel \in BOOLEAN
    /\ paused \in BOOLEAN
    /\ flushing \in BOOLEAN
    /\ peerAlive \in BOOLEAN

ValuesOK ==
    /\ armed \subseteq {"flush", "flushTimeout", "connection", "ping"}
    /\ pingAttempts \in 0 .. MaxPingPongAttempts
    /\ successes \in 0 .. Burst
    /\ channelState \in {"new", "open", "closed"}
    /\ buffered \in 0 .. High
    /\ callbacks \subseteq {"open", "closed", "bufferedAmountLow", "pong"}
    /\ connections \in 1 .. MaxConnections

TypeOK == QueueTypeOK /\ FlagsOK /\ ValuesOK

\* What close leaves behind.
FinishedIsClosed ==
    finished => /\ ~channel
                /\ channelState = "closed"
                /\ callbacks = {}
                /\ ~flushing
                /\ armed \subseteq {"ping"}

\* A paused connection has a callback coming.
PausedIsWatched ==
    paused /\ ~finished =>
        buffered > Low \/ callbacks \cap {"bufferedAmountLow", "closed"} # {}

\* Whatever waits to be sent on an open channel is waited for by somebody: the
\* loop runs or will run by a timer, or the connection is paused and the native
\* side has a callback to make or has made it.  Pausing, draining, retrying and
\* relinquishing never leave a message that only the next send would flush.
NoLostWakeup ==
    queue # <<>> /\ channel /\ ~flushing =>
        \/ armed \cap {"flush", "flushTimeout"} # {}
        \/ "closed" \in callbacks
        \/ paused /\ (buffered > Low \/ "bufferedAmountLow" \in callbacks)

\* A connection that is closed has no timer that takes messages from the queue
\* the next connection to the peer uses; only its ping timer may go on
\* (ping arms it after close).
ClosedStaysQuiet == finished => ~flushing /\ armed \subseteq {"ping"}

\* The inductive invariant of Connection_proofs.
ConnectionIInv == TypeOK /\ FinishedIsClosed /\ PausedIsWatched /\ NoLostWakeup

Pending(i) == i \in DOMAIN outcome /\ outcome[i] = "pending"

\* A message gets an outcome unless the connection is closed: it is not stuck
\* behind failures, a full buffer or a dead peer.
MessagesSettle ==
    \A i \in 1 .. MaxItems : Pending(i) /\ ~finished ~> ~Pending(i) \/ finished

\* A connection to a peer that died is closed, by the pings or by the timeout.
DeadPeerIsDropped == ~peerAlive /\ ~finished ~> finished
=============================================================================
