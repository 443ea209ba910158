------------------------------ MODULE AgentWs ------------------------------
(***************************************************************************)
(* AgentWsService (src/conversations/agent/agent.ws.service.ts): the       *)
(* connection of one conversation to the external agent.  Every handler    *)
(* touches only the entry of its own conversationId in the sessions map,   *)
(* so the module follows one entry over its successive sessions.           *)
(*                                                                         *)
(* An action is one event-loop task: JavaScript runs it to its end.  The   *)
(* `ws` sockets and the network are external; a socket identity is used    *)
(* again once its socket is closed and nothing refers to it.  Time is not  *)
(* counted: an armed timer may fire in any state.                          *)
(***************************************************************************)
EXTENDS Naturals, Sequences, FiniteSets

CONSTANTS
  Sockets,        \* identities of `ws` sockets
  Payloads,       \* what the service's users send
  None,           \* null
  NoSession,      \* sessions.get(conversationId) is undefined
  MaxAttempts,    \* reconnectMaxAttempts
  MaxSends,       \* bound: payloads sent in a session
  MaxHeard,       \* bound: callback invocations in a session
  MaxSubscribers, \* bound: onMessage calls in a session
  MaxPings,       \* bound: unanswered pings (only reached with overlapPings)
  MaxOrphans      \* bound: orphaned pong timers (only with overlapPings)

ASSUME AttemptsAssumption == MaxAttempts \in Nat \ {0}  \* parseIntWithFallback
ASSUME BoundsAssumption == /\ MaxSends \in Nat
                           /\ MaxHeard \in Nat
                           /\ MaxSubscribers \in Nat
                           /\ MaxPings \in Nat
                           /\ MaxOrphans \in Nat
ASSUME NoneAssumption == None \notin Sockets

VARIABLES
  wsUrl,           \* agentConfig.wsUrl: "empty", "invalid" or "valid"
  overlapPings,    \* heartbeatTimeoutMs > heartbeatIntervalMs: a ping may be
                   \* due while the pong of the one before is still awaited
  session,         \* the entry of the conversation in `sessions`, or NoSession
  readyState,      \* readyState of each socket
  listened,        \* the sockets the service's handlers are attached to
  peerSilent,      \* the link of session.ws is dead, and nobody was told
  unanswered,      \* pings sent on session.ws and not answered yet
  orphanTimeouts,  \* armed pong timers that no session holds the handle of
  crashed,         \* the process died of an unhandled 'error' event
  accepted, written, heard  \* history of the session, see AgentChannel

config == <<wsUrl, overlapPings>>
peerVars == <<peerSilent, unanswered>>
history == <<accepted, written, heard>>
vars == <<wsUrl, overlapPings, session, readyState, listened, peerSilent, unanswered,
          orphanTimeouts, crashed, accepted, written, heard>>

\* SessionState; a timer is TRUE while it is armed.  closedByUser is set only
\* right before the entry is deleted, so no handler ever reads it as true.
SessionState ==
  [ws : Sockets \cup {None}, pending : Seq(Payloads),
   reconnectAttempt : 0..MaxAttempts, reconnectTimer : BOOLEAN,
   heartbeatInterval : BOOLEAN, heartbeatTimeout : BOOLEAN,
   subscribers : Nat]

ASSUME NoSessionAssumption == NoSession \notin SessionState

IsOpen == session # NoSession
Live(s) == readyState[s] \in {"CONNECTING", "OPEN"}
ConnectionOpen == /\ IsOpen
                  /\ session.ws # None
                  /\ readyState[session.ws] = "OPEN"

\* The environment variables are read once, at start.
Init == /\ wsUrl \in {"empty", "invalid", "valid"}
        /\ overlapPings \in BOOLEAN
        /\ session = NoSession
        /\ readyState = [s \in Sockets |-> "CLOSED"]
        /\ listened = {}
        /\ peerSilent = FALSE
        /\ unanswered = 0
        /\ orphanTimeouts = 0
        /\ crashed = FALSE
        /\ accepted = << >>
        /\ written = << >>
        /\ heard = 0
-----------------------------------------------------------------------------
(* The private methods, as functions of a session or as parts of actions.  *)

FreshSession == [ws |-> None, pending |-> << >>, reconnectAttempt |-> 0,
                 reconnectTimer |-> FALSE, heartbeatInterval |-> FALSE,
                 heartbeatTimeout |-> FALSE, subscribers |-> 0]

clearHeartbeat(st) == [st EXCEPT !.heartbeatInterval = FALSE,
                                 !.heartbeatTimeout = FALSE]

\* Mistake: the heartbeat timers are forgotten.
clearTimersMistake(st) == [st EXCEPT !.reconnectTimer = FALSE]

clearTimers(st) == [clearHeartbeat(st) EXCEPT !.reconnectTimer = FALSE]

\* Mistakes: one attempt too many; attempts are not counted.
scheduleReconnectOffByOne(st) ==
  IF st.reconnectAttempt > MaxAttempts
    THEN NoSession
    ELSE [st EXCEPT !.reconnectAttempt = @ + 1, !.reconnectTimer = TRUE]
scheduleReconnectUncounted(st) == [st EXCEPT !.reconnectTimer = TRUE]

\* Arm the next attempt, or give the session up.  session.ws is null here.
scheduleReconnect(st) ==
  IF st.reconnectAttempt >= MaxAttempts
    THEN NoSession
    ELSE [st EXCEPT !.reconnectAttempt = @ + 1, !.reconnectTimer = TRUE]

\* st is the session before the call.
openSocket(st) ==
  \/ /\ wsUrl = "empty"
     /\ session' = st
     /\ UNCHANGED <<readyState, listened, peerSilent, unanswered>>
  \/ /\ wsUrl = "invalid"  \* the constructor throws
     /\ session' = scheduleReconnect(st)
     /\ UNCHANGED <<readyState, listened, peerSilent, unanswered>>
  \/ /\ wsUrl = "valid"
     /\ \E s \in Sockets :
          /\ readyState[s] = "CLOSED"
          /\ session' = [st EXCEPT !.ws = s]
          /\ readyState' = [readyState EXCEPT ![s] = "CONNECTING"]
          /\ listened' = listened \cup {s}
     /\ peerSilent' = FALSE
     /\ unanswered' = 0

\* ws.terminate() on session.ws: 'close' follows as an event of its own.
terminate(s) == /\ readyState' = [readyState EXCEPT ![s] = "CLOSING"]
                /\ UNCHANGED listened
-----------------------------------------------------------------------------
(* IAgentService.  A call without a session, and connect with one, change  *)
(* nothing.                                                                *)

connect == /\ session = NoSession
           /\ ~crashed
           /\ openSocket(FreshSession)
           /\ accepted' = << >>
           /\ written' = << >>
           /\ heard' = 0
           /\ UNCHANGED <<config, orphanTimeouts, crashed>>

onMessage == /\ IsOpen
             /\ session.subscribers < MaxSubscribers
             /\ session' = [session EXCEPT !.subscribers = @ + 1]
             /\ UNCHANGED <<config, readyState, listened, peerVars,
                            orphanTimeouts, crashed, history>>

\* Mistake: a payload for a connection that is not open is not buffered.
sendUnbuffered(p) ==
  /\ IsOpen
  /\ Len(accepted) < MaxSends
  /\ accepted' = Append(accepted, p)
  /\ written' = IF ConnectionOpen THEN Append(written, p) ELSE written
  /\ UNCHANGED <<config, session, readyState, listened, peerVars,
                 orphanTimeouts, crashed, heard>>

send(p) ==
  /\ IsOpen
  /\ Len(accepted) < MaxSends
  /\ accepted' = Append(accepted, p)
  /\ \/ /\ ConnectionOpen
        /\ written' = Append(written, p)
        /\ UNCHANGED session
     \/ /\ ~ConnectionOpen
        /\ session' = [session EXCEPT !.pending = Append(@, p)]
        /\ UNCHANGED written
  /\ UNCHANGED <<config, readyState, listened, peerVars, orphanTimeouts,
                 crashed, heard>>

\* Mistake: the handlers are left on the socket.
closeKeepingListeners ==
  /\ IsOpen
  /\ session.ws # None => readyState[session.ws] # "CONNECTING"
  /\ session' = NoSession
  /\ readyState' = [s \in Sockets |-> IF s = session.ws /\ Live(s)
                                        THEN "CLOSING" ELSE readyState[s]]
  /\ UNCHANGED <<config, listened, peerVars, orphanTimeouts, crashed, history>>

\* The handlers come off the socket before it is told to close.
close == /\ IsOpen
         /\ session.ws # None => readyState[session.ws] # "CONNECTING"
         /\ session' = NoSession
         /\ listened' = listened \ {session.ws}
         /\ readyState' = [s \in Sockets |-> IF s = session.ws /\ Live(s)
                                               THEN "CLOSING"
                                               ELSE readyState[s]]
         /\ UNCHANGED <<config, peerVars, orphanTimeouts, crashed, history>>

\* The same call while the handshake is under way: `ws` aborts it and emits
\* 'error' on the next tick, when no handler is left to take it; an 'error'
\* event nobody handles ends the process, with everything it held.
closeWhileConnecting ==
  /\ IsOpen
  /\ session.ws # None
  /\ readyState[session.ws] = "CONNECTING"
  /\ session' = NoSession
  /\ listened' = {}
  /\ readyState' = [s \in Sockets |-> "CLOSED"]
  /\ peerSilent' = FALSE
  /\ unanswered' = 0
  /\ orphanTimeouts' = 0
  /\ crashed' = TRUE
  /\ UNCHANGED <<config, history>>

\* The process is started again.
Restart == /\ crashed
           /\ crashed' = FALSE
           /\ UNCHANGED <<config, session, readyState, listened, peerVars,
                          orphanTimeouts, history>>
-----------------------------------------------------------------------------
(* The handlers of socket events and of timers.                            *)

\* Mistake: the buffer is written and kept.
onSocketOpenKeepingBuffer(s) ==
  /\ readyState[s] = "CONNECTING"
  /\ s \in listened
  /\ readyState' = [readyState EXCEPT ![s] = "OPEN"]
  /\ session' = [session EXCEPT !.reconnectAttempt = 0,
                                !.heartbeatInterval = TRUE]
  /\ written' = written \o session.pending
  /\ UNCHANGED <<config, listened, peerVars, orphanTimeouts, crashed,
                 accepted, heard>>

onSocketOpen(s) ==
  /\ readyState[s] = "CONNECTING"
  /\ readyState' = [readyState EXCEPT ![s] = "OPEN"]
  /\ IF s \in listened /\ IsOpen /\ session.ws # None
       THEN /\ session' = [clearHeartbeat(session)
                             EXCEPT !.reconnectAttempt = 0,
                                    !.pending = << >>,
                                    !.heartbeatInterval = TRUE]
            /\ written' = written \o session.pending
       ELSE UNCHANGED <<session, written>>
  /\ UNCHANGED <<config, listened, peerVars, orphanTimeouts, crashed,
                 accepted, heard>>

\* A payload with the shape of an AgentMessagePayload; any other is dropped.
onSocketMessage(s) ==
  /\ readyState[s] = "OPEN"
  /\ s \in listened
  /\ s = session.ws => ~peerSilent
  /\ IsOpen
  /\ session.subscribers > 0
  /\ heard + session.subscribers <= MaxHeard
  /\ heard' = heard + session.subscribers
  /\ UNCHANGED <<config, session, readyState, listened, peerVars,
                 orphanTimeouts, crashed, accepted, written>>

\* Mistake: no reconnect after a failed handshake.
onSocketCloseGivingUp(s) ==
  /\ readyState[s] \in {"CONNECTING", "CLOSING"}
  /\ readyState' = [readyState EXCEPT ![s] = "CLOSED"]
  /\ listened' = listened \ {s}
  /\ session' = IF s \in listened
                  THEN [clearTimers(session) EXCEPT !.ws = None]
                  ELSE session
  /\ UNCHANGED <<config, peerVars, orphanTimeouts, crashed, history>>

\* The last event of a socket, after a failed handshake ('error' is logged
\* first), a closing handshake or a lost connection.
onSocketClose(s) ==
  /\ readyState[s] \in {"CONNECTING", "CLOSING"}
  /\ readyState' = [readyState EXCEPT ![s] = "CLOSED"]
  /\ listened' = listened \ {s}
  /\ IF s \in listened /\ IsOpen
       THEN session' = scheduleReconnect([clearTimers(session)
                                            EXCEPT !.ws = None])
       ELSE UNCHANGED session
  /\ UNCHANGED <<config, peerVars, orphanTimeouts, crashed, history>>

\* Mistake: the pong leaves the timeout armed.
onPongIgnored(s) ==
  /\ readyState[s] = "OPEN"
  /\ s \in listened
  /\ unanswered > 0
  /\ ~peerSilent
  /\ unanswered' = unanswered - 1
  /\ UNCHANGED <<config, session, readyState, listened, peerSilent,
                 orphanTimeouts, crashed, history>>

onPong(s) ==
  /\ readyState[s] = "OPEN"
  /\ s \in listened
  /\ IsOpen
  /\ unanswered > 0
  /\ ~peerSilent
  /\ unanswered' = unanswered - 1
  /\ session' = [session EXCEPT !.heartbeatTimeout = FALSE]
  /\ UNCHANGED <<config, readyState, listened, peerSilent, orphanTimeouts,
                 crashed, history>>

reconnectFires ==
  /\ IsOpen
  /\ session.reconnectTimer
  /\ openSocket([session EXCEPT !.reconnectTimer = FALSE])
  /\ UNCHANGED <<config, orphanTimeouts, crashed, history>>

\* Mistake: nothing times the pong.
heartbeatTickUntimed ==
  /\ ConnectionOpen
  /\ session.heartbeatInterval
  /\ unanswered < MaxPings
  /\ unanswered' = unanswered + 1
  /\ UNCHANGED <<config, session, readyState, listened, peerSilent,
                 orphanTimeouts, crashed, history>>

\* The interval's callback: ping, and time the answer.  The handle of an
\* older timer that is still armed is overwritten, not cleared.
heartbeatTick ==
  /\ ConnectionOpen
  /\ session.heartbeatInterval
  /\ session.heartbeatTimeout => overlapPings /\ orphanTimeouts < MaxOrphans
  /\ unanswered < MaxPings
  /\ unanswered' = unanswered + 1
  /\ session' = [session EXCEPT !.heartbeatTimeout = TRUE]
  /\ orphanTimeouts' = IF session.heartbeatTimeout
                         THEN orphanTimeouts + 1
                         ELSE orphanTimeouts
  /\ UNCHANGED <<config, readyState, listened, peerSilent, crashed, history>>

\* No pong came in time on the last ping.
heartbeatTimeoutFires ==
  /\ IsOpen
  /\ session.heartbeatTimeout
  /\ session' = [session EXCEPT !.heartbeatTimeout = FALSE]
  /\ IF session.ws # None
       THEN terminate(session.ws)
       ELSE UNCHANGED <<readyState, listened>>
  /\ UNCHANGED <<config, peerVars, orphanTimeouts, crashed, history>>

\* A timer whose handle was overwritten fires: it looks the conversation up
\* and terminates whatever socket it finds there.
orphanTimeoutFires ==
  /\ orphanTimeouts > 0
  /\ orphanTimeouts' = orphanTimeouts - 1
  /\ IF IsOpen /\ session.ws # None
       THEN terminate(session.ws)
       ELSE UNCHANGED <<readyState, listened>>
  /\ UNCHANGED <<config, session, peerVars, crashed, history>>
-----------------------------------------------------------------------------
(* The agent and the network.                                              *)

\* The agent, or its host, closes the connection: 'close' comes later.
PeerCloses(s) == /\ readyState[s] = "OPEN"
                 /\ readyState' = [readyState EXCEPT ![s] = "CLOSING"]
                 /\ UNCHANGED <<config, session, listened, peerVars,
                                orphanTimeouts, crashed, history>>

\* The link dies without a word to either side.
PeerFallsSilent == /\ ConnectionOpen
                   /\ ~peerSilent
                   /\ peerSilent' = TRUE
                   /\ UNCHANGED <<config, session, readyState, listened,
                                  unanswered, orphanTimeouts, crashed, history>>
-----------------------------------------------------------------------------
Caller == connect \/ onMessage \/ close \/ closeWhileConnecting
            \/ \E p \in Payloads : send(p)
Socket(s) == onSocketOpen(s) \/ onSocketMessage(s) \/ onSocketClose(s)
               \/ onPong(s) \/ PeerCloses(s)
Timer == reconnectFires \/ heartbeatTick \/ heartbeatTimeoutFires
           \/ orphanTimeoutFires
Next == \/ Caller
        \/ \E s \in Sockets : Socket(s)
        \/ Timer
        \/ PeerFallsSilent
        \/ Restart

Spec == Init /\ [][Next]_vars

\* Node fires its timers; `ws` ends a handshake (handshakeTimeout) and a
\* closing socket (its own close timer) in bounded time.  Nothing is asked of
\* the callers or of the agent.
Fairness == /\ WF_vars(reconnectFires)
            /\ WF_vars(heartbeatTick)
            /\ WF_vars(heartbeatTimeoutFires)
            /\ \A s \in Sockets : WF_vars(onSocketOpen(s) \/ onSocketClose(s))

FairSpec == Spec /\ Fairness
-----------------------------------------------------------------------------
TypeOK == /\ wsUrl \in {"empty", "invalid", "valid"}
          /\ overlapPings \in BOOLEAN
          /\ session \in SessionState \cup {NoSession}
          /\ readyState \in
               [Sockets -> {"CONNECTING", "OPEN", "CLOSING", "CLOSED"}]
          /\ listened \subseteq Sockets
          /\ peerSilent \in BOOLEAN
          /\ unanswered \in Nat
          /\ orphanTimeouts \in Nat
          /\ crashed \in BOOLEAN
          /\ accepted \in Seq(Payloads)
          /\ written \in Seq(Payloads)
          /\ heard \in Nat

\* Through reconnects, closes and reopenings, the handlers are attached to no
\* socket but the one in session.ws, and that one has not closed: an event of
\* an earlier connection never reaches the current session.
SingleConnection ==
  /\ listened = IF IsOpen THEN {session.ws} \ {None} ELSE {}
  /\ IsOpen /\ session.ws # None => readyState[session.ws] # "CLOSED"

\* The timers of a session fit its connection: a reconnect is armed only
\* between two sockets, and the heartbeat runs only on an opened socket.
TimersFitConnection ==
  IsOpen =>
    /\ session.reconnectTimer => session.ws = None
    /\ session.heartbeatInterval =>
         /\ session.ws # None
         /\ readyState[session.ws] \in {"OPEN", "CLOSING"}
    /\ session.heartbeatTimeout => session.heartbeatInterval

\* A session that has a url and no socket is waiting for its next attempt: it
\* is never left with neither.
NeverStranded ==
  IsOpen /\ session.ws = None /\ wsUrl # "empty" => session.reconnectTimer

\* Nothing waits in the buffer of an open connection, and what was written
\* followed by what waits is what was sent, in that order.
SentInOrder ==
  IsOpen => /\ accepted = written \o session.pending
            /\ ConnectionOpen => session.pending = << >>

\* The timeouts terminate a connection only while a ping is unanswered: the
\* link to a peer that answered in time is kept.
TerminatesOnlyUnanswered ==
  heartbeatTimeoutFires \/ orphanTimeoutFires
    => readyState' = readyState \/ unanswered > 0

\* With a heartbeat timeout no longer than the interval (10 s and 25 s unless
\* configured otherwise), a peer that answered is not cut off.
AnsweringPeerKept == [][ ~overlapPings => TerminatesOnlyUnanswered ]_vars

\* With a url, a session gets its connection or is given up: failed attempts
\* do not go on for ever.
ConnectsOrGivesUp == (IsOpen /\ wsUrl # "empty") ~> (ConnectionOpen \/ ~IsOpen)

\* A link that died silently is noticed: the connection leaves OPEN.
SilentPeerNoticed == (ConnectionOpen /\ peerSilent)
                        ~> ~(ConnectionOpen /\ peerSilent)

Channel == INSTANCE AgentChannel WITH isOpen <- IsOpen

\* The service keeps the promise of IAgentService.
ImplementsChannel == Channel!Spec
-----------------------------------------------------------------------------
(* What a comment of the code says, and the code does not do. *)

\* The process is not ended by closing a session ("correctly close the
\* session", conversations.service.ts:164).
ClosingIsSafe == ~crashed
=============================================================================
