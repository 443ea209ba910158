--------------------------- MODULE AgentWs_proofs ---------------------------
(***************************************************************************)
(* What holds of AgentWs for every number of sockets, payloads and         *)
(* attempts, with or without a url and for any heartbeat times.            *)
(***************************************************************************)
EXTENDS AgentWs, SequenceTheorems, TLAPS

\* A session that AgentWs builds by an update of its fields has its type.
LEMMA FreshSessionType == FreshSession \in SessionState
BY AttemptsAssumption DEF FreshSession, SessionState

LEMMA ClearTimersType ==
  ASSUME NEW st \in SessionState
  PROVE  /\ clearHeartbeat(st) \in SessionState
         /\ clearTimers(st) \in SessionState
BY DEF clearHeartbeat, clearTimers, SessionState

LEMMA ScheduleReconnectType ==
  ASSUME NEW st \in SessionState
  PROVE  scheduleReconnect(st) \in SessionState \cup {NoSession}
<1>1. CASE st.reconnectAttempt >= MaxAttempts
  BY <1>1 DEF scheduleReconnect
<1>2. CASE ~(st.reconnectAttempt >= MaxAttempts)
  <2>1. st.reconnectAttempt \in 0..MaxAttempts
    BY DEF SessionState
  <2>2. st.reconnectAttempt + 1 \in 0..MaxAttempts
    BY <1>2, <2>1, AttemptsAssumption
  <2>3. [st EXCEPT !.reconnectAttempt = @ + 1, !.reconnectTimer = TRUE]
          \in SessionState
    BY <2>2 DEF SessionState
  <2>4. QED
    BY <1>2, <2>3 DEF scheduleReconnect
<1>3. QED
  BY <1>1, <1>2
\* Opened is the session after onSocketOpen.
Opened(st) == [clearHeartbeat(st) EXCEPT !.reconnectAttempt = 0,
                                         !.pending = << >>,
                                         !.heartbeatInterval = TRUE]

LEMMA SessionUpdates ==
  ASSUME NEW st \in SessionState
  PROVE  /\ \A b \in BOOLEAN : [st EXCEPT !.heartbeatTimeout = b] \in SessionState
         /\ [st EXCEPT !.subscribers = @ + 1] \in SessionState
         /\ \A p \in Payloads :
              [st EXCEPT !.pending = Append(@, p)] \in SessionState
         /\ Opened(st) \in SessionState
<1>1. \A b \in BOOLEAN : [st EXCEPT !.heartbeatTimeout = b] \in SessionState
  BY DEF SessionState
<1>2. [st EXCEPT !.subscribers = @ + 1] \in SessionState
  <2>1. st.subscribers + 1 \in Nat
    BY DEF SessionState
  <2>2. QED
    BY <2>1 DEF SessionState
<1>3. ASSUME NEW p \in Payloads
      PROVE  [st EXCEPT !.pending = Append(@, p)] \in SessionState
  <2>1. Append(st.pending, p) \in Seq(Payloads)
    BY DEF SessionState
  <2>2. QED
    BY <2>1 DEF SessionState
<1>4. Opened(st) \in SessionState
  <2>1. clearHeartbeat(st) \in SessionState
    BY ClearTimersType
  <2>2. << >> \in Seq(Payloads) /\ 0 \in 0..MaxAttempts
    BY AttemptsAssumption
  <2>3. QED
    BY <2>1, <2>2 DEF Opened, SessionState
<1>5. QED
  BY <1>1, <1>2, <1>3, <1>4
-----------------------------------------------------------------------------
(* Type correctness. *)

LEMMA OpenSocketType ==
  ASSUME TypeOK, NEW st \in SessionState, openSocket(st)
  PROVE  /\ session' \in SessionState \cup {NoSession}
         /\ readyState' \in
              [Sockets -> {"CONNECTING", "OPEN", "CLOSING", "CLOSED"}]
         /\ listened' \subseteq Sockets
         /\ peerSilent' \in BOOLEAN
         /\ unanswered' \in Nat
<1>1. CASE wsUrl = "valid" /\ openSocket(st)
  <2>1. PICK s \in Sockets :
           /\ session' = [st EXCEPT !.ws = s]
           /\ readyState' = [readyState EXCEPT ![s] = "CONNECTING"]
           /\ listened' = listened \cup {s}
    BY <1>1 DEF openSocket
  <2>2. session' \in SessionState
    BY <2>1 DEF SessionState
  <2>3. peerSilent' = FALSE /\ unanswered' = 0
    BY <1>1 DEF openSocket
  <2>4. QED
    BY <2>1, <2>2, <2>3 DEF TypeOK
<1>2. CASE wsUrl # "valid"
  BY <1>2, ScheduleReconnectType DEF openSocket, TypeOK
<1>3. QED
  BY <1>1, <1>2

\* Every variable keeps its type: the service never leaves a session with
\* more attempts than configured, or with a socket that is none of its own.
THEOREM TypeCorrect == Spec => []TypeOK
<1>1. Init => TypeOK
  <2> SUFFICES ASSUME Init PROVE TypeOK
    OBVIOUS
  <2>1. accepted \in Seq(Payloads) /\ written \in Seq(Payloads)
    BY DEF Init
  <2>2. /\ readyState \in
             [Sockets -> {"CONNECTING", "OPEN", "CLOSING", "CLOSED"}]
        /\ listened \subseteq Sockets
    BY DEF Init
  <2>3. QED
    BY <2>1, <2>2 DEF Init, TypeOK
<1>2. ASSUME TypeOK, [Next]_vars PROVE TypeOK'
  <2> USE <1>2 DEF TypeOK, IsOpen, ConnectionOpen, config, peerVars, history
  <2>1. CASE connect
    <3>1. openSocket(FreshSession)
      BY <2>1 DEF connect
    <3>2. /\ session' \in SessionState \cup {NoSession}
          /\ readyState' \in
               [Sockets -> {"CONNECTING", "OPEN", "CLOSING", "CLOSED"}]
          /\ listened' \subseteq Sockets
          /\ peerSilent' \in BOOLEAN
          /\ unanswered' \in Nat
      BY <3>1, FreshSessionType, OpenSocketType
    <3>3. QED
      BY <2>1, <3>2 DEF connect
  <2>2. CASE onMessage
    BY <2>2, SessionUpdates DEF onMessage
  <2>3. ASSUME NEW p \in Payloads, send(p) PROVE TypeOK'
    <3>1. Append(accepted, p) \in Seq(Payloads) /\ Append(written, p) \in Seq(Payloads)
      OBVIOUS
    <3>2. session' \in SessionState
      BY <2>3, SessionUpdates DEF send
    <3>3. QED
      BY <2>3, <3>1, <3>2 DEF send
  <2>4. CASE close
    BY <2>4 DEF close
  <2>5. CASE closeWhileConnecting
    BY <2>5 DEF closeWhileConnecting
  <2>6. ASSUME NEW s \in Sockets, onSocketOpen(s) PROVE TypeOK'
    <3>1. CASE s \in listened /\ IsOpen /\ session.ws # None
      <4>1. session \in SessionState
        BY <3>1
      <4>2. session' \in SessionState
        BY <2>6, <3>1, <4>1, SessionUpdates DEF onSocketOpen, Opened
      <4>3. written \o session.pending \in Seq(Payloads)
        BY <4>1 DEF SessionState
      <4>4. QED
        BY <2>6, <3>1, <4>2, <4>3 DEF onSocketOpen
    <3>2. CASE ~(s \in listened /\ IsOpen /\ session.ws # None)
      BY <2>6, <3>2 DEF onSocketOpen
    <3>3. QED
      BY <3>1, <3>2
  <2>7. ASSUME NEW s \in Sockets, onSocketMessage(s) PROVE TypeOK'
    BY <2>7 DEF onSocketMessage, SessionState
  <2>8. ASSUME NEW s \in Sockets, onSocketClose(s) PROVE TypeOK'
    <3>1. CASE s \in listened /\ IsOpen
      <4>1. [clearTimers(session) EXCEPT !.ws = None] \in SessionState
        BY <3>1, ClearTimersType DEF SessionState
      <4>2. QED
        BY <2>8, <3>1, <4>1, ScheduleReconnectType DEF onSocketClose
    <3>2. CASE ~(s \in listened /\ IsOpen)
      BY <2>8, <3>2 DEF onSocketClose
    <3>3. QED
      BY <3>1, <3>2
  <2>9. ASSUME NEW s \in Sockets, onPong(s) PROVE TypeOK'
    <3>1. session \in SessionState
      BY <2>9 DEF onPong
    <3>2. session' \in SessionState
      BY <2>9, <3>1, SessionUpdates DEF onPong
    <3>3. unanswered' \in Nat
      BY <2>9 DEF onPong
    <3>4. QED
      BY <2>9, <3>2, <3>3 DEF onPong
  <2>10. ASSUME NEW s \in Sockets, PeerCloses(s) PROVE TypeOK'
    BY <2>10 DEF PeerCloses
  <2>11. CASE reconnectFires
    <3>1. [session EXCEPT !.reconnectTimer = FALSE] \in SessionState
      BY <2>11 DEF reconnectFires, SessionState
    <3>2. QED
      BY <2>11, <3>1, OpenSocketType DEF reconnectFires
  <2>12. CASE heartbeatTick
    <3>1. session \in SessionState
      BY <2>12 DEF heartbeatTick
    <3>2. session' \in SessionState
      BY <2>12, <3>1, SessionUpdates DEF heartbeatTick
    <3>3. unanswered' \in Nat /\ orphanTimeouts' \in Nat
      BY <2>12 DEF heartbeatTick
    <3>4. QED
      BY <2>12, <3>2, <3>3 DEF heartbeatTick
  <2>13. CASE heartbeatTimeoutFires
    BY <2>13 DEF heartbeatTimeoutFires, terminate, SessionState
  <2>14. CASE orphanTimeoutFires
    BY <2>14 DEF orphanTimeoutFires, terminate, SessionState
  <2>15. CASE PeerFallsSilent
    BY <2>15 DEF PeerFallsSilent
  <2>16. CASE Restart
    BY <2>16 DEF Restart
  <2>17. CASE UNCHANGED vars
    BY <2>17 DEF vars
  <2>18. QED
    BY <2>1, <2>2, <2>3, <2>4, <2>5, <2>6, <2>7, <2>8, <2>9, <2>10, <2>11,
       <2>12, <2>13, <2>14, <2>15, <2>16, <2>17
       DEF Next, Caller, Socket, Timer
<1>3. QED
  BY <1>1, <1>2, PTL DEF Spec
-----------------------------------------------------------------------------
(* The connection and the timers of a session. *)

Connected == /\ SingleConnection
             /\ TimersFitConnection
             /\ NeverStranded

\* A call of openSocket on a session without a socket and without timers.
LEMMA OpenSocketConnects ==
  ASSUME TypeOK, listened = {}, NEW st \in SessionState,
         st.ws = None, ~st.reconnectTimer, ~st.heartbeatInterval,
         ~st.heartbeatTimeout, openSocket(st), wsUrl' = wsUrl
  PROVE  Connected'
<1> USE NoneAssumption, NoSessionAssumption
        DEF Connected, SingleConnection, TimersFitConnection, NeverStranded,
            IsOpen
<1>1. CASE wsUrl = "empty"
  BY <1>1 DEF openSocket
<1>2. CASE wsUrl = "invalid"
  <2>1. session' = scheduleReconnect(st) /\ listened' = {}
    BY <1>2 DEF openSocket
  <2>2. CASE session' = NoSession
    BY <2>1, <2>2
  <2>3. CASE session' # NoSession
    <3>1. session' = [st EXCEPT !.reconnectAttempt = @ + 1,
                                !.reconnectTimer = TRUE]
      BY <2>1, <2>3 DEF scheduleReconnect
    <3>2. /\ session'.ws = None
          /\ session'.reconnectTimer
          /\ ~session'.heartbeatInterval
          /\ ~session'.heartbeatTimeout
      BY <3>1 DEF SessionState
    <3>3. QED
      BY <2>1, <3>2
  <2>4. QED
    BY <2>2, <2>3
<1>3. CASE wsUrl = "valid"
  <2>1. PICK s \in Sockets :
           /\ session' = [st EXCEPT !.ws = s]
           /\ readyState' = [readyState EXCEPT ![s] = "CONNECTING"]
           /\ listened' = listened \cup {s}
    BY <1>3 DEF openSocket
  <2>2. /\ session'.ws = s
        /\ ~session'.reconnectTimer
        /\ ~session'.heartbeatInterval
        /\ ~session'.heartbeatTimeout
    BY <2>1 DEF SessionState
  <2>3. readyState'[s] = "CONNECTING"
    BY <2>1 DEF TypeOK
  <2>4. s # None /\ listened' = {s}
    BY <2>1
  <2>5. session' # NoSession
    <3>1. session' \in SessionState
      BY <2>1 DEF SessionState
    <3>2. QED
      BY <3>1
  <2>6. QED
    BY <2>2, <2>3, <2>4, <2>5
<1>4. QED
  BY <1>1, <1>2, <1>3 DEF TypeOK

\* No event of an earlier connection reaches a session, no timer outlives its
\* purpose, and no session with a url is left without a next attempt.
THEOREM ConnectedAlways == Spec => []Connected
<1>1. Init => Connected
  BY DEF Init, Connected, SingleConnection, TimersFitConnection,
         NeverStranded, IsOpen
<1>2. ASSUME TypeOK, Connected, [Next]_vars PROVE Connected'
  <2> USE <1>2, NoneAssumption
      DEF config, peerVars, history
  <2> USE DEF Connected, SingleConnection, TimersFitConnection,
              NeverStranded, IsOpen
  <2>1. CASE connect
    <3>1. FreshSession \in SessionState /\ openSocket(FreshSession)
      BY <2>1, FreshSessionType DEF connect
    <3>2. listened = {} /\ wsUrl' = wsUrl
      BY <2>1 DEF connect
    <3>3. QED
      BY <3>1, <3>2, OpenSocketConnects DEF FreshSession
  <2>2. CASE onMessage
    <3>1. session \in SessionState
      BY <2>2 DEF onMessage, TypeOK
    <3>0. session' # NoSession
      <4>1. session' \in SessionState
        BY <2>2, <3>1, SessionUpdates DEF onMessage
      <4>2. QED
        BY <4>1, NoSessionAssumption
    <3>2. /\ session'.ws = session.ws
          /\ session'.reconnectTimer = session.reconnectTimer
          /\ session'.heartbeatInterval = session.heartbeatInterval
          /\ session'.heartbeatTimeout = session.heartbeatTimeout
      BY <2>2, <3>1 DEF onMessage, SessionState
    <3>3. QED
      BY <3>0, <2>2, <3>1, <3>2 DEF onMessage
  <2>3. ASSUME NEW p \in Payloads, send(p) PROVE Connected'
    <3>1. session \in SessionState
      BY <2>3 DEF send, TypeOK
    <3>0. session' # NoSession
      <4>1. session' \in SessionState
        BY <2>3, <3>1, SessionUpdates DEF send
      <4>2. QED
        BY <4>1, NoSessionAssumption
    <3>2. /\ session'.ws = session.ws
          /\ session'.reconnectTimer = session.reconnectTimer
          /\ session'.heartbeatInterval = session.heartbeatInterval
          /\ session'.heartbeatTimeout = session.heartbeatTimeout
      BY <2>3, <3>1 DEF send, SessionState
    <3>3. QED
      BY <3>0, <2>3, <3>1, <3>2 DEF send
  <2>4. CASE close
    BY <2>4 DEF close
  <2>5. CASE closeWhileConnecting
    BY <2>5 DEF closeWhileConnecting
  <2>6. ASSUME NEW s \in Sockets, onSocketOpen(s) PROVE Connected'
    <3>1. CASE s \in listened /\ IsOpen /\ session.ws # None
      <4>1. s = session.ws /\ session \in SessionState
        BY <3>1 DEF TypeOK
      <4>2. session' = [clearHeartbeat(session)
                          EXCEPT !.reconnectAttempt = 0,
                                 !.pending = << >>,
                                 !.heartbeatInterval = TRUE]
        BY <2>6, <3>1 DEF onSocketOpen
      <4>3. /\ session'.ws = s
            /\ session'.reconnectTimer = session.reconnectTimer
            /\ session'.heartbeatInterval
            /\ ~session'.heartbeatTimeout
        BY <4>1, <4>2 DEF clearHeartbeat, SessionState
      <4>0. session' # NoSession
        <5>1. session' \in SessionState
          BY <4>1, <4>2, SessionUpdates DEF Opened
        <5>2. QED
          BY <5>1, NoSessionAssumption
      <4>4. readyState'[s] = "OPEN" /\ listened' = listened
        BY <2>6 DEF onSocketOpen, TypeOK
      <4>5. QED
        BY <3>1, <4>0, <4>1, <4>3, <4>4
    <3>2. CASE ~(s \in listened /\ IsOpen /\ session.ws # None)
      <4>1. UNCHANGED <<session, listened, wsUrl>>
        BY <2>6, <3>2 DEF onSocketOpen
      <4>2. IsOpen => session.ws # s
        BY <3>2
      <4>3. \A t \in Sockets : t # s => readyState'[t] = readyState[t]
        BY <2>6 DEF onSocketOpen, TypeOK
      <4>4. IsOpen /\ session.ws # None
              => readyState'[session.ws] = readyState[session.ws]
        BY <4>2, <4>3 DEF TypeOK, SessionState
      <4>5. QED
        BY <4>1, <4>4
    <3>3. QED
      BY <3>1, <3>2
  <2>7. ASSUME NEW s \in Sockets, onSocketMessage(s) PROVE Connected'
    BY <2>7 DEF onSocketMessage
  <2>8. ASSUME NEW s \in Sockets, onSocketClose(s) PROVE Connected'
    <3>1. CASE s \in listened /\ IsOpen
      <4>1. session \in SessionState /\ s = session.ws /\ listened' = {}
        BY <2>8, <3>1 DEF onSocketClose, TypeOK
      <4> DEFINE st == [clearTimers(session) EXCEPT !.ws = None]
      <4>2. st \in SessionState /\ st.ws = None /\ ~st.heartbeatInterval
            /\ ~st.heartbeatTimeout
        BY <4>1 DEF clearTimers, clearHeartbeat, SessionState
      <4>3. session' = scheduleReconnect(st)
        BY <2>8, <3>1 DEF onSocketClose
      <4>4. CASE session' = NoSession
        BY <4>1, <4>4
      <4>5. CASE session' # NoSession
        <5>1. session' = [st EXCEPT !.reconnectAttempt = @ + 1,
                                    !.reconnectTimer = TRUE]
          BY <4>3, <4>5 DEF scheduleReconnect
        <5> HIDE DEF st
        <5>2. /\ session'.ws = None
              /\ session'.reconnectTimer
              /\ ~session'.heartbeatInterval
              /\ ~session'.heartbeatTimeout
          BY <4>2, <5>1 DEF SessionState
        <5>3. QED
          BY <4>1, <5>2
      <4>6. QED
        BY <4>4, <4>5
    <3>2. CASE ~(s \in listened /\ IsOpen)
      <4>1. UNCHANGED <<session, wsUrl>>
        BY <2>8, <3>2 DEF onSocketClose
      <4>2. (IsOpen => session.ws # s) /\ listened' = listened
        BY <2>8, <3>2 DEF onSocketClose
      <4>3. \A t \in Sockets : t # s => readyState'[t] = readyState[t]
        BY <2>8 DEF onSocketClose, TypeOK
      <4>4. IsOpen /\ session.ws # None
              => readyState'[session.ws] = readyState[session.ws]
        BY <4>2, <4>3 DEF TypeOK, SessionState
      <4>5. QED
        BY <4>1, <4>2, <4>4
    <3>3. QED
      BY <3>1, <3>2
  <2>9. ASSUME NEW s \in Sockets, onPong(s) PROVE Connected'
    <3>1. session \in SessionState
      BY <2>9 DEF onPong, TypeOK
    <3>0. session' # NoSession
      <4>1. session' \in SessionState
        BY <2>9, <3>1, SessionUpdates DEF onPong
      <4>2. QED
        BY <4>1, NoSessionAssumption
    <3>2. /\ session'.ws = session.ws
          /\ session'.reconnectTimer = session.reconnectTimer
          /\ session'.heartbeatInterval = session.heartbeatInterval
          /\ ~session'.heartbeatTimeout
      BY <2>9, <3>1 DEF onPong, SessionState
    <3>3. QED
      BY <3>0, <2>9, <3>1, <3>2 DEF onPong
  <2>10. ASSUME NEW s \in Sockets, PeerCloses(s) PROVE Connected'
    <3>1. \A t \in Sockets :
            \/ readyState'[t] = readyState[t]
            \/ readyState[t] = "OPEN" /\ readyState'[t] = "CLOSING"
      BY <2>10 DEF PeerCloses, TypeOK
    <3>2. IsOpen /\ session.ws # None => session.ws \in Sockets
      BY DEF TypeOK, SessionState
    <3>3. QED
      BY <2>10, <3>1, <3>2 DEF PeerCloses
  <2>11. CASE reconnectFires
    <3> DEFINE st == [session EXCEPT !.reconnectTimer = FALSE]
    <3>1. session \in SessionState /\ session.ws = None
      BY <2>11 DEF reconnectFires, TypeOK
    <3>2. /\ st \in SessionState
          /\ st.ws = None
          /\ ~st.reconnectTimer
          /\ ~st.heartbeatInterval
          /\ ~st.heartbeatTimeout
      BY <2>11, <3>1 DEF reconnectFires, SessionState
    <3>3. openSocket(st) /\ wsUrl' = wsUrl /\ listened = {}
      BY <2>11, <3>1 DEF reconnectFires
    <3>4. QED
      BY <3>2, <3>3, OpenSocketConnects
  <2>12. CASE heartbeatTick
    <3>1. session \in SessionState
      BY <2>12 DEF heartbeatTick, ConnectionOpen, TypeOK
    <3>0. session' # NoSession
      <4>1. session' \in SessionState
        BY <2>12, <3>1, SessionUpdates DEF heartbeatTick
      <4>2. QED
        BY <4>1, NoSessionAssumption
    <3>2. /\ session'.ws = session.ws
          /\ session'.reconnectTimer = session.reconnectTimer
          /\ session'.heartbeatInterval = session.heartbeatInterval
          /\ session'.heartbeatInterval
      BY <2>12, <3>1 DEF heartbeatTick, SessionState
    <3>3. QED
      BY <3>0, <2>12, <3>1, <3>2 DEF heartbeatTick, ConnectionOpen
  <2>13. CASE heartbeatTimeoutFires
    <3>1. session \in SessionState
      BY <2>13 DEF heartbeatTimeoutFires, TypeOK
    <3>0. session' # NoSession
      <4>1. session' \in SessionState
        BY <2>13, <3>1, SessionUpdates DEF heartbeatTimeoutFires
      <4>2. QED
        BY <4>1, NoSessionAssumption
    <3>2. /\ session'.ws = session.ws
          /\ session'.reconnectTimer = session.reconnectTimer
          /\ session'.heartbeatInterval = session.heartbeatInterval
          /\ ~session'.heartbeatTimeout
      BY <2>13, <3>1 DEF heartbeatTimeoutFires, SessionState
    <3>3. session.ws # None => readyState'[session.ws] = "CLOSING"
      <4>1. session.ws # None => session.ws \in Sockets
        BY <3>1 DEF SessionState
      <4>2. session.ws # None => terminate(session.ws)
        BY <2>13 DEF heartbeatTimeoutFires
      <4>3. QED
        BY <4>1, <4>2 DEF terminate, TypeOK
    <3>4. UNCHANGED <<listened, wsUrl>>
      BY <2>13 DEF heartbeatTimeoutFires, terminate
    <3>5. IsOpen
      BY <2>13 DEF heartbeatTimeoutFires
    <3>6. SingleConnection'
      BY <3>0, <3>2, <3>3, <3>4, <3>5
    <3>7. TimersFitConnection'
      BY <3>0, <3>2, <3>3, <3>5
    <3>8. NeverStranded'
      BY <3>0, <3>2, <3>4, <3>5
    <3>9. QED
      BY <3>6, <3>7, <3>8
  <2>14. CASE orphanTimeoutFires
    <3>1. UNCHANGED <<session, listened, wsUrl>>
      BY <2>14 DEF orphanTimeoutFires, terminate
    <3>2. IsOpen /\ session.ws # None => readyState'[session.ws] = "CLOSING"
      BY <2>14 DEF orphanTimeoutFires, terminate, TypeOK, SessionState
    <3>3. QED
      BY <3>1, <3>2
  <2>15. CASE PeerFallsSilent
    BY <2>15 DEF PeerFallsSilent
  <2>16. CASE Restart
    BY <2>16 DEF Restart
  <2>17. CASE UNCHANGED vars
    BY <2>17 DEF vars
  <2>18. QED
    BY <2>1, <2>2, <2>3, <2>4, <2>5, <2>6, <2>7, <2>8, <2>9, <2>10, <2>11,
       <2>12, <2>13, <2>14, <2>15, <2>16, <2>17
       DEF Next, Caller, Socket, Timer
<1>3. QED
  BY <1>1, <1>2, TypeCorrect, PTL DEF Spec

\* The handlers are attached to no socket but the session's, which has not
\* closed (SingleConnection of the run).
COROLLARY SingleConnectionAlways == Spec => []SingleConnection
BY ConnectedAlways, PTL DEF Connected

\* Reconnect timer and heartbeat fit the connection.
COROLLARY TimersFitConnectionAlways == Spec => []TimersFitConnection
BY ConnectedAlways, PTL DEF Connected

\* A session with a url has a socket or an armed reconnect.
COROLLARY NeverStrandedAlways == Spec => []NeverStranded
BY ConnectedAlways, PTL DEF Connected
-----------------------------------------------------------------------------
(* The heartbeat. *)

\* While the pong of the last ping is timed that ping is unanswered, and with
\* a timeout no longer than the interval no other timer is about.
PongAwaited == /\ ~overlapPings => orphanTimeouts = 0
               /\ IsOpen /\ session.heartbeatTimeout => unanswered > 0

LEMMA PongAwaitedAlways == Spec => []PongAwaited
<1>1. Init => PongAwaited
  BY DEF Init, PongAwaited, IsOpen
<1>2. ASSUME TypeOK, Connected, PongAwaited, [Next]_vars PROVE PongAwaited'
  <2> USE <1>2 DEF PongAwaited, IsOpen, config, peerVars, history
  <2>1. ASSUME NEW st \in SessionState, ~st.heartbeatTimeout, openSocket(st)
        PROVE  session' # NoSession => ~session'.heartbeatTimeout
    BY <2>1 DEF openSocket, scheduleReconnect, SessionState
  <2>2. CASE connect
    <3>1. session' # NoSession => ~session'.heartbeatTimeout
      BY <2>2, <2>1, FreshSessionType DEF connect, FreshSession
    <3>2. QED
      BY <2>2, <3>1 DEF connect
  <2>3. CASE onMessage \/ \E p \in Payloads : send(p)
    <3>1. session \in SessionState
      BY <2>3 DEF onMessage, send, TypeOK
    <3>2. session'.heartbeatTimeout = session.heartbeatTimeout
      BY <2>3, <3>1 DEF onMessage, send, SessionState
    <3>3. QED
      BY <2>3, <3>2 DEF onMessage, send
  <2>4. CASE close
    BY <2>4 DEF close
  <2>5. CASE closeWhileConnecting
    BY <2>5 DEF closeWhileConnecting
  <2>6. ASSUME NEW s \in Sockets, onSocketOpen(s) PROVE PongAwaited'
    <3>1. CASE session' = session
      BY <2>6, <3>1 DEF onSocketOpen
    <3>2. CASE IsOpen /\ session' = Opened(session)
      <4>1. session \in SessionState
        BY <3>2 DEF TypeOK
      <4>2. ~session'.heartbeatTimeout
        BY <3>2, <4>1 DEF Opened, clearHeartbeat, SessionState
      <4>3. QED
        BY <2>6, <4>2 DEF onSocketOpen
    <3>3. QED
      BY <2>6, <3>1, <3>2 DEF onSocketOpen, Opened
  <2>7. ASSUME NEW s \in Sockets, onSocketClose(s) PROVE PongAwaited'
    <3>1. CASE session' = session
      BY <2>7, <3>1 DEF onSocketClose
    <3>2. CASE IsOpen /\ session' = scheduleReconnect([clearTimers(session)
                                                         EXCEPT !.ws = None])
      <4>1. session \in SessionState
        BY <3>2 DEF TypeOK
      <4>2. session' # NoSession => ~session'.heartbeatTimeout
        BY <3>2, <4>1
           DEF scheduleReconnect, clearTimers, clearHeartbeat, SessionState
      <4>3. QED
        BY <2>7, <4>2 DEF onSocketClose
    <3>3. QED
      BY <2>7, <3>1, <3>2 DEF onSocketClose
  <2>8. ASSUME NEW s \in Sockets, onPong(s) PROVE PongAwaited'
    <3>1. session \in SessionState
      BY <2>8 DEF onPong, TypeOK
    <3>2. ~session'.heartbeatTimeout
      BY <2>8, <3>1 DEF onPong, SessionState
    <3>3. QED
      BY <2>8, <3>2 DEF onPong
  <2>9. CASE reconnectFires
    <3>1. session \in SessionState /\ session.ws = None
      BY <2>9 DEF reconnectFires, TypeOK, Connected, TimersFitConnection
    <3>2. ~session.heartbeatTimeout
      BY <2>9, <3>1 DEF reconnectFires, Connected, TimersFitConnection
    <3> DEFINE st == [session EXCEPT !.reconnectTimer = FALSE]
    <3>3. st \in SessionState /\ ~st.heartbeatTimeout
      BY <3>1, <3>2 DEF SessionState
    <3>4. session' # NoSession => ~session'.heartbeatTimeout
      BY <2>9, <2>1, <3>3 DEF reconnectFires
    <3>5. QED
      BY <2>9, <3>4 DEF reconnectFires
  <2>10. CASE heartbeatTick
    <3>1. unanswered' > 0
      BY <2>10 DEF heartbeatTick, TypeOK
    <3>2. ~overlapPings => orphanTimeouts' = orphanTimeouts
      BY <2>10 DEF heartbeatTick
    <3>3. QED
      BY <2>10, <3>1, <3>2 DEF heartbeatTick
  <2>11. CASE heartbeatTimeoutFires
    <3>1. session \in SessionState
      BY <2>11 DEF heartbeatTimeoutFires, TypeOK
    <3>2. ~session'.heartbeatTimeout
      BY <2>11, <3>1 DEF heartbeatTimeoutFires, SessionState
    <3>3. QED
      BY <2>11, <3>2 DEF heartbeatTimeoutFires
  <2>12. CASE orphanTimeoutFires
    <3>1. overlapPings
      BY <2>12 DEF orphanTimeoutFires
    <3>2. QED
      BY <2>12, <3>1 DEF orphanTimeoutFires
  <2>13. CASE \/ \E s \in Sockets : onSocketMessage(s) \/ PeerCloses(s)
              \/ PeerFallsSilent \/ Restart \/ UNCHANGED vars
    BY <2>13 DEF onSocketMessage, PeerCloses, PeerFallsSilent, Restart, vars
  <2>14. QED
    BY <2>2, <2>3, <2>4, <2>5, <2>6, <2>7, <2>8, <2>9, <2>10, <2>11, <2>12,
       <2>13 DEF Next, Caller, Socket, Timer
<1>3. QED
  BY <1>1, <1>2, TypeCorrect, ConnectedAlways, PTL DEF Spec

\* With a heartbeat timeout no longer than the interval, the pong timers cut a
\* connection only while a ping is unanswered.
THEOREM AnsweringPeerKeptAlways == Spec => AnsweringPeerKept
<1>1. ASSUME PongAwaited, [Next]_vars
      PROVE  [~overlapPings => TerminatesOnlyUnanswered]_vars
  <2>1. ASSUME ~overlapPings, heartbeatTimeoutFires PROVE unanswered > 0
    BY <1>1, <2>1 DEF PongAwaited, heartbeatTimeoutFires
  <2>2. ASSUME ~overlapPings, orphanTimeoutFires PROVE FALSE
    BY <1>1, <2>2 DEF PongAwaited, orphanTimeoutFires
  <2>3. QED
    BY <2>1, <2>2 DEF TerminatesOnlyUnanswered
<1>2. QED
  BY <1>1, PongAwaitedAlways, PTL DEF Spec, AnsweringPeerKept
-----------------------------------------------------------------------------
(* AgentWsService keeps the promise of IAgentService: what was written is  *)
(* what was sent, in that order, with the rest waiting in the buffer, and  *)
(* so every step of AgentWs is a step of AgentChannel or a stutter.        *)

\* A payload that joins the buffer joins the end of everything sent.
LEMMA AppendToPending ==
  ASSUME NEW w \in Seq(Payloads), NEW b \in Seq(Payloads), NEW p \in Payloads
  PROVE  Append(w \o b, p) = w \o Append(b, p)
<1>1. w \o b \in Seq(Payloads) /\ <<p>> \in Seq(Payloads)
  BY ConcatProperties
<1>2. Append(w \o b, p) = (w \o b) \o <<p>> /\ Append(b, p) = b \o <<p>>
  BY <1>1, AppendIsConcat
<1>3. QED
  BY <1>1, <1>2, ConcatAssociative

\* openSocket keeps the buffer, and does not give an open connection.
LEMMA OpenSocketPending ==
  ASSUME TypeOK, NEW st \in SessionState, st.ws = None, openSocket(st)
  PROVE  /\ session' # NoSession => session'.pending = st.pending
         /\ ~ConnectionOpen'
<1> USE NoneAssumption DEF ConnectionOpen, IsOpen
<1>1. CASE wsUrl \in {"empty", "invalid"}
  <2>1. session' = st \/ session' = scheduleReconnect(st)
    BY <1>1 DEF openSocket
  <2>2. /\ session' # NoSession => session'.pending = st.pending
        /\ session' # NoSession => session'.ws = None
    BY <2>1 DEF scheduleReconnect, SessionState
  <2>3. QED
    BY <2>2
<1>2. CASE wsUrl = "valid"
  <2>1. PICK s \in Sockets :
           /\ session' = [st EXCEPT !.ws = s]
           /\ readyState' = [readyState EXCEPT ![s] = "CONNECTING"]
    BY <1>2 DEF openSocket
  <2>2. session'.pending = st.pending /\ session'.ws = s
    BY <2>1 DEF SessionState
  <2>3. readyState'[s] = "CONNECTING"
    BY <2>1 DEF TypeOK
  <2>4. QED
    BY <2>2, <2>3
<1>3. QED
  BY <1>1, <1>2 DEF TypeOK

\* A step that leaves the buffer, the history and the open connections alone.
LEMMA OrderKept ==
  ASSUME SentInOrder, IsOpen' => IsOpen /\ session'.pending = session.pending,
         ConnectionOpen' => ConnectionOpen,
         accepted' = accepted, written' = written
  PROVE  SentInOrder'
BY DEF SentInOrder

\* Nothing sent in a session is lost, doubled or overtaken.
THEOREM SentInOrderAlways == Spec => []SentInOrder
<1>1. Init => SentInOrder
  BY DEF Init, SentInOrder, IsOpen
<1>2. ASSUME TypeOK, Connected, SentInOrder, [Next]_vars PROVE SentInOrder'
  <2> USE <1>2, NoneAssumption DEF IsOpen, config, peerVars, history
  <2>1. CASE connect
    <3>1. FreshSession \in SessionState /\ openSocket(FreshSession)
      BY <2>1, FreshSessionType DEF connect
    <3>2. /\ session' # NoSession => session'.pending = << >>
          /\ ~ConnectionOpen'
      BY <3>1, OpenSocketPending DEF FreshSession
    <3>3. << >> \o << >> = << >>
      OBVIOUS
    <3>4. QED
      BY <2>1, <3>2, <3>3 DEF connect, SentInOrder
  <2>2. CASE onMessage
    <3>1. session \in SessionState
      BY <2>2 DEF onMessage, TypeOK
    <3>2. session'.pending = session.pending /\ session'.ws = session.ws
      BY <2>2, <3>1 DEF onMessage, SessionState
    <3>3. QED
      BY <2>2, <3>2, OrderKept DEF onMessage, ConnectionOpen
  <2>3. ASSUME NEW p \in Payloads, send(p) PROVE SentInOrder'
    <3>1. /\ session \in SessionState
          /\ session.pending \in Seq(Payloads)
          /\ written \in Seq(Payloads)
      BY <2>3 DEF send, TypeOK, SessionState
    <3>2. accepted = written \o session.pending
      BY <2>3 DEF send, SentInOrder
    <3>3. CASE ConnectionOpen /\ written' = Append(written, p)
                 /\ UNCHANGED session
      <4>1. session.pending = << >>
        BY <2>3, <3>3 DEF SentInOrder, send
      <4>2. Append(written, p) \in Seq(Payloads)
        BY <3>1
      <4>3. accepted' = Append(written, p) \o << >>
        BY <2>3, <3>1, <3>2, <4>1, <4>2, ConcatEmptySeq DEF send
      <4>4. QED
        BY <3>3, <4>1, <4>3 DEF SentInOrder
    <3>4. CASE ~ConnectionOpen /\ UNCHANGED written
                 /\ session' = [session EXCEPT !.pending = Append(@, p)]
      <4>1. /\ session'.pending = Append(session.pending, p)
            /\ session'.ws = session.ws
        BY <3>1, <3>4 DEF SessionState
      <4>2. accepted' = written \o Append(session.pending, p)
        BY <2>3, <3>1, <3>2, AppendToPending DEF send
      <4>3. ~ConnectionOpen'
        BY <2>3, <3>4, <4>1 DEF send, ConnectionOpen
      <4>4. QED
        BY <3>4, <4>1, <4>2, <4>3 DEF SentInOrder
    <3>5. QED
      BY <2>3, <3>3, <3>4 DEF send
  <2>4. CASE close
    BY <2>4 DEF close, SentInOrder
  <2>5. CASE closeWhileConnecting
    BY <2>5 DEF closeWhileConnecting, SentInOrder
  <2>6. ASSUME NEW s \in Sockets, onSocketOpen(s) PROVE SentInOrder'
    <3>1. CASE s \in listened /\ IsOpen /\ session.ws # None
      <4>1. /\ session \in SessionState
            /\ session.pending \in Seq(Payloads)
            /\ written \in Seq(Payloads)
        BY <3>1 DEF TypeOK, SessionState
      <4>2. session' = Opened(session) /\ written' = written \o session.pending
        BY <2>6, <3>1 DEF onSocketOpen, Opened
      <4>3. session'.pending = << >>
        BY <4>1, <4>2 DEF Opened, clearHeartbeat, SessionState
      <4>4. accepted' = written'
        BY <2>6, <3>1, <4>2 DEF onSocketOpen, SentInOrder
      <4>5. written' \in Seq(Payloads)
        BY <4>1, <4>2, ConcatProperties
      <4>6. written' \o << >> = written'
        BY <4>5, ConcatEmptySeq
      <4>7. QED
        BY <4>3, <4>4, <4>6 DEF SentInOrder
    <3>2. CASE ~(s \in listened /\ IsOpen /\ session.ws # None)
      <4>1. UNCHANGED <<session, written, accepted>>
        BY <2>6, <3>2 DEF onSocketOpen
      <4>2. IsOpen /\ session.ws # None => session.ws # s
        BY <3>2 DEF Connected, SingleConnection
      <4>3. readyState' = [readyState EXCEPT ![s] = "OPEN"]
        BY <2>6 DEF onSocketOpen
      <4>4. ConnectionOpen' => ConnectionOpen
        <5>1. ASSUME IsOpen, session.ws # None
              PROVE  readyState'[session.ws] = readyState[session.ws]
          BY <4>2, <4>3, <5>1 DEF TypeOK, SessionState
        <5>2. QED
          BY <4>1, <5>1 DEF ConnectionOpen
      <4>5. QED
        BY <4>1, <4>4, OrderKept
    <3>3. QED
      BY <3>1, <3>2
  <2>7. ASSUME NEW s \in Sockets, onSocketClose(s) PROVE SentInOrder'
    <3>1. UNCHANGED <<accepted, written>>
      BY <2>7 DEF onSocketClose
    <3>2. CASE s \in listened /\ IsOpen
      <4>1. session \in SessionState
        BY <3>2 DEF TypeOK
      <4>2. session' = scheduleReconnect([clearTimers(session)
                                            EXCEPT !.ws = None])
        BY <2>7, <3>2 DEF onSocketClose
      <4>3. session' # NoSession => /\ session'.pending = session.pending
                                    /\ session'.ws = None
        BY <4>1, <4>2
           DEF scheduleReconnect, clearTimers, clearHeartbeat, SessionState
      <4>4. QED
        BY <3>1, <3>2, <4>3, OrderKept DEF ConnectionOpen
    <3>3. CASE ~(s \in listened /\ IsOpen)
      <4>1. UNCHANGED session
        BY <2>7, <3>3 DEF onSocketClose
      <4>2. readyState' = [readyState EXCEPT ![s] = "CLOSED"]
        BY <2>7 DEF onSocketClose
      <4>3. ConnectionOpen' => ConnectionOpen
        BY <4>1, <4>2 DEF ConnectionOpen, TypeOK, SessionState
      <4>4. QED
        BY <3>1, <4>1, <4>3, OrderKept
    <3>4. QED
      BY <3>2, <3>3
  <2>8. CASE reconnectFires
    <3>1. session \in SessionState /\ session.ws = None
      BY <2>8 DEF reconnectFires, TypeOK, Connected, TimersFitConnection
    <3> DEFINE st == [session EXCEPT !.reconnectTimer = FALSE]
    <3>2. st \in SessionState /\ st.ws = None /\ st.pending = session.pending
      BY <3>1 DEF SessionState
    <3>3. /\ session' # NoSession => session'.pending = session.pending
          /\ ~ConnectionOpen'
      BY <2>8, <3>2, OpenSocketPending DEF reconnectFires
    <3>4. QED
      BY <2>8, <3>3, OrderKept DEF reconnectFires
  <2>9. ASSUME NEW s \in Sockets, onPong(s) PROVE SentInOrder'
    <3>1. session \in SessionState
      BY <2>9 DEF onPong, TypeOK
    <3>2. session'.pending = session.pending /\ session'.ws = session.ws
      BY <2>9, <3>1 DEF onPong, SessionState
    <3>3. QED
      BY <2>9, <3>2, OrderKept DEF onPong, ConnectionOpen
  <2>10. CASE heartbeatTick
    <3>1. session \in SessionState
      BY <2>10 DEF heartbeatTick, ConnectionOpen, TypeOK
    <3>2. session'.pending = session.pending /\ session'.ws = session.ws
      BY <2>10, <3>1 DEF heartbeatTick, SessionState
    <3>3. QED
      BY <2>10, <3>2, OrderKept DEF heartbeatTick, ConnectionOpen
  <2>11. CASE heartbeatTimeoutFires
    <3>1. session \in SessionState
      BY <2>11 DEF heartbeatTimeoutFires, TypeOK
    <3>2. session'.pending = session.pending /\ session'.ws = session.ws
      BY <2>11, <3>1 DEF heartbeatTimeoutFires, SessionState
    <3>3. ConnectionOpen' => ConnectionOpen
      BY <2>11, <3>2
         DEF heartbeatTimeoutFires, terminate, ConnectionOpen, TypeOK
    <3>4. QED
      BY <2>11, <3>2, <3>3, OrderKept DEF heartbeatTimeoutFires
  <2>12. CASE orphanTimeoutFires
    <3>1. ConnectionOpen' => ConnectionOpen
      BY <2>12 DEF orphanTimeoutFires, terminate, ConnectionOpen, TypeOK
    <3>2. QED
      BY <2>12, <3>1, OrderKept DEF orphanTimeoutFires
  <2>13. ASSUME NEW s \in Sockets, PeerCloses(s) PROVE SentInOrder'
    <3>1. ConnectionOpen' => ConnectionOpen
      BY <2>13 DEF PeerCloses, ConnectionOpen, TypeOK
    <3>2. QED
      BY <2>13, <3>1, OrderKept DEF PeerCloses
  <2>14. CASE \/ \E s \in Sockets : onSocketMessage(s)
              \/ PeerFallsSilent \/ Restart \/ UNCHANGED vars
    <3>1. UNCHANGED <<session, readyState, accepted, written>>
      BY <2>14 DEF onSocketMessage, PeerFallsSilent, Restart, vars
    <3>2. QED
      BY <3>1, OrderKept DEF ConnectionOpen
  <2>15. QED
    BY <2>1, <2>2, <2>3, <2>4, <2>5, <2>6, <2>7, <2>8, <2>9, <2>10, <2>11,
       <2>12, <2>13, <2>14 DEF Next, Caller, Socket, Timer
<1>3. QED
  BY <1>1, <1>2, TypeCorrect, ConnectedAlways, PTL DEF Spec
-----------------------------------------------------------------------------
(* The refinement. *)

\* A step that changes nothing a caller sees is a stutter of the channel.
LEMMA ChannelStutters ==
  ASSUME IsOpen' = IsOpen, UNCHANGED history
  PROVE  [Channel!Next]_(Channel!channelVars)
BY DEF history, Channel!channelVars

\* openSocket opens a session, or, for a session it may give up, ends it.
LEMMA OpenSocketOpens ==
  ASSUME TypeOK, NEW st \in SessionState, openSocket(st)
  PROVE  st.reconnectAttempt < MaxAttempts => IsOpen'
<1> USE NoSessionAssumption, AttemptsAssumption DEF IsOpen
<1> SUFFICES ASSUME st.reconnectAttempt < MaxAttempts PROVE session' # NoSession
  OBVIOUS
<1>1. CASE wsUrl = "empty"
  BY <1>1 DEF openSocket
<1>2. CASE wsUrl = "invalid"
  <2>1. session' = scheduleReconnect(st)
    BY <1>2 DEF openSocket
  <2>2. ~(st.reconnectAttempt >= MaxAttempts)
    BY DEF SessionState
  <2>3. st.reconnectAttempt + 1 \in 0..MaxAttempts
    BY <2>2 DEF SessionState
  <2>4. session' \in SessionState
    BY <2>1, <2>2, <2>3 DEF scheduleReconnect, SessionState
  <2>5. QED
    BY <2>4
<1>3. CASE wsUrl = "valid"
  <2>1. session' \in SessionState
    BY <1>3 DEF openSocket, SessionState
  <2>2. QED
    BY <2>1
<1>4. QED
  BY <1>1, <1>2, <1>3 DEF TypeOK

LEMMA ChannelStep ==
  ASSUME TypeOK, TypeOK', Connected, SentInOrder, SentInOrder', [Next]_vars
  PROVE  [Channel!Next]_(Channel!channelVars)
<1> USE NoneAssumption, NoSessionAssumption DEF history
<1> DEFINE Step == [Channel!Next]_(Channel!channelVars)
<1>0. IsOpen => session \in SessionState
  BY DEF IsOpen, TypeOK
<1>1. CASE connect
  <2>1. FreshSession \in SessionState /\ openSocket(FreshSession)
    BY <1>1, FreshSessionType DEF connect
  <2>2. FreshSession.reconnectAttempt < MaxAttempts
    BY AttemptsAssumption DEF FreshSession
  <2>3. IsOpen' /\ ~IsOpen
    BY <1>1, <2>1, <2>2, OpenSocketOpens DEF connect, IsOpen
  <2>4. Channel!Connect
    BY <1>1, <2>3 DEF connect, Channel!Connect
  <2>5. QED
    BY <2>4 DEF Channel!Next
<1>2. CASE onMessage
  <2>1. session' \in SessionState
    BY <1>0, <1>2, SessionUpdates DEF onMessage
  <2>2. QED
    BY <1>2, <2>1, ChannelStutters DEF onMessage, IsOpen
<1>3. ASSUME NEW p \in Payloads, send(p) PROVE Step
  <2>1. session' \in SessionState
    BY <1>0, <1>3, SessionUpdates DEF send
  <2>2. IsOpen' /\ IsOpen
    BY <1>3, <2>1 DEF send, IsOpen
  <2>3. CASE ConnectionOpen /\ written' = Append(written, p)
               /\ UNCHANGED session
    <3>1. written \in Seq(Payloads) /\ session.pending = << >>
      BY <2>2, <2>3 DEF TypeOK, SentInOrder
    <3>2. written = accepted
      BY <2>2, <3>1, ConcatEmptySeq DEF SentInOrder
    <3>3. Channel!WriteThrough
      BY <1>3, <2>2, <2>3, <3>2 DEF send, Channel!WriteThrough
    <3>4. QED
      BY <3>3 DEF Channel!Next
  <2>4. CASE ~ConnectionOpen /\ UNCHANGED written
    <3>1. Channel!Accept
      BY <1>3, <2>2, <2>4 DEF send, Channel!Accept
    <3>2. QED
      BY <3>1 DEF Channel!Next
  <2>5. QED
    BY <1>3, <2>3, <2>4 DEF send
<1>4. CASE close \/ closeWhileConnecting
  <2>1. Channel!Close
    BY <1>4 DEF close, closeWhileConnecting, IsOpen, Channel!Close
  <2>2. QED
    BY <2>1 DEF Channel!Next
<1>5. ASSUME NEW s \in Sockets, onSocketOpen(s) PROVE Step
  <2>1. CASE s \in listened /\ IsOpen /\ session.ws # None
    <3>1. session' = Opened(session) /\ written' = written \o session.pending
      BY <1>5, <2>1 DEF onSocketOpen, Opened
    <3>2. session' \in SessionState
      BY <1>0, <2>1, <3>1, SessionUpdates
    <3>3. IsOpen' /\ IsOpen
      BY <2>1, <3>2 DEF IsOpen
    <3>4. /\ written' = accepted
          /\ UNCHANGED <<accepted, heard>>
      BY <1>5, <2>1, <3>1 DEF onSocketOpen, SentInOrder
    <3>5. CASE written = accepted
      BY <3>3, <3>4, <3>5, ChannelStutters
    <3>6. CASE written # accepted
      <4>1. Channel!Flush
        BY <3>3, <3>4, <3>6 DEF Channel!Flush
      <4>2. QED
        BY <4>1 DEF Channel!Next
    <3>7. QED
      BY <3>5, <3>6
  <2>2. CASE ~(s \in listened /\ IsOpen /\ session.ws # None)
    BY <1>5, <2>2, ChannelStutters DEF onSocketOpen, IsOpen
  <2>3. QED
    BY <2>1, <2>2
<1>6. ASSUME NEW s \in Sockets, onSocketMessage(s) PROVE Step
  <2>1. session.subscribers \in Nat /\ heard \in Nat
    BY <1>0, <1>6 DEF onSocketMessage, SessionState, TypeOK
  <2>2. heard' \in Nat /\ heard' > heard
    BY <1>6, <2>1 DEF onSocketMessage
  <2>3. Channel!Hear
    BY <1>6, <2>2 DEF onSocketMessage, IsOpen, Channel!Hear
  <2>4. QED
    BY <2>3 DEF Channel!Next
<1>7. CASE (\E s \in Sockets : onSocketClose(s)) \/ reconnectFires
  <2>1. UNCHANGED history
    BY <1>7 DEF onSocketClose, reconnectFires
  <2>2. CASE IsOpen' = IsOpen
    BY <2>1, <2>2, ChannelStutters
  <2>3. CASE IsOpen' # IsOpen
    <3>1. IsOpen /\ ~IsOpen'
      BY <1>7, <2>3 DEF onSocketClose, reconnectFires, IsOpen
    <3>2. Channel!Close
      BY <2>1, <3>1 DEF Channel!Close
    <3>3. QED
      BY <3>2 DEF Channel!Next
  <2>4. QED
    BY <2>2, <2>3
<1>8. CASE \/ \E s \in Sockets : onPong(s)
           \/ heartbeatTick \/ heartbeatTimeoutFires
  <2>1. IsOpen
    BY <1>8 DEF onPong, heartbeatTick, heartbeatTimeoutFires, ConnectionOpen
  <2>2. session' \in SessionState
    BY <1>0, <1>8, <2>1, SessionUpdates
       DEF onPong, heartbeatTick, heartbeatTimeoutFires
  <2>3. UNCHANGED history
    BY <1>8 DEF onPong, heartbeatTick, heartbeatTimeoutFires
  <2>4. QED
    BY <2>1, <2>2, <2>3, ChannelStutters DEF IsOpen
<1>9. CASE \/ \E s \in Sockets : PeerCloses(s)
           \/ orphanTimeoutFires \/ PeerFallsSilent \/ Restart
           \/ UNCHANGED vars
  BY <1>9, ChannelStutters
     DEF PeerCloses, orphanTimeoutFires, PeerFallsSilent, Restart, vars, IsOpen
<1>10. QED
  BY <1>1, <1>2, <1>3, <1>4, <1>5, <1>6, <1>7, <1>8, <1>9
     DEF Next, Caller, Socket, Timer

\* Every behaviour of AgentWsService is one of IAgentService.
THEOREM ChannelImplemented == Spec => ImplementsChannel
<1>1. Init => Channel!Init
  BY DEF Init, Channel!Init, IsOpen
<1>2. QED
  BY <1>1, ChannelStep, TypeCorrect, ConnectedAlways, SentInOrderAlways, PTL
     DEF Spec, ImplementsChannel, Channel!Spec
=============================================================================
