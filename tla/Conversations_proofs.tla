------------------------ MODULE Conversations_proofs ------------------------
(***************************************************************************)
(* What holds of Conversations for every number of clients, conversations  *)
(* and handlers in flight, with failing queries and agents that give up.   *)
(***************************************************************************)
EXTENDS Conversations, TLAPS

\* The handlers that do not know their conversation are those about to create
\* it.
ConvKnown ==
  \A h \in Handlers : handler[h] # None =>
    (handler[h].conv = None
       <=> /\ handler[h].awaits = "createConversation"
           /\ handler[h].query = "issued")

TypeInv == TypeOK /\ ConvKnown
-----------------------------------------------------------------------------
(* The parts of the handlers. *)

LEMMA NewHandlerType ==
  ASSUME NEW what \in {"start_chat", "send_message", "agent_message"},
         NEW s \in Clients, NEW c \in Convs \cup {None}, NEW m \in Message,
         NEW call \in Calls
  PROVE  /\ NewHandler(what, s, c, m, call) \in Handler
         /\ NewHandler(what, s, c, m, call).conv = c
         /\ NewHandler(what, s, c, m, call).awaits = call
         /\ NewHandler(what, s, c, m, call).query = "issued"
         /\ NewHandler(what, s, c, m, call).does = what
         /\ NewHandler(what, s, c, m, call).found = "absent"
BY DEF NewHandler, Handler, Statuses

\* What Call and Finish do to the table of handlers.
LEMMA CallEffect ==
  ASSUME TypeInv, NEW h \in Handlers, handler[h] # None, NEW call \in Calls,
         Call(h, call)
  PROVE  /\ handler' \in [Handlers -> Handler \cup {None}]
         /\ \A g \in Handlers : g # h => handler'[g] = handler[g]
         /\ handler'[h] \in Handler
         /\ handler'[h].conv = handler[h].conv
         /\ handler'[h].does = handler[h].does
         /\ handler'[h].message = handler[h].message
         /\ handler'[h].awaits = call
         /\ handler'[h].query = "issued"
         /\ handler'[h].found = "absent"
<1>1. handler[h] \in Handler /\ handler \in [Handlers -> Handler \cup {None}]
  BY DEF TypeInv, TypeOK
<1> DEFINE t == [handler[h] EXCEPT !.awaits = call, !.query = "issued",
                                   !.found = "absent", !.history = 0]
<1>2. handler' = [handler EXCEPT ![h] = t]
  BY <1>1 DEF Call
<1>3. /\ t \in Handler
      /\ t.conv = handler[h].conv
      /\ t.does = handler[h].does
      /\ t.message = handler[h].message
      /\ t.awaits = call
      /\ t.query = "issued"
      /\ t.found = "absent"
  BY <1>1 DEF Handler, Statuses
<1>4. QED
  BY <1>1, <1>2, <1>3

LEMMA FinishEffect ==
  ASSUME TypeInv, NEW h \in Handlers, Finish(h)
  PROVE  /\ handler' \in [Handlers -> Handler \cup {None}]
         /\ \A g \in Handlers : g # h => handler'[g] = handler[g]
         /\ handler'[h] = None
BY DEF TypeInv, TypeOK, Finish

LEMMA BindSocketType ==
  ASSUME TypeOK, NEW s \in Clients, NEW c \in Convs, bindSocket(s, c)
  PROVE  /\ socketByConversation' \in [Convs -> Clients \cup {None}]
         /\ conversationBySocket' \in [Clients -> Convs \cup {None}]
BY DEF TypeOK, bindSocket

LEMMA OpenSessionType ==
  ASSUME TypeOK, NEW s \in Clients, NEW c \in Convs, openSession(c, s)
  PROVE  /\ activeSessions' \subseteq Convs
         /\ agent' \in [Convs -> AgentSession \cup {None}]
         /\ \/ c \in activeSessions /\ agent[c] = None /\ agent' = agent
            \/ \E a \in AgentSession : agent' = [agent EXCEPT ![c] = a]
<1> DEFINE session == IF agent[c] = None
                        THEN [subscribers |-> << >>, opening |-> "nothing",
                              received |-> {}]
                        ELSE agent[c]
           subscribed == [session EXCEPT !.subscribers = Append(@, s)]
<1>1. session \in AgentSession
  <2>1. CASE agent[c] = None
    <3>1. << >> \in Seq(Clients)
      OBVIOUS
    <3>2. QED
      BY <2>1, <3>1 DEF AgentSession
  <2>2. CASE agent[c] # None
    BY <2>2 DEF TypeOK
  <2>3. QED
    BY <2>1, <2>2
<1>2. subscribed \in AgentSession
  <2>1. Append(session.subscribers, s) \in Seq(Clients)
    BY <1>1 DEF AgentSession
  <2> HIDE DEF session
  <2>2. QED
    BY <1>1, <2>1 DEF AgentSession
<1> HIDE DEF subscribed
<1>3. \/ c \in activeSessions /\ agent[c] = None /\ agent' = agent
      \/ agent' = [agent EXCEPT ![c] = subscribed]
  BY DEF openSession, subscribed
<1>4. QED
  BY <1>2, <1>3 DEF openSession, TypeOK

LEMMA CloseSessionType ==
  ASSUME TypeOK, NEW c \in Convs, closeSession(c)
  PROVE  /\ activeSessions' \subseteq Convs
         /\ agent' \in [Convs -> AgentSession \cup {None}]
BY DEF TypeOK, closeSession

LEMMA SendToAgentType ==
  ASSUME TypeOK, NEW c \in Convs, NEW p \in Payload, sendToAgent(c, p)
  PROVE  /\ activeSessions' \subseteq Convs
         /\ agent' \in [Convs -> AgentSession \cup {None}]
         /\ agent' = agent
              \/ \E a \in AgentSession :
                   agent[c] # None /\ agent' = [agent EXCEPT ![c] = a]
<1>1. CASE agent[c] = None
  BY <1>1 DEF sendToAgent, TypeOK
<1>2. CASE agent[c] # None
  <2> DEFINE o == IF agent[c].opening = "nothing" THEN p.type
                                                  ELSE agent[c].opening
             a == [agent[c] EXCEPT !.received = agent[c].received \cup {p},
                                   !.opening = o]
  <2>1. agent[c] \in AgentSession
    BY <1>2 DEF TypeOK
  <2>2. o \in {"nothing", "init", "message"}
    BY <2>1 DEF AgentSession, Payload
  <2>3. agent[c].received \cup {p} \in SUBSET Payload
    BY <2>1 DEF AgentSession
  <2>4. a \in AgentSession
    <3> HIDE DEF o
    <3>1. QED
      BY <2>1, <2>2, <2>3 DEF AgentSession
  <2>5. agent' = [agent EXCEPT ![c] = a]
    BY <1>2 DEF sendToAgent
  <2>6. QED
    <3> HIDE DEF a
    <3>1. QED
      BY <1>2, <2>4, <2>5 DEF sendToAgent, TypeOK
<1>3. QED
  BY <1>1, <1>2
-----------------------------------------------------------------------------
(* Type correctness. *)

\* A table of handlers in which one handler was replaced, or dropped.
LEMMA HandlerReplaced ==
  ASSUME TypeInv, NEW h \in Handlers,
         handler' \in [Handlers -> Handler \cup {None}],
         \A g \in Handlers : g # h => handler'[g] = handler[g],
         handler'[h] # None =>
           (handler'[h].conv = None
              <=> /\ handler'[h].awaits = "createConversation"
                  /\ handler'[h].query = "issued")
  PROVE  ConvKnown'
BY DEF TypeInv, ConvKnown

LEMMA NoMessageType == NoMessage \in Message
BY DEF NoMessage, Message

LEMMA ClientTypes ==
  ASSUME TypeInv, NEW s \in Clients, Client(s)
  PROVE  TypeInv'
<1> USE DEF TypeInv, bindings, sessions, database
<1>1. CASE handleConnection(s)
  BY <1>1 DEF handleConnection, TypeOK, ConvKnown
<1>2. CASE handleDisconnect(s)
  <2>1. UNCHANGED <<status, messages, handler, lastMessage, shown>>
    BY <1>2 DEF handleDisconnect
  <2>2. online' \subseteq Clients
    BY <1>2 DEF handleDisconnect, TypeOK
  <2>3. CASE conversationBySocket[s] = None
    BY <1>2, <2>1, <2>2, <2>3 DEF handleDisconnect, TypeOK, ConvKnown
  <2>4. CASE conversationBySocket[s] # None
    <3>1. conversationBySocket[s] \in Convs
      BY <2>4 DEF TypeOK
    <3>2. closeSession(conversationBySocket[s])
      BY <1>2, <2>4 DEF handleDisconnect
    <3>3. /\ activeSessions' \subseteq Convs
          /\ agent' \in [Convs -> AgentSession \cup {None}]
      BY <3>1, <3>2, CloseSessionType
    <3>4. /\ conversationBySocket' \in [Clients -> Convs \cup {None}]
          /\ socketByConversation' \in [Convs -> Clients \cup {None}]
      BY <1>2, <2>4 DEF handleDisconnect, TypeOK
    <3>5. QED
      BY <2>1, <2>2, <3>3, <3>4 DEF TypeOK, ConvKnown
  <2>5. QED
    BY <2>3, <2>4
<1>3. CASE onStartChatNew(s)
  <2>1. PICK h \in Idle : handler' = [handler EXCEPT ![h] =
          NewHandler("start_chat", s, None, NoMessage, "createConversation")]
    BY <1>3 DEF onStartChatNew
  <2> DEFINE t == NewHandler("start_chat", s, None, NoMessage,
                             "createConversation")
  <2>2. /\ t \in Handler /\ t.conv = None
        /\ t.awaits = "createConversation" /\ t.query = "issued"
    BY NewHandlerType, NoMessageType DEF Calls
  <2>3. h \in Handlers
    BY DEF Idle
  <2> HIDE DEF t
  <2>4. handler' = [handler EXCEPT ![h] = t]
    BY <2>1 DEF t
  <2>5. handler' \in [Handlers -> Handler \cup {None}]
    BY <2>2, <2>4 DEF TypeOK
  <2>6. ConvKnown'
    BY <2>2, <2>3, <2>4, <2>5, HandlerReplaced DEF TypeOK
  <2>7. QED
    BY <1>3, <2>5, <2>6 DEF onStartChatNew, TypeOK
<1>4. ASSUME NEW c \in Convs, onStartChat(s, c) PROVE TypeInv'
  <2>1. PICK h \in Idle : handler' = [handler EXCEPT ![h] =
          NewHandler("start_chat", s, c, NoMessage, "findById")]
    BY <1>4 DEF onStartChat
  <2> DEFINE t == NewHandler("start_chat", s, c, NoMessage, "findById")
  <2>2. t \in Handler /\ t.conv = c /\ t.awaits = "findById"
    BY NewHandlerType, NoMessageType DEF Calls
  <2>3. h \in Handlers
    BY DEF Idle
  <2> HIDE DEF t
  <2>4. handler' = [handler EXCEPT ![h] = t]
    BY <2>1 DEF t
  <2>5. handler' \in [Handlers -> Handler \cup {None}]
    BY <2>2, <2>4 DEF TypeOK
  <2>6. ConvKnown'
    BY <2>2, <2>3, <2>4, <2>5, HandlerReplaced, NoneAssumption DEF TypeOK
  <2>7. QED
    BY <1>4, <2>5, <2>6 DEF onStartChat, TypeOK
<1>5. ASSUME NEW c \in Convs, onSendMessage(s, c) PROVE TypeInv'
  <2> DEFINE m == [id |-> lastMessage', from |-> "user", isFinal |-> FALSE]
             t == NewHandler("send_message", s, c, m, "findById")
  <2>1. PICK h \in Idle : handler' = [handler EXCEPT ![h] = t]
    BY <1>5 DEF onSendMessage
  <2>2. lastMessage' \in Nat
    BY <1>5 DEF onSendMessage, TypeOK
  <2>3. m \in Message
    BY <2>2 DEF Message
  <2> HIDE DEF m
  <2>4. t \in Handler /\ t.conv = c /\ t.awaits = "findById"
    BY <2>3, NewHandlerType DEF Calls
  <2>5. h \in Handlers
    BY DEF Idle
  <2> HIDE DEF t
  <2>6. handler' \in [Handlers -> Handler \cup {None}]
    BY <2>1, <2>4 DEF TypeOK
  <2>7. ConvKnown'
    BY <2>1, <2>4, <2>5, <2>6, HandlerReplaced, NoneAssumption DEF TypeOK
  <2>8. /\ socketByConversation' \in [Convs -> Clients \cup {None}]
        /\ conversationBySocket' \in [Clients -> Convs \cup {None}]
    BY <1>5, BindSocketType DEF onSendMessage
  <2>9. QED
    BY <1>5, <2>2, <2>6, <2>7, <2>8 DEF onSendMessage, TypeOK
<1>6. QED
  BY <1>1, <1>2, <1>3, <1>4, <1>5 DEF Client

LEMMA AgentTypes ==
  ASSUME TypeInv, NEW c \in Convs, Agent(c)
  PROVE  TypeInv'
<1> USE DEF TypeInv, bindings, sessions, database
<1>1. CASE AgentGivesUp(c)
  BY <1>1 DEF AgentGivesUp, TypeOK, ConvKnown
<1>2. ASSUME NEW final \in BOOLEAN, handleAgentMessage(c, final)
      PROVE  TypeInv'
  <2> DEFINE m == [id |-> lastMessage', from |-> "agent", isFinal |-> final]
             who == agent[c].subscribers
             t(h, slot) == NewHandler("agent_message",
                             who[CHOOSE i \in DOMAIN who : slot[i] = h],
                             c, m, "createMessage")
  <2>1. PICK slot \in Injection(DOMAIN who, Idle) :
           handler' = [h \in Handlers |-> IF h \in Range(slot)
                                            THEN t(h, slot) ELSE handler[h]]
    BY <1>2 DEF handleAgentMessage
  <2>2. lastMessage' \in Nat
    BY <1>2 DEF handleAgentMessage, TypeOK
  <2>3. m \in Message
    BY <2>2 DEF Message
  <2>4. who \in Seq(Clients)
    BY <1>2 DEF handleAgentMessage, TypeOK, AgentSession
  <2> HIDE DEF m
  <2>5. ASSUME NEW h \in Range(slot)
        PROVE  /\ t(h, slot) \in Handler
               /\ t(h, slot).conv = c
               /\ t(h, slot).awaits = "createMessage"
    <3>1. \E i \in DOMAIN who : slot[i] = h
      BY <2>5 DEF Range, Injection, IsInjective
    <3>2. (CHOOSE i \in DOMAIN who : slot[i] = h) \in DOMAIN who
      BY <3>1
    <3> DEFINE j == CHOOSE i \in DOMAIN who : slot[i] = h
    <3>3. who[j] \in Clients
      <4> HIDE DEF j
      <4>1. j \in DOMAIN who
        BY <3>2 DEF j
      <4>2. QED
        BY <2>4, <4>1
    <3>4. QED
      BY <2>3, <3>3, NewHandlerType DEF Calls
  <2> HIDE DEF t
  <2>6. handler' \in [Handlers -> Handler \cup {None}]
    BY <2>1, <2>5 DEF TypeOK
  <2>7. ConvKnown'
    <3>1. ASSUME NEW h \in Range(slot), h \in Handlers
          PROVE  /\ handler'[h].conv # None
                 /\ handler'[h].awaits # "createConversation"
      BY <2>1, <2>5, <3>1, NoneAssumption
    <3>2. \A h \in Handlers : h \notin Range(slot) => handler'[h] = handler[h]
      BY <2>1
    <3>3. QED
      BY <3>1, <3>2 DEF ConvKnown
  <2>8. QED
    BY <1>2, <2>2, <2>6, <2>7 DEF handleAgentMessage, TypeOK
<1>3. QED
  BY <1>1, <1>2 DEF Agent

\* The answer of a query: the handler is as before, but for what it read.
LEMMA QueryEffect ==
  ASSUME TypeInv, NEW h \in Handlers, Query(h)
  PROVE  /\ handler' \in [Handlers -> Handler \cup {None}]
         /\ \A g \in Handlers : g # h => handler'[g] = handler[g]
         /\ handler[h] \in Handler
         /\ handler'[h] \in Handler
         /\ handler'[h].does = handler[h].does
         /\ handler'[h].awaits = handler[h].awaits
         /\ handler'[h].message = handler[h].message
         /\ handler'[h].query = "ok"
         /\ handler'[h].conv \in Convs
         /\ handler[h].conv # None => handler'[h].conv = handler[h].conv
         /\ handler[h].conv = None => handler[h].awaits = "createConversation"
<1> DEFINE t == handler[h]
           Answers(u) == handler' = [handler EXCEPT ![h] = [u EXCEPT !.query = "ok"]]
<1>1. t \in Handler /\ handler \in [Handlers -> Handler \cup {None}]
  BY DEF Query, TypeInv, TypeOK
<1>2. t.conv = None => t.awaits = "createConversation"
  BY DEF Query, TypeInv, ConvKnown
<1>3. t.awaits # "createConversation" => t.conv \in Convs
  BY <1>1, <1>2 DEF Handler
<1>4. \E u \in Handler : /\ Answers(u)
                         /\ u.does = t.does
                         /\ u.awaits = t.awaits
                         /\ u.message = t.message
                         /\ u.conv \in Convs
                         /\ t.awaits # "createConversation" => u.conv = t.conv
  <2>1. CASE t.awaits = "createConversation"
    <3>1. PICK c \in Convs : Answers([t EXCEPT !.conv = c, !.found = "active"])
      BY <2>1 DEF Query
    <3> DEFINE u == [t EXCEPT !.conv = c, !.found = "active"]
    <3>2. /\ u \in Handler /\ u.does = t.does /\ u.awaits = t.awaits
          /\ u.message = t.message /\ u.conv = c
      BY <1>1 DEF Handler, Statuses
    <3> HIDE DEF u
    <3>3. Answers(u)
      BY <3>1 DEF u
    <3>4. QED
      BY <2>1, <3>2, <3>3
  <2>2. CASE t.awaits = "findById"
    <3> DEFINE u == [t EXCEPT !.found = status[t.conv]]
    <3>1. status[t.conv] \in Statuses
      BY <1>3, <2>2 DEF TypeInv, TypeOK
    <3>2. /\ u \in Handler /\ u.does = t.does /\ u.awaits = t.awaits
          /\ u.message = t.message /\ u.conv = t.conv
      BY <1>1, <3>1 DEF Handler
    <3>3. Answers(u)
      BY <2>2 DEF Query
    <3>4. QED
      BY <1>3, <2>2, <3>2, <3>3
  <2>3. CASE t.awaits = "findByIdWithMessages"
    <3> DEFINE u == [t EXCEPT !.history = Len(messages[t.conv])]
    <3>1. Len(messages[t.conv]) \in Nat
      <4>1. messages[t.conv] \in Seq(Message)
        BY <1>3, <2>3 DEF TypeInv, TypeOK
      <4>2. QED
        BY <4>1
    <3>2. /\ u \in Handler /\ u.does = t.does /\ u.awaits = t.awaits
          /\ u.message = t.message /\ u.conv = t.conv
      BY <1>1, <3>1 DEF Handler
    <3>3. Answers(u)
      BY <2>3 DEF Query
    <3>4. QED
      BY <1>3, <2>3, <3>2, <3>3
  <2>4. CASE t.awaits \in {"createMessage", "updateStatus"}
    <3>1. Answers(t)
      BY <2>4 DEF Query
    <3>2. QED
      BY <1>1, <1>3, <2>4, <3>1
  <2>5. QED
    BY <1>1, <2>1, <2>2, <2>3, <2>4 DEF Handler, Calls
<1>5. PICK u \in Handler : /\ Answers(u)
                           /\ u.does = t.does
                           /\ u.awaits = t.awaits
                           /\ u.message = t.message
                           /\ u.conv \in Convs
                           /\ t.awaits # "createConversation" => u.conv = t.conv
  BY <1>4
<1> DEFINE v == [u EXCEPT !.query = "ok"]
<1>6. /\ v \in Handler /\ v.does = t.does /\ v.awaits = t.awaits
      /\ v.message = t.message /\ v.conv = u.conv /\ v.query = "ok"
  BY <1>5 DEF Handler
<1>7. handler' = [handler EXCEPT ![h] = v]
  BY <1>5
<1> HIDE DEF v
<1>8. t.conv # None => t.awaits # "createConversation"
  BY DEF Query, TypeInv, ConvKnown
<1>9. QED
  BY <1>1, <1>2, <1>5, <1>6, <1>7, <1>8

LEMMA DatabaseTypes ==
  ASSUME TypeInv, NEW h \in Handlers, Database(h)
  PROVE  TypeInv'
<1> USE DEF bindings, sessions, database
<1>1. CASE Query(h)
  <2>1. /\ handler' \in [Handlers -> Handler \cup {None}]
        /\ \A g \in Handlers : g # h => handler'[g] = handler[g]
        /\ handler'[h].query = "ok"
        /\ handler'[h].conv \in Convs
        /\ handler[h] \in Handler
    BY <1>1, QueryEffect
  <2>2. ConvKnown'
    BY <2>1, HandlerReplaced, NoneAssumption
  <2>3. status' \in [Convs -> Statuses]
    BY <1>1 DEF Query, TypeInv, TypeOK, Statuses
  <2>4. messages' \in [Convs -> Seq(Message)]
    <3>1. CASE UNCHANGED messages
      BY <3>1 DEF TypeInv, TypeOK
    <3>2. CASE messages' = [messages EXCEPT ![handler[h].conv] =
                              Append(@, handler[h].message)]
      <4>1. \A c \in Convs : Append(messages[c], handler[h].message) \in Seq(Message)
        BY <2>1 DEF TypeInv, TypeOK, Handler
      <4>2. QED
        BY <3>2, <4>1 DEF TypeInv, TypeOK
    <3>3. QED
      BY <1>1, <3>1, <3>2 DEF Query
  <2>5. QED
    BY <1>1, <2>1, <2>2, <2>3, <2>4 DEF Query, TypeInv, TypeOK
<1>2. CASE QueryFails(h)
  <2>1. /\ handler' \in [Handlers -> Handler \cup {None}]
        /\ \A g \in Handlers : g # h => handler'[g] = handler[g]
        /\ handler'[h] = None
    BY <1>2, FinishEffect DEF QueryFails
  <2>2. ConvKnown'
    BY <2>1, HandlerReplaced
  <2>3. QED
    BY <1>2, <2>1, <2>2 DEF QueryFails, TypeInv, TypeOK
<1>3. QED
  BY <1>1, <1>2 DEF Database

\* What a handler knows when it goes on.
LEMMA Resumed ==
  ASSUME TypeInv, NEW h \in Handlers, handler[h] # None,
         handler[h].query = "ok"
  PROVE  /\ handler[h] \in Handler
         /\ handler[h].conv \in Convs
         /\ handler[h].client \in Clients
         /\ handler[h].history \in Nat
         /\ handler[h].message.id \in Nat
<1>1. handler[h] \in Handler
  BY DEF TypeInv, TypeOK
<1>2. handler[h].conv # None
  BY DEF TypeInv, ConvKnown
<1>3. QED
  BY <1>1, <1>2 DEF Handler, Message

\* It awaits another query, or is done.
LEMMA CallOrFinishTypes ==
  ASSUME TypeInv, NEW h \in Handlers, handler[h] # None,
         handler[h].query = "ok",
         \/ Finish(h)
         \/ \E call \in Calls \ {"createConversation"} : Call(h, call)
  PROVE  handler' \in [Handlers -> Handler \cup {None}] /\ ConvKnown'
<1>1. CASE Finish(h)
  BY <1>1, FinishEffect, HandlerReplaced
<1>2. ASSUME NEW call \in Calls, call # "createConversation", Call(h, call)
      PROVE  handler' \in [Handlers -> Handler \cup {None}] /\ ConvKnown'
  <2>1. handler[h].conv # None
    BY Resumed, NoneAssumption
  <2>2. QED
    BY <1>2, <2>1, CallEffect, HandlerReplaced
<1>3. QED
  BY <1>1, <1>2

LEMMA ResumeTypes ==
  ASSUME TypeInv, NEW h \in Handlers, Resume(h)
  PROVE  TypeInv'
<1> USE DEF bindings, sessions, database
<1> DEFINE t == handler[h]
<1>0. handler[h] # None /\ handler[h].query = "ok"
  BY DEF Resume, startChat, sendUserMessage, processAgentMessage
<1>1. /\ t \in Handler /\ t.conv \in Convs /\ t.client \in Clients
      /\ t.history \in Nat /\ t.message.id \in Nat
  BY <1>0, Resumed
<1>2. /\ [type |-> "init", n |-> t.history] \in Payload
      /\ [type |-> "message", n |-> t.message.id] \in Payload
  BY <1>1 DEF Payload
<1>3. handler' \in [Handlers -> Handler \cup {None}] /\ ConvKnown'
  <2>1. \/ Finish(h)
        \/ \E call \in Calls \ {"createConversation"} : Call(h, call)
    BY DEF Resume, startChat, sendUserMessage, processAgentMessage, Calls
  <2>2. QED
    BY <1>0, <2>1, CallOrFinishTypes
<1>4. UNCHANGED <<online, status, messages, lastMessage>>
  BY DEF Resume, startChat, sendUserMessage, processAgentMessage
<1>5. shown' \subseteq Nat
  BY <1>1 DEF Resume, startChat, sendUserMessage, processAgentMessage,
              TypeInv, TypeOK
<1>6. /\ socketByConversation' \in [Convs -> Clients \cup {None}]
      /\ conversationBySocket' \in [Clients -> Convs \cup {None}]
  <2>1. \/ UNCHANGED <<socketByConversation, conversationBySocket>>
        \/ bindSocket(t.client, t.conv)
    BY DEF Resume, startChat, sendUserMessage, processAgentMessage
  <2>2. QED
    BY <1>1, <2>1, BindSocketType DEF TypeInv, TypeOK
<1>7. /\ activeSessions' \subseteq Convs
      /\ agent' \in [Convs -> AgentSession \cup {None}]
  <2>1. \/ UNCHANGED <<activeSessions, agent>>
        \/ openSession(t.conv, t.client)
        \/ closeSession(t.conv)
        \/ \E p \in Payload : sendToAgent(t.conv, p)
    BY <1>2 DEF Resume, startChat, sendUserMessage, processAgentMessage
  <2>2. QED
    BY <1>1, <2>1, OpenSessionType, CloseSessionType, SendToAgentType
       DEF TypeInv, TypeOK
<1>8. QED
  BY <1>3, <1>4, <1>5, <1>6, <1>7 DEF TypeInv, TypeOK

LEMMA CrashTypes ==
  ASSUME TypeInv, Crash
  PROVE  TypeInv'
BY DEF TypeInv, TypeOK, ConvKnown, Crash, database

LEMMA TypeInvAlways == Spec => []TypeInv
<1>1. Init => TypeInv
  <2>1. << >> \in Seq(Message)
    OBVIOUS
  <2>2. QED
    BY <2>1 DEF Init, TypeInv, TypeOK, ConvKnown, Statuses
<1>2. ASSUME TypeInv, [Next]_vars PROVE TypeInv'
  <2>1. CASE UNCHANGED vars
    BY <1>2, <2>1 DEF vars, TypeInv, TypeOK, ConvKnown
  <2>2. QED
    BY <1>2, <2>1, ClientTypes, AgentTypes, DatabaseTypes, ResumeTypes,
       CrashTypes DEF Next
<1>3. QED
  BY <1>1, <1>2, PTL DEF Spec

\* The gateway's maps, the sessions, the database and the handlers have their
\* types.
THEOREM TypeCorrect == Spec => []TypeOK
BY TypeInvAlways, PTL DEF TypeInv
=============================================================================
