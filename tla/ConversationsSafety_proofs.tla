--------------------- MODULE ConversationsSafety_proofs ---------------------
(***************************************************************************)
(* The safety properties of Conversations: the gateway's maps agree, the   *)
(* service's sessions are the agent's, a session ends for a reason, and    *)
(* what clients and agent have seen is in the database.  Then the causes:  *)
(* three things the comments of the code say do not always hold; without   *)
(* the cause that each theorem names, they do.                             *)
(***************************************************************************)
EXTENDS Conversations_proofs

-----------------------------------------------------------------------------
(* The gateway's maps. *)

\* A client takes a conversation over, whoever had it.
LEMMA BindSocketAgrees ==
  ASSUME TypeOK, BindingsAgree, NEW s \in Clients, NEW c \in Convs,
         bindSocket(s, c)
  PROVE  BindingsAgree'
<1> SUFFICES ASSUME NEW t \in Clients, conversationBySocket'[t] # None
             PROVE  socketByConversation'[conversationBySocket'[t]] = t
  BY DEF BindingsAgree
<1>1. socketByConversation' = [socketByConversation EXCEPT ![c] = s]
  BY DEF bindSocket
<1>2. CASE t = s
  <2>1. conversationBySocket'[t] = c
    BY <1>2 DEF bindSocket
  <2>2. QED
    BY <1>1, <1>2, <2>1 DEF TypeOK
<1>3. CASE t # s
  <2>1. /\ conversationBySocket'[t] = conversationBySocket[t]
        /\ t # socketByConversation[c]
    BY <1>3 DEF bindSocket
  <2>2. socketByConversation[conversationBySocket[t]] = t
    BY <2>1 DEF BindingsAgree
  <2>3. conversationBySocket[t] # c
    BY <2>1, <2>2
  <2>4. QED
    BY <1>1, <2>1, <2>2, <2>3 DEF TypeOK
<1>4. QED
  BY <1>2, <1>3

\* Whatever clients do while handlers are between two steps, no two of them
\* are bound to one conversation.
THEOREM BindingsAgreeAlways == Spec => []BindingsAgree
<1>1. Init => BindingsAgree
  BY DEF Init, BindingsAgree
<1>2. ASSUME TypeInv, BindingsAgree, [Next]_vars PROVE BindingsAgree'
  <2> USE <1>2 DEF bindings
  <2>1. CASE UNCHANGED bindings
    BY <2>1 DEF BindingsAgree
  <2>2. ASSUME NEW s \in Clients, handleDisconnect(s) PROVE BindingsAgree'
    <3> DEFINE c == conversationBySocket[s]
    <3>1. CASE c = None
      BY <2>1, <2>2, <3>1 DEF handleDisconnect
    <3>2. CASE c # None
      <4>1. /\ conversationBySocket' =
                 [conversationBySocket EXCEPT ![s] = None]
            /\ socketByConversation' =
                 [socketByConversation EXCEPT ![c] = None]
        BY <2>2, <3>2 DEF handleDisconnect
      <4>2. SUFFICES ASSUME NEW t \in Clients,
                            conversationBySocket'[t] # None
                     PROVE  socketByConversation'[conversationBySocket'[t]] = t
        BY DEF BindingsAgree
      <4>3. t # s /\ conversationBySocket'[t] = conversationBySocket[t]
        BY <4>1, <4>2 DEF TypeInv, TypeOK
      <4>4. /\ socketByConversation[conversationBySocket[t]] = t
            /\ socketByConversation[c] = s
        BY <3>2, <4>2, <4>3 DEF BindingsAgree
      <4>5. conversationBySocket[t] # c /\ conversationBySocket[t] \in Convs
        BY <4>2, <4>3, <4>4 DEF TypeInv, TypeOK
      <4>6. QED
        BY <4>1, <4>3, <4>4, <4>5 DEF TypeInv, TypeOK
    <3>3. QED
      BY <3>1, <3>2
  <2>3. ASSUME NEW s \in Clients, NEW c \in Convs, onSendMessage(s, c)
        PROVE  BindingsAgree'
    BY <2>3, BindSocketAgrees DEF onSendMessage, TypeInv
  <2>4. ASSUME NEW h \in Handlers, startChat(h) PROVE BindingsAgree'
    <3>1. handler[h].client \in Clients /\ handler[h].conv \in Convs
      BY <2>4, Resumed DEF startChat
    <3>2. CASE bindSocket(handler[h].client, handler[h].conv)
      BY <3>1, <3>2, BindSocketAgrees DEF TypeInv
    <3>3. QED
      BY <2>1, <2>4, <3>2 DEF startChat
  <2>5. CASE Crash
    BY <2>5 DEF Crash, BindingsAgree
  <2>6. ASSUME NEW s \in Clients, Client(s) PROVE BindingsAgree'
    BY <2>1, <2>2, <2>3, <2>6
       DEF Client, handleConnection, onStartChatNew, onStartChat
  <2>7. ASSUME NEW c \in Convs, Agent(c) PROVE BindingsAgree'
    BY <2>1, <2>7 DEF Agent, AgentGivesUp, handleAgentMessage
  <2>8. ASSUME NEW h \in Handlers, Database(h) \/ Resume(h)
        PROVE  BindingsAgree'
    BY <2>1, <2>4, <2>8 DEF Database, Query, QueryFails, Resume,
                            sendUserMessage, processAgentMessage
  <2>9. QED
    BY <2>1, <2>5, <2>6, <2>7, <2>8 DEF Next, vars
<1>3. QED
  BY <1>1, <1>2, TypeInvAlways, PTL DEF Spec
-----------------------------------------------------------------------------
(* What the other steps do to a handler and to the database. *)

\* A handler that a client's call or an agent's message has just started.
JustStarted(t) ==
  /\ t \in Handler
  /\ t.query = "issued"
  /\ t.found = "absent"
  /\ \/ /\ t.does \in {"start_chat", "send_message"}
        /\ t.awaits \in {"createConversation", "findById"}
     \/ /\ t.does = "agent_message"
        /\ t.awaits = "createMessage"
        /\ t.conv \in Convs
        /\ agent[t.conv] # None

LEMMA ClientStarts ==
  ASSUME TypeInv, NEW s \in Clients, Client(s), NEW g \in Handlers,
         handler'[g] # handler[g]
  PROVE  JustStarted(handler'[g]) /\ handler'[g].does # "agent_message"
<1> USE DEF JustStarted
<1>0. handler \in [Handlers -> Handler \cup {None}] /\ lastMessage \in Nat
  BY DEF TypeInv, TypeOK
<1>1. ASSUME NEW t \in Handler, JustStarted(t), t.does # "agent_message", NEW h \in Handlers,
             handler' = [handler EXCEPT ![h] = t]
      PROVE  JustStarted(handler'[g]) /\ handler'[g].does # "agent_message"
  <2>1. handler'[g] = t
    BY <1>0, <1>1
  <2>2. QED
    BY <1>1, <2>1
<1>2. CASE onStartChatNew(s)
  <2> DEFINE t == NewHandler("start_chat", s, None, NoMessage,
                             "createConversation")
  <2>1. t \in Handler /\ JustStarted(t) /\ t.does # "agent_message"
    BY NewHandlerType, NoMessageType DEF Calls
  <2>2. PICK h \in Idle : handler' = [handler EXCEPT ![h] = t]
    BY <1>2 DEF onStartChatNew
  <2> HIDE DEF t, JustStarted
  <2>3. QED
    BY <1>1, <2>1, <2>2 DEF Idle
<1>3. ASSUME NEW c \in Convs, onStartChat(s, c)
      PROVE  JustStarted(handler'[g]) /\ handler'[g].does # "agent_message"
  <2> DEFINE t == NewHandler("start_chat", s, c, NoMessage, "findById")
  <2>1. t \in Handler /\ JustStarted(t) /\ t.does # "agent_message"
    BY NewHandlerType, NoMessageType DEF Calls
  <2>2. PICK h \in Idle : handler' = [handler EXCEPT ![h] = t]
    BY <1>3 DEF onStartChat
  <2> HIDE DEF t, JustStarted
  <2>3. QED
    BY <1>1, <2>1, <2>2 DEF Idle
<1>4. ASSUME NEW c \in Convs, onSendMessage(s, c)
      PROVE  JustStarted(handler'[g]) /\ handler'[g].does # "agent_message"
  <2> DEFINE m == [id |-> lastMessage', from |-> "user", isFinal |-> FALSE]
             t == NewHandler("send_message", s, c, m, "findById")
  <2>1. m \in Message
    BY <1>0, <1>4 DEF onSendMessage, Message
  <2>2. PICK h \in Idle : handler' = [handler EXCEPT ![h] = t]
    BY <1>4 DEF onSendMessage
  <2> HIDE DEF m
  <2>3. t \in Handler /\ JustStarted(t) /\ t.does # "agent_message"
    BY <2>1, NewHandlerType DEF Calls
  <2> HIDE DEF t, JustStarted
  <2>4. QED
    BY <1>1, <2>2, <2>3 DEF Idle
<1>5. ~handleConnection(s) /\ ~handleDisconnect(s)
  BY DEF handleConnection, handleDisconnect
<1> HIDE DEF JustStarted
<1>6. QED
  BY <1>2, <1>3, <1>4, <1>5 DEF Client

LEMMA AgentStarts ==
  ASSUME TypeInv, NEW c \in Convs, Agent(c), NEW g \in Handlers,
         handler'[g] # handler[g]
  PROVE  JustStarted(handler'[g])
<1>1. PICK final \in BOOLEAN : handleAgentMessage(c, final)
  BY DEF Agent, AgentGivesUp
<1> DEFINE m == [id |-> lastMessage', from |-> "agent", isFinal |-> final]
           who == agent[c].subscribers
           t(h, slot) == NewHandler("agent_message",
                           who[CHOOSE i \in DOMAIN who : slot[i] = h],
                           c, m, "createMessage")
<1>2. PICK slot \in Injection(DOMAIN who, Idle) :
         handler' = [h \in Handlers |-> IF h \in Range(slot)
                                          THEN t(h, slot) ELSE handler[h]]
  BY <1>1 DEF handleAgentMessage
<1>3. m \in Message
  BY <1>1 DEF handleAgentMessage, TypeInv, TypeOK, Message
<1>4. who \in Seq(Clients) /\ agent[c] # None
  BY <1>1 DEF handleAgentMessage, TypeInv, TypeOK, AgentSession
<1>5. g \in Range(slot)
  BY <1>2 DEF TypeInv, TypeOK
<1>6. handler'[g] = t(g, slot)
  BY <1>2, <1>5
<1> DEFINE j == CHOOSE i \in DOMAIN who : slot[i] = g
<1>7. j \in DOMAIN who
  <2>1. \E i \in DOMAIN who : slot[i] = g
    BY <1>5 DEF Range, Injection, IsInjective
  <2>2. QED
    BY <2>1
<1>8. handler'[g] = NewHandler("agent_message", who[j], c, m, "createMessage")
  BY <1>6
<1> HIDE DEF j, m, t
<1>9. who[j] \in Clients
  BY <1>4, <1>7
<1>10. QED
  BY <1>3, <1>4, <1>8, <1>9, NewHandlerType DEF JustStarted, Calls

\* Nothing stored is ever taken back.
LEMMA MessagesGrow ==
  ASSUME TypeInv, [Next]_vars, NEW c \in Convs
  PROVE  /\ Len(messages[c]) \in Nat
         /\ Len(messages'[c]) \in Nat
         /\ Len(messages[c]) <= Len(messages'[c])
         /\ \A i \in DOMAIN messages[c] :
              i \in DOMAIN messages'[c] /\ messages'[c][i] = messages[c][i]
<1>1. messages[c] \in Seq(Message)
  BY DEF TypeInv, TypeOK
<1>2. CASE messages'[c] = messages[c]
  BY <1>1, <1>2
<1>3. ASSUME NEW m \in Message, messages'[c] = Append(messages[c], m)
      PROVE  /\ Len(messages'[c]) \in Nat
             /\ Len(messages[c]) <= Len(messages'[c])
             /\ \A i \in DOMAIN messages[c] :
                  i \in DOMAIN messages'[c] /\ messages'[c][i] = messages[c][i]
  BY <1>1, <1>3
<1>4. ASSUME NEW h \in Handlers, Query(h)
      PROVE  \/ messages'[c] = messages[c]
             \/ \E m \in Message : messages'[c] = Append(messages[c], m)
  <2>1. handler[h].message \in Message
    BY <1>4, QueryEffect DEF Handler
  <2>2. CASE messages' = [messages EXCEPT ![handler[h].conv] =
                            Append(@, handler[h].message)]
    BY <2>1, <2>2 DEF TypeInv, TypeOK
  <2>3. CASE UNCHANGED messages
    BY <2>3
  <2>4. CASE handler[h].awaits = "createMessage"
    BY <1>4, <2>2, <2>4 DEF Query
  <2>5. CASE handler[h].awaits # "createMessage"
    <3>1. UNCHANGED messages
      BY <1>4, <2>5 DEF Query, database
    <3>2. QED
      BY <2>3, <3>1
  <2>6. QED
    BY <2>4, <2>5
<1>5. \/ UNCHANGED messages
      \/ \E h \in Handlers : Query(h)
  BY DEF Next, Client, Agent, Database, Resume, handleConnection,
         handleDisconnect, onStartChatNew, onStartChat, onSendMessage,
         handleAgentMessage, AgentGivesUp, QueryFails, startChat,
         sendUserMessage, processAgentMessage, Crash, database, vars
<1>6. QED
  BY <1>1, <1>2, <1>3, <1>4, <1>5

\* createMessage stores the handler's message.
LEMMA QueryStores ==
  ASSUME TypeInv, NEW h \in Handlers, Query(h),
         handler[h].awaits = "createMessage"
  PROVE  /\ handler[h].conv \in Convs
         /\ \E i \in DOMAIN messages'[handler[h].conv] :
              messages'[handler[h].conv][i] = handler[h].message
<1> DEFINE c == handler[h].conv
           m == handler[h].message
<1>1. c \in Convs /\ m \in Message
  BY QueryEffect DEF Handler
<1>2. messages'[c] = Append(messages[c], m)
  BY <1>1 DEF Query, TypeInv, TypeOK
<1>3. messages[c] \in Seq(Message)
  BY <1>1 DEF TypeInv, TypeOK
<1>4. /\ Len(messages[c]) + 1 \in DOMAIN messages'[c]
      /\ messages'[c][Len(messages[c]) + 1] = m
  BY <1>1, <1>2, <1>3
<1>5. QED
  BY <1>1, <1>4

\* A status is completed by updateStatus, and never taken back.
LEMMA StatusSteps ==
  ASSUME TypeInv, [Next]_vars, NEW c \in Convs
  PROVE  /\ status[c] = "completed" => status'[c] = "completed"
         /\ status[c] # "absent" => status'[c] # "absent"
         /\ status'[c] = "completed" =>
              \/ status[c] = "completed"
              \/ \E h \in Handlers : /\ Query(h)
                                     /\ handler[h].awaits = "updateStatus"
                                     /\ handler[h].conv = c
<1>1. CASE UNCHANGED status
  BY <1>1
<1>2. ASSUME NEW h \in Handlers, Query(h), status' # status
      PROVE  \/ \E d \in Convs : /\ status[d] = "absent"
                                 /\ status' = [status EXCEPT ![d] = "active"]
             \/ /\ handler[h].awaits = "updateStatus"
                /\ status' = [status EXCEPT ![handler[h].conv] = "completed"]
  <2>1. CASE handler[h].awaits = "createConversation"
    BY <1>2, <2>1 DEF Query
  <2>2. CASE handler[h].awaits = "updateStatus"
    BY <1>2, <2>2 DEF Query
  <2>3. CASE handler[h].awaits \in {"findById", "findByIdWithMessages",
                                    "createMessage"}
    <3>1. UNCHANGED status
      BY <1>2, <2>3 DEF Query, database
    <3>2. QED
      BY <1>2, <3>1
  <2>4. handler[h].awaits \in Calls
    BY <1>2, QueryEffect DEF Handler
  <2>5. QED
    BY <2>1, <2>2, <2>3, <2>4 DEF Calls
<1>3. \/ UNCHANGED status
      \/ \E h \in Handlers : Query(h)
  BY DEF Next, Client, Agent, Database, Resume, handleConnection,
         handleDisconnect, onStartChatNew, onStartChat, onSendMessage,
         handleAgentMessage, AgentGivesUp, QueryFails, startChat,
         sendUserMessage, processAgentMessage, Crash, database, vars
<1>4. QED
  BY <1>1, <1>2, <1>3 DEF TypeInv, TypeOK
-----------------------------------------------------------------------------
(* Agent messages on their way through handleAgentMessage. *)

Stored(t) == \E i \in DOMAIN messages[t.conv] : messages[t.conv][i] = t.message

\* Once the insert has been answered the message is stored; only a final one
\* goes on to the status, which is completed when that is answered.
AgentMessageOrder(t) ==
  t.does = "agent_message" =>
    /\ t.conv \in Convs
    /\ t.awaits \in {"createMessage", "updateStatus"}
    /\ t.awaits = "createMessage" /\ t.query = "ok" => Stored(t)
    /\ t.awaits = "updateStatus" => t.message.isFinal /\ Stored(t)
    /\ t.awaits = "updateStatus" /\ t.query = "ok"
         => status[t.conv] = "completed"

StatusByAgent(t) == t.awaits = "updateStatus" => t.does = "agent_message"

LastWordOrder ==
  /\ \A h \in Handlers : \A t \in Handler :
       handler[h] = t => AgentMessageOrder(t) /\ StatusByAgent(t)
  /\ CompletedHasLastWord

LEMMA OrderSurvives ==
  ASSUME TypeInv, [Next]_vars, NEW t \in Handler, AgentMessageOrder(t)
  PROVE  AgentMessageOrder(t)'
<1>1. ASSUME t.conv \in Convs, Stored(t) PROVE Stored(t)'
  BY <1>1, MessagesGrow DEF Stored
<1>2. ASSUME t.conv \in Convs, status[t.conv] = "completed"
      PROVE  status'[t.conv] = "completed"
  BY <1>2, StatusSteps
<1>3. QED
  BY <1>1, <1>2 DEF AgentMessageOrder

LEMMA QueryKeepsOrder ==
  ASSUME TypeInv, LastWordOrder, [Next]_vars, NEW h \in Handlers, Query(h),
         NEW t \in Handler, handler'[h] = t
  PROVE  AgentMessageOrder(t)' /\ StatusByAgent(t)
<1> DEFINE u == handler[h]
<1>1. /\ u \in Handler
      /\ t.does = u.does /\ t.awaits = u.awaits /\ t.message = u.message
      /\ t.query = "ok"
      /\ u.conv # None => t.conv = u.conv
  BY QueryEffect
<1>2. PICK v \in Handler : v = u
  BY <1>1
<1>3. AgentMessageOrder(v) /\ StatusByAgent(v)
  BY <1>2 DEF LastWordOrder
<1>4. AgentMessageOrder(v)'
  BY <1>2, <1>3, OrderSurvives
<1>5. StatusByAgent(t)
  BY <1>1, <1>2, <1>3 DEF StatusByAgent
<1>6. ASSUME t.does = "agent_message" PROVE AgentMessageOrder(t)'
  <2>1. v.conv \in Convs /\ t.conv = v.conv
    BY <1>1, <1>2, <1>3, <1>6, NoneAssumption DEF AgentMessageOrder
  <2>2. CASE t.awaits = "createMessage"
    <3>1. Stored(t)'
      BY <1>1, <1>2, <2>1, <2>2, QueryStores DEF Stored
    <3>2. QED
      BY <2>1, <2>2, <3>1 DEF AgentMessageOrder
  <2>3. CASE t.awaits = "updateStatus"
    <3>1. t.message.isFinal /\ Stored(t)'
      BY <1>1, <1>2, <1>4, <1>6, <2>1, <2>3 DEF AgentMessageOrder, Stored
    <3>2. status' = [status EXCEPT ![u.conv] = "completed"]
      BY <1>1, <2>3 DEF Query
    <3>3. status'[t.conv] = "completed"
      BY <1>2, <2>1, <3>2 DEF TypeInv, TypeOK
    <3>4. QED
      BY <2>1, <2>3, <3>1, <3>3 DEF AgentMessageOrder
  <2>4. t.awaits \in {"createMessage", "updateStatus"}
    BY <1>1, <1>2, <1>3, <1>6 DEF AgentMessageOrder
  <2>5. QED
    BY <2>2, <2>3, <2>4
<1>7. QED
  BY <1>5, <1>6 DEF AgentMessageOrder

LEMMA ResumeKeepsOrder ==
  ASSUME TypeInv, LastWordOrder, [Next]_vars, NEW h \in Handlers, Resume(h),
         NEW t \in Handler, handler'[h] = t
  PROVE  AgentMessageOrder(t)' /\ StatusByAgent(t)
<1> DEFINE u == handler[h]
<1>1. u # None /\ u.query = "ok"
  BY DEF Resume, startChat, sendUserMessage, processAgentMessage
<1>2. u \in Handler /\ u.conv \in Convs
  BY <1>1, Resumed
<1>3. PICK v \in Handler : v = u
  BY <1>2
<1>4. AgentMessageOrder(v) /\ StatusByAgent(v)
  BY <1>3 DEF LastWordOrder
<1>5. AgentMessageOrder(v)'
  BY <1>3, <1>4, OrderSurvives
<1>6. t # None
  BY AbsentAssumption
<1>7. CASE startChat(h) \/ sendUserMessage(h)
  <2>1. \E call \in {"findByIdWithMessages", "createMessage"} : Call(h, call)
    <3>1. ~Finish(h)
      BY <1>6, FinishEffect
    <3>2. QED
      BY <1>7, <3>1 DEF startChat, sendUserMessage
  <2>2. t.does = u.does /\ t.awaits # "updateStatus"
    BY <1>1, <2>1, CallEffect DEF Calls
  <2>3. u.does # "agent_message"
    BY <1>7 DEF startChat, sendUserMessage
  <2>4. QED
    BY <2>2, <2>3 DEF AgentMessageOrder, StatusByAgent
<1>8. CASE processAgentMessage(h)
  <2>1. ~Finish(h)
    BY <1>6, FinishEffect
  <2>2. /\ u.awaits = "createMessage"
        /\ u.message.isFinal
        /\ u.does = "agent_message"
        /\ Call(h, "updateStatus")
    BY <1>8, <2>1 DEF processAgentMessage
  <2>3. /\ t.conv = v.conv /\ t.does = v.does /\ t.message = v.message
        /\ t.awaits = "updateStatus" /\ t.query = "issued"
    BY <1>1, <1>3, <2>2, CallEffect DEF Calls
  <2>4. Stored(v)'
    BY <1>1, <1>3, <1>5, <2>2 DEF AgentMessageOrder
  <2>5. Stored(t)'
    BY <2>3, <2>4 DEF Stored
  <2>6. QED
    BY <1>2, <1>3, <2>2, <2>3, <2>5 DEF AgentMessageOrder, StatusByAgent
<1>9. QED
  BY <1>7, <1>8 DEF Resume

LEMMA LastWordOrderAlways == Spec => []LastWordOrder
<1>1. Init => LastWordOrder
  BY AbsentAssumption DEF Init, LastWordOrder, CompletedHasLastWord
<1>2. ASSUME TypeInv, LastWordOrder, [Next]_vars PROVE LastWordOrder'
  <2>1. ASSUME NEW g \in Handlers, NEW t \in Handler, handler'[g] = t
        PROVE  AgentMessageOrder(t)' /\ StatusByAgent(t)
    <3>1. CASE handler[g] = t
      BY <1>2, <3>1, OrderSurvives DEF LastWordOrder
    <3>2. ASSUME JustStarted(t) PROVE AgentMessageOrder(t)' /\ StatusByAgent(t)
      BY <3>2 DEF JustStarted, AgentMessageOrder, StatusByAgent
    <3>3. ASSUME NEW s \in Clients, Client(s), handler'[g] # handler[g]
          PROVE  JustStarted(t)
      BY <1>2, <2>1, <3>3, ClientStarts
    <3>4. ASSUME NEW c \in Convs, Agent(c), handler'[g] # handler[g]
          PROVE  JustStarted(t)
      BY <1>2, <2>1, <3>4, AgentStarts
    <3>5. ASSUME NEW h \in Handlers, Query(h)
          PROVE  h = g \/ handler'[g] = handler[g]
      BY <1>2, <3>5, QueryEffect
    <3>6. ASSUME NEW h \in Handlers, QueryFails(h)
          PROVE  handler'[g] = handler[g]
      BY <1>2, <2>1, <3>6, FinishEffect, AbsentAssumption DEF QueryFails
    <3>7. ASSUME NEW h \in Handlers, Resume(h)
          PROVE  h = g \/ handler'[g] = handler[g]
      <4>1. Finish(h) \/ \E call \in Calls : Call(h, call)
        BY <3>7 DEF Resume, startChat, sendUserMessage, processAgentMessage,
                    Calls
      <4>2. handler[h] # None
        BY <3>7 DEF Resume, startChat, sendUserMessage, processAgentMessage
      <4>3. QED
        BY <1>2, <4>1, <4>2, FinishEffect, CallEffect
    <3>8. ~Crash
      BY <2>1, AbsentAssumption DEF Crash
    <3>9. CASE handler'[g] # handler[g]
      BY <1>2, <2>1, <3>2, <3>3, <3>4, <3>5, <3>6, <3>7, <3>8, <3>9,
         QueryKeepsOrder, ResumeKeepsOrder DEF Next, Database, vars
    <3>10. QED
      BY <2>1, <3>1, <3>9
  <2>2. ASSUME NEW c \in Convs, status'[c] = "completed"
        PROVE  \E i \in DOMAIN messages'[c] : messages'[c][i].isFinal
    <3>1. CASE status[c] = "completed"
      <4>1. PICK i \in DOMAIN messages[c] : messages[c][i].isFinal
        BY <1>2, <3>1 DEF LastWordOrder, CompletedHasLastWord
      <4>2. QED
        BY <1>2, <4>1, MessagesGrow
    <3>2. ASSUME NEW h \in Handlers, Query(h),
                 handler[h].awaits = "updateStatus", handler[h].conv = c
          PROVE  \E i \in DOMAIN messages[c] : messages[c][i].isFinal
      <4>1. PICK v \in Handler : v = handler[h]
        BY <1>2, <3>2, QueryEffect
      <4>2. v.message.isFinal /\ Stored(v)
        BY <1>2, <3>2, <4>1
           DEF LastWordOrder, StatusByAgent, AgentMessageOrder
      <4>3. QED
        BY <3>2, <4>1, <4>2 DEF Stored
    <3>3. CASE \E i \in DOMAIN messages[c] : messages[c][i].isFinal
      BY <1>2, <3>3, MessagesGrow
    <3>4. QED
      BY <1>2, <2>2, <3>1, <3>2, <3>3, StatusSteps
  <2>3. QED
    BY <2>1, <2>2 DEF LastWordOrder, CompletedHasLastWord, StatusByAgent
<1>3. QED
  BY <1>1, <1>2, TypeInvAlways, PTL DEF Spec

\* A conversation is completed only with the agent's last word in the
\* database, whatever fails and whenever the process dies.
THEOREM CompletedHasLastWordAlways == Spec => []CompletedHasLastWord
BY LastWordOrderAlways, PTL DEF LastWordOrder

\* A session ends only because its client leaves, because its conversation is
\* completed or because the process dies.
THEOREM SessionEndsForAReasonAlways == Spec => SessionEndsForAReason
<1> DEFINE Reason(c) == \/ status[c] = "completed"
                        \/ socketByConversation[c] \in online \ online'
                        \/ Crash
<1>1. ASSUME TypeInv, BindingsAgree, LastWordOrder, [Next]_vars,
             NEW c \in activeSessions \ activeSessions'
      PROVE  Reason(c)
  <2>1. ASSUME NEW s \in Clients, handleDisconnect(s) PROVE Reason(c)
    <3>1. conversationBySocket[s] = c
      BY <1>1, <2>1 DEF handleDisconnect, closeSession, sessions
    <3>2. c # None
      BY <1>1, NoneAssumption DEF TypeInv, TypeOK
    <3>3. socketByConversation[c] = s
      BY <1>1, <3>1, <3>2 DEF BindingsAgree
    <3>4. QED
      BY <2>1, <3>3 DEF handleDisconnect
  <2>2. ASSUME NEW h \in Handlers, processAgentMessage(h) PROVE Reason(c)
    <3>1. PICK v \in Handler : v = handler[h]
      BY <1>1, <2>2, Resumed DEF processAgentMessage
    <3>2. v.awaits = "updateStatus" /\ v.conv = c
      BY <1>1, <2>2, <3>1 DEF processAgentMessage, closeSession, sessions
    <3>3. status[c] = "completed"
      BY <1>1, <2>2, <3>1, <3>2
         DEF processAgentMessage, LastWordOrder, AgentMessageOrder
    <3>4. QED
      BY <3>3
  <2>3. CASE Crash
    BY <2>3
  <2>4. ASSUME NEW h \in Handlers, startChat(h) \/ sendUserMessage(h)
        PROVE  FALSE
    BY <1>1, <2>4 DEF startChat, sendUserMessage, openSession, sendToAgent,
                      sessions
  <2>5. QED
    BY <1>1, <2>1, <2>2, <2>3, <2>4
       DEF Next, Client, Agent, Database, Resume, handleConnection,
           onStartChatNew, onStartChat, onSendMessage, handleAgentMessage,
           AgentGivesUp, Query, QueryFails, sessions, vars
<1>2. ASSUME TypeInv, BindingsAgree, LastWordOrder, [Next]_vars
      PROVE  [\A c \in activeSessions \ activeSessions' : Reason(c)]_vars
  BY <1>1, <1>2
<1>3. QED
  BY <1>2, TypeInvAlways, BindingsAgreeAlways, LastWordOrderAlways, PTL
     DEF Spec, SessionEndsForAReason
-----------------------------------------------------------------------------
(* Sessions belong to conversations that exist, and what clients and agent *)
(* have seen is stored, whatever fails and whenever the process dies.      *)

\* What a query reads is what the database holds when it is executed.
LEMMA QueryReads ==
  ASSUME TypeInv, NEW h \in Handlers, Query(h)
  PROVE  /\ \/ /\ handler'[h].found = handler[h].found
               /\ handler[h].conv # None
            \/ status'[handler'[h].conv] = handler'[h].found
         /\ handler[h].awaits = "findByIdWithMessages" =>
              handler'[h].history = Len(messages'[handler'[h].conv])
<1> DEFINE t == handler[h]
           Answers(u) == handler' = [handler EXCEPT ![h] = [u EXCEPT !.query = "ok"]]
<1>1. t \in Handler /\ handler \in [Handlers -> Handler \cup {None}]
  BY QueryEffect DEF TypeInv, TypeOK
<1>2. t.conv = None => t.awaits = "createConversation"
  BY QueryEffect
<1>3. CASE t.awaits = "createConversation"
  <2>1. PICK c \in Convs :
          /\ status' = [status EXCEPT ![c] = "active"]
          /\ Answers([t EXCEPT !.conv = c, !.found = "active"])
    BY <1>3 DEF Query
  <2> DEFINE u == [t EXCEPT !.conv = c, !.found = "active", !.query = "ok"]
  <2>2. handler'[h] = u /\ u.conv = c /\ u.found = "active"
    BY <1>1, <2>1 DEF Handler
  <2>3. status'[c] = "active"
    BY <2>1 DEF TypeInv, TypeOK
  <2>4. QED
    BY <1>3, <2>2, <2>3
<1>4. CASE t.awaits = "findById"
  <2>1. handler'[h].found = status[t.conv] /\ handler'[h].conv = t.conv
    BY <1>1, <1>4 DEF Query, Handler
  <2>2. status' = status
    BY <1>4 DEF Query, database
  <2>3. QED
    BY <1>4, <2>1, <2>2
<1>5. CASE t.awaits = "findByIdWithMessages"
  <2>1. /\ handler'[h].found = t.found
        /\ handler'[h].conv = t.conv
        /\ handler'[h].history = Len(messages[t.conv])
    BY <1>1, <1>5 DEF Query, Handler
  <2>2. messages' = messages
    BY <1>5 DEF Query, database
  <2>3. QED
    BY <1>2, <1>5, <2>1, <2>2
<1>6. CASE t.awaits \in {"createMessage", "updateStatus"}
  <2>1. Answers(t)
    BY <1>6 DEF Query
  <2>2. handler'[h].found = t.found
    BY <1>1, <2>1 DEF Handler
  <2>3. QED
    BY <1>2, <1>6, <2>2
<1>7. QED
  BY <1>1, <1>3, <1>4, <1>5, <1>6 DEF Handler, Calls

\* Every handler that is there after a step was there before, has just
\* started, or is the one whose query was executed or that went on.
LEMMA HandlerSteps ==
  ASSUME TypeInv, [Next]_vars, NEW g \in Handlers, handler'[g] \in Handler
  PROVE  \/ handler'[g] = handler[g]
         \/ JustStarted(handler'[g])
         \/ Query(g)
         \/ Resume(g) /\ \E call \in Calls \ {"createConversation", "findById"} :
                           Call(g, call)
<1> USE AbsentAssumption
<1>1. ASSUME NEW s \in Clients, Client(s), handler'[g] # handler[g]
      PROVE  JustStarted(handler'[g])
  BY <1>1, ClientStarts
<1>2. ASSUME NEW c \in Convs, Agent(c), handler'[g] # handler[g]
      PROVE  JustStarted(handler'[g])
  BY <1>2, AgentStarts
<1>3. ASSUME NEW h \in Handlers, Query(h)
      PROVE  h = g \/ handler'[g] = handler[g]
  BY <1>3, QueryEffect
<1>4. ASSUME NEW h \in Handlers, QueryFails(h)
      PROVE  handler'[g] = handler[g]
  BY <1>4, FinishEffect DEF QueryFails
<1>5. ASSUME NEW h \in Handlers, Resume(h)
      PROVE  \/ handler'[g] = handler[g]
             \/ /\ h = g
                /\ \E call \in Calls \ {"createConversation", "findById"} :
                     Call(g, call)
  <2>1. \/ Finish(h)
        \/ \E call \in Calls \ {"createConversation", "findById"} : Call(h, call)
    BY <1>5 DEF Resume, startChat, sendUserMessage, processAgentMessage, Calls
  <2>2. handler[h] # None
    BY <1>5 DEF Resume, startChat, sendUserMessage, processAgentMessage
  <2>3. QED
    BY <2>1, <2>2, FinishEffect, CallEffect
<1>6. ~Crash
  BY DEF Crash
<1>7. QED
  BY <1>1, <1>2, <1>3, <1>4, <1>5, <1>6 DEF Next, Database, vars
-----------------------------------------------------------------------------
(* Sessions and messages belong to conversations that exist. *)

Exists(c) == c \in Convs /\ status[c] # "absent"

\* A handler that has found its conversation, or has gone past the question,
\* works on one that exists.
WorksOnExisting(t) ==
  /\ t.found # "absent" => Exists(t.conv)
  /\ t.awaits \in Calls \ {"createConversation", "findById"} => Exists(t.conv)

\* Sessions, and messages, belong to conversations that exist.
OnlyExisting ==
  \A c \in Convs : status[c] = "absent" =>
    c \notin activeSessions /\ agent[c] = None /\ messages[c] = << >>

ExistingInv ==
  /\ \A h \in Handlers : \A t \in Handler :
       handler[h] = t => WorksOnExisting(t)
  /\ OnlyExisting

\* What a handler that goes on does to the sessions, and for which conversation.
LEMMA ResumedSessions ==
  ASSUME TypeInv, NEW h \in Handlers, Resume(h)
  PROVE  \/ UNCHANGED sessions
         \/ /\ handler[h].found # "absent"
            /\ openSession(handler[h].conv, handler[h].client)
         \/ closeSession(handler[h].conv)
         \/ \E p \in Payload : sendToAgent(handler[h].conv, p)
<1>1. handler[h] # None /\ handler[h].query = "ok"
  BY DEF Resume, startChat, sendUserMessage, processAgentMessage
<1>2. /\ [type |-> "init", n |-> handler[h].history] \in Payload
      /\ [type |-> "message", n |-> handler[h].message.id] \in Payload
  BY <1>1, Resumed DEF Payload
<1>3. QED
  BY <1>2 DEF Resume, startChat, sendUserMessage, processAgentMessage

LEMMA HandlersStayExisting ==
  ASSUME TypeInv, ExistingInv, [Next]_vars,
         NEW g \in Handlers, NEW t \in Handler, handler'[g] = t
  PROVE  WorksOnExisting(t)'
<1>1. ASSUME Exists(t.conv) PROVE Exists(t.conv)'
  BY <1>1, StatusSteps DEF Exists
<1>2. CASE handler'[g] = handler[g]
  BY <1>1, <1>2 DEF ExistingInv, WorksOnExisting
<1>3. CASE JustStarted(t)
  <2>1. t.found = "absent"
    BY <1>3 DEF JustStarted
  <2>2. t.awaits \in Calls \ {"createConversation", "findById"}
          => Exists(t.conv)
    BY <1>3 DEF JustStarted, ExistingInv, OnlyExisting, Exists
  <2>3. QED
    BY <1>1, <2>1, <2>2 DEF WorksOnExisting
<1>4. CASE Query(g)
  <2>1. PICK v \in Handler : v = handler[g]
    BY <1>4, QueryEffect
  <2>2. WorksOnExisting(v)
    BY <2>1 DEF ExistingInv
  <2>3. /\ t.awaits = v.awaits
        /\ t.conv \in Convs
        /\ v.conv # None => t.conv = v.conv
        /\ v.conv = None => v.awaits = "createConversation"
    BY <1>4, <2>1, QueryEffect
  <2>4. t.found # "absent" => Exists(t.conv)'
    <3>1. CASE t.found = v.found /\ v.conv # None
      BY <1>1, <2>2, <2>3, <3>1 DEF WorksOnExisting
    <3>2. CASE status'[t.conv] = t.found
      BY <2>3, <3>2 DEF Exists
    <3>3. QED
      BY <1>4, <2>1, <3>1, <3>2, QueryReads
  <2>5. t.awaits \in Calls \ {"createConversation", "findById"}
          => Exists(t.conv)'
    BY <1>1, <2>2, <2>3 DEF WorksOnExisting
  <2>6. QED
    BY <2>4, <2>5 DEF WorksOnExisting
<1>5. CASE Resume(g) /\ \E call \in Calls \ {"createConversation", "findById"} :
                          Call(g, call)
  <2>1. handler[g] # None /\ handler[g].query = "ok"
    BY <1>5 DEF Resume, startChat, sendUserMessage, processAgentMessage
  <2>2. PICK v \in Handler : v = handler[g]
    BY <2>1, Resumed
  <2>3. t.conv = v.conv /\ t.found = "absent"
    BY <1>5, <2>1, <2>2, CallEffect
  <2>4. WorksOnExisting(v)
    BY <2>2 DEF ExistingInv
  <2>5. v.found # "absent"
          \/ v.awaits \in Calls \ {"createConversation", "findById"}
    BY <1>5, <2>2, FinishEffect, AbsentAssumption
       DEF Resume, startChat, sendUserMessage, processAgentMessage, Calls
  <2>6. QED
    BY <1>1, <2>3, <2>4, <2>5 DEF WorksOnExisting
<1>6. QED
  BY <1>2, <1>3, <1>4, <1>5, HandlerSteps

\* A step that opens, closes or writes to the session of one conversation
\* leaves the others alone.
LEMMA OtherSessions ==
  ASSUME TypeInv, NEW d \in Convs, NEW c \in Convs, c # d,
         \/ \E s \in Clients : openSession(d, s)
         \/ closeSession(d)
         \/ \E p \in Payload : sendToAgent(d, p)
  PROVE  /\ agent'[c] = agent[c]
         /\ c \in activeSessions' => c \in activeSessions
<1>1. CASE \E s \in Clients : openSession(d, s)
  <2>1. /\ activeSessions' = activeSessions \cup {d}
        /\ agent' = agent \/ \E a \in AgentSession : agent' = [agent EXCEPT ![d] = a]
    BY <1>1, OpenSessionType DEF openSession, TypeInv
  <2>2. QED
    BY <2>1 DEF TypeInv, TypeOK
<1>2. CASE closeSession(d)
  BY <1>2 DEF closeSession, TypeInv, TypeOK
<1>3. CASE \E p \in Payload : sendToAgent(d, p)
  <2>1. /\ activeSessions' = activeSessions
        /\ agent' = agent \/ \E a \in AgentSession : agent' = [agent EXCEPT ![d] = a]
    BY <1>3, SendToAgentType DEF sendToAgent, TypeInv
  <2>2. QED
    BY <2>1 DEF TypeInv, TypeOK
<1>4. QED
  BY <1>1, <1>2, <1>3

\* A session that is there after a step was there before, or its conversation
\* exists.
LEMMA SessionsOfExisting ==
  ASSUME TypeInv, ExistingInv, [Next]_vars, NEW c \in Convs
  PROVE  /\ agent'[c] # None => agent[c] # None \/ Exists(c)
         /\ c \in activeSessions' => c \in activeSessions \/ Exists(c)
<1>1. CASE UNCHANGED sessions
  BY <1>1 DEF sessions
<1>2. CASE \E d \in Convs : closeSession(d)
  BY <1>2 DEF closeSession, TypeInv, TypeOK
<1>3. ASSUME NEW s \in Clients, Client(s)
      PROVE  UNCHANGED sessions \/ \E d \in Convs : closeSession(d)
  <2>1. CASE handleDisconnect(s)
    BY <2>1 DEF handleDisconnect, TypeInv, TypeOK
  <2>2. QED
    BY <1>3, <2>1 DEF Client, handleConnection, onStartChatNew, onStartChat,
                      onSendMessage
<1>4. ASSUME NEW d \in Convs, Agent(d)
      PROVE  /\ activeSessions' = activeSessions
             /\ agent'[c] # None => agent[c] # None
  BY <1>4 DEF Agent, AgentGivesUp, handleAgentMessage, sessions, TypeInv, TypeOK
<1>5. ASSUME NEW h \in Handlers, Resume(h)
      PROVE  /\ agent'[c] # None => agent[c] # None \/ Exists(c)
             /\ c \in activeSessions' => c \in activeSessions \/ Exists(c)
  <2> DEFINE d == handler[h].conv
             s == handler[h].client
  <2>1. /\ handler[h] \in Handler /\ d \in Convs /\ s \in Clients
    BY <1>5, Resumed DEF Resume, startChat, sendUserMessage, processAgentMessage
  <2>2. CASE handler[h].found # "absent" /\ openSession(d, s)
    <3>1. Exists(d)
      BY <2>1, <2>2 DEF ExistingInv, WorksOnExisting
    <3>2. QED
      BY <2>1, <2>2, <3>1, OtherSessions
  <2>3. CASE \E p \in Payload : sendToAgent(d, p)
    <3>1. CASE agent[d] = None
      BY <2>3, <3>1 DEF sendToAgent
    <3>2. CASE agent[d] # None
      BY <2>1, <2>3, <3>2, OtherSessions DEF sendToAgent
    <3>3. QED
      BY <3>1, <3>2
  <2>4. QED
    BY <1>1, <1>2, <1>5, <2>1, <2>2, <2>3, ResumedSessions
<1>6. CASE Crash
  BY <1>6 DEF Crash
<1>7. QED
  BY <1>1, <1>2, <1>3, <1>4, <1>5, <1>6
     DEF Next, Database, Query, QueryFails, sessions, vars

\* Messages are stored only in conversations that exist.
LEMMA MessagesOfExisting ==
  ASSUME TypeInv, ExistingInv, [Next]_vars, NEW c \in Convs
  PROVE  messages'[c] = messages[c] \/ Exists(c)
<1>1. ASSUME NEW h \in Handlers, Query(h)
      PROVE  messages'[c] = messages[c] \/ Exists(c)
  <2>1. PICK v \in Handler : v = handler[h]
    BY <1>1, QueryEffect
  <2>2. CASE v.awaits = "createMessage"
    <3>1. Exists(v.conv)
      BY <2>1, <2>2 DEF ExistingInv, WorksOnExisting, Calls
    <3>2. messages' = [messages EXCEPT ![v.conv] = Append(@, v.message)]
      BY <1>1, <2>1, <2>2 DEF Query
    <3>3. QED
      BY <3>1, <3>2 DEF TypeInv, TypeOK
  <2>3. CASE v.awaits # "createMessage"
    <3>1. messages' = messages
      BY <1>1, <2>1, <2>3 DEF Query, database
    <3>2. QED
      BY <3>1
  <2>4. QED
    BY <2>2, <2>3
<1>2. UNCHANGED messages \/ \E h \in Handlers : Query(h)
  BY DEF Next, Client, Agent, Database, Resume, handleConnection,
         handleDisconnect, onStartChatNew, onStartChat, onSendMessage,
         handleAgentMessage, AgentGivesUp, QueryFails, startChat,
         sendUserMessage, processAgentMessage, Crash, database, vars
<1>3. QED
  BY <1>1, <1>2

LEMMA ExistingInvAlways == Spec => []ExistingInv
<1>1. Init => ExistingInv
  BY AbsentAssumption DEF Init, ExistingInv, OnlyExisting
<1>2. ASSUME TypeInv, ExistingInv, [Next]_vars PROVE ExistingInv'
  <2>1. ASSUME NEW h \in Handlers, NEW t \in Handler, handler'[h] = t
        PROVE  WorksOnExisting(t)'
    BY <1>2, <2>1, HandlersStayExisting
  <2>2. ASSUME NEW c \in Convs, status'[c] = "absent"
        PROVE  c \notin activeSessions' /\ agent'[c] = None /\ messages'[c] = << >>
    <3>1. status[c] = "absent"
      BY <1>2, <2>2, StatusSteps
    <3>2. /\ c \notin activeSessions /\ agent[c] = None /\ messages[c] = << >>
          /\ ~Exists(c)
      BY <1>2, <3>1 DEF ExistingInv, OnlyExisting, Exists
    <3>3. QED
      BY <1>2, <3>2, SessionsOfExisting, MessagesOfExisting
  <2>3. QED
    BY <2>1, <2>2 DEF ExistingInv, OnlyExisting
<1>3. QED
  BY <1>1, <1>2, TypeInvAlways, PTL DEF Spec

\* No session is open for, and no message stored in, a conversation that was
\* never created.
THEOREM OnlyExistingAlways == Spec => []OnlyExisting
BY ExistingInvAlways, PTL DEF ExistingInv
-----------------------------------------------------------------------------
(* What clients and agent have seen is stored. *)

\* The answer of an insert means that the message is stored, the answer of a
\* read that the history has no more messages than there are.
AnswerHolds(t) ==
  t.query = "ok" =>
    /\ t.awaits = "createMessage" => t.conv \in Convs /\ Stored(t)
    /\ t.awaits = "findByIdWithMessages" =>
         t.conv \in Convs /\ t.history <= Len(messages[t.conv])

SavedInv ==
  /\ \A h \in Handlers : \A t \in Handler : handler[h] = t => AnswerHolds(t)
  /\ NothingUnsaved

LEMMA AnswersHold ==
  ASSUME TypeInv, SavedInv, [Next]_vars,
         NEW g \in Handlers, NEW t \in Handler, handler'[g] = t
  PROVE  AnswerHolds(t)'
<1>1. CASE handler'[g] = handler[g]
  <2>1. AnswerHolds(t)
    BY <1>1 DEF SavedInv
  <2>2. t.history \in Nat
    BY DEF Handler
  <2>3. ASSUME t.conv \in Convs, Stored(t) PROVE Stored(t)'
    BY <2>3, MessagesGrow DEF Stored
  <2>4. ASSUME t.conv \in Convs, t.history <= Len(messages[t.conv])
        PROVE  t.history <= Len(messages'[t.conv])
    BY <2>2, <2>4, MessagesGrow
  <2>5. QED
    BY <2>1, <2>3, <2>4 DEF AnswerHolds
<1>2. CASE JustStarted(t)
  BY <1>2 DEF JustStarted, AnswerHolds
<1>3. CASE Query(g)
  <2>1. PICK v \in Handler : v = handler[g]
    BY <1>3, QueryEffect
  <2>2. /\ t.awaits = v.awaits /\ t.message = v.message
        /\ t.conv \in Convs
        /\ v.conv # None => t.conv = v.conv
        /\ v.conv = None => v.awaits = "createConversation"
    BY <1>3, <2>1, QueryEffect
  <2>3. t.awaits = "createMessage" => Stored(t)'
    BY <1>3, <2>1, <2>2, QueryStores DEF Stored
  <2>4. t.awaits = "findByIdWithMessages"
          => t.history <= Len(messages'[t.conv])
    <3>1. t.awaits = "findByIdWithMessages"
            => t.history = Len(messages'[t.conv])
      BY <1>3, <2>1, <2>2, QueryReads
    <3>2. Len(messages'[t.conv]) \in Nat
      BY <2>2, MessagesGrow
    <3>3. QED
      BY <3>1, <3>2
  <2>5. QED
    BY <2>2, <2>3, <2>4 DEF AnswerHolds
<1>4. CASE \E call \in Calls : Call(g, call) /\ Resume(g)
  <2>1. handler[g] # None
    BY <1>4 DEF Resume, startChat, sendUserMessage, processAgentMessage
  <2>2. t.query = "issued"
    BY <1>4, <2>1, CallEffect
  <2>3. QED
    BY <2>2 DEF AnswerHolds
<1>5. QED
  BY <1>1, <1>2, <1>3, <1>4, HandlerSteps

\* What the agent has received of a session goes no further than the database.
Covered(c, p) == IF p.type = "init" THEN p.n <= Len(messages[c])
                                    ELSE p.n \in Ids(c)

LEMMA CoveredStays ==
  ASSUME TypeInv, [Next]_vars, NEW c \in Convs
  PROVE  /\ \A n \in Ids(c) : n \in Ids(c)'
         /\ \A p \in Payload : Covered(c, p) => Covered(c, p)'
<1>1. \A n \in Ids(c) : n \in Ids(c)'
  BY MessagesGrow DEF Ids
<1>2. ASSUME NEW p \in Payload, Covered(c, p) PROVE Covered(c, p)'
  <2>1. p.n \in Nat
    BY DEF Payload
  <2>2. QED
    BY <1>1, <1>2, <2>1, MessagesGrow DEF Covered
<1>3. QED
  BY <1>1, <1>2

\* A new session has received nothing, and one that goes on no more than before.
LEMMA OpenSessionReceives ==
  ASSUME TypeOK, NEW s \in Clients, NEW c \in Convs, openSession(c, s),
         NEW d \in Convs, agent'[d] # None, NEW p \in agent'[d].received
  PROVE  agent[d] # None /\ p \in agent[d].received
<1> DEFINE session == IF agent[c] = None
                        THEN [subscribers |-> << >>, opening |-> "nothing",
                              received |-> {}]
                        ELSE agent[c]
           subscribed == [session EXCEPT !.subscribers = Append(@, s)]
<1>1. CASE agent' = agent
  BY <1>1
<1>2. CASE agent' = [agent EXCEPT ![c] = subscribed] /\ d = c
  <2>1. agent'[d] = subscribed
    BY <1>2 DEF TypeOK
  <2>2. agent[c] # None => agent[c] \in AgentSession
    BY DEF TypeOK
  <2>3. subscribed.received = session.received
    BY <2>2 DEF AgentSession
  <2>4. p \in session.received
    BY <2>1, <2>3
  <2>5. QED
    BY <1>2, <2>4
<1>3. CASE agent' = [agent EXCEPT ![c] = subscribed] /\ d # c
  BY <1>3 DEF TypeOK
<1>4. QED
  BY <1>1, <1>2, <1>3 DEF openSession

LEMMA SendToAgentReceives ==
  ASSUME TypeOK, NEW c \in Convs, NEW q \in Payload, sendToAgent(c, q),
         NEW d \in Convs, agent'[d] # None, NEW p \in agent'[d].received
  PROVE  \/ agent[d] # None /\ p \in agent[d].received
         \/ d = c /\ p = q
<1>1. CASE agent[c] = None \/ d # c
  BY <1>1 DEF sendToAgent, TypeOK
<1>2. CASE agent[c] # None /\ d = c
  <2>1. agent[c] \in AgentSession
    BY <1>2 DEF TypeOK
  <2>2. agent'[c].received = agent[c].received \cup {q}
    BY <1>2, <2>1 DEF sendToAgent, TypeOK, AgentSession
  <2>3. QED
    BY <1>2, <2>2
<1>3. QED
  BY <1>1, <1>2

\* A handler sends only what the database holds.
LEMMA SendsCovered ==
  ASSUME TypeInv, SavedInv, NEW h \in Handlers, Resume(h)
  PROVE  \/ UNCHANGED sessions
         \/ /\ handler[h].found # "absent"
            /\ openSession(handler[h].conv, handler[h].client)
         \/ closeSession(handler[h].conv)
         \/ \E p \in Payload : /\ sendToAgent(handler[h].conv, p)
                               /\ Covered(handler[h].conv, p)
<1>1. handler[h] # None /\ handler[h].query = "ok"
  BY DEF Resume, startChat, sendUserMessage, processAgentMessage
<1>2. PICK t \in Handler : t = handler[h]
  BY <1>1, Resumed
<1>3. t.history \in Nat /\ t.message.id \in Nat
  BY <1>1, <1>2, Resumed
<1>4. AnswerHolds(t)
  BY <1>2 DEF SavedInv
<1> DEFINE init == [type |-> "init", n |-> t.history]
           message == [type |-> "message", n |-> t.message.id]
<1>5. init \in Payload /\ message \in Payload
  BY <1>3 DEF Payload
<1>6. t.awaits = "findByIdWithMessages" => Covered(t.conv, init)
  BY <1>1, <1>2, <1>4 DEF AnswerHolds, Covered
<1>7. t.awaits = "createMessage" => Covered(t.conv, message)
  BY <1>1, <1>2, <1>4 DEF AnswerHolds, Covered, Stored, Ids
<1>8. \/ UNCHANGED sessions
      \/ t.found # "absent" /\ openSession(t.conv, t.client)
      \/ closeSession(t.conv)
      \/ t.awaits = "findByIdWithMessages" /\ sendToAgent(t.conv, init)
      \/ t.awaits = "createMessage" /\ sendToAgent(t.conv, message)
  BY <1>2 DEF Resume, startChat, sendUserMessage, processAgentMessage
<1>9. QED
  BY <1>2, <1>5, <1>6, <1>7, <1>8

LEMMA ReceivedCovered ==
  ASSUME TypeInv, SavedInv, [Next]_vars, NEW c \in Convs, agent'[c] # None,
         NEW p \in agent'[c].received
  PROVE  Covered(c, p)'
<1>0. ASSUME agent[c] # None, p \in agent[c].received PROVE Covered(c, p)'
  <2>1. p \in Payload
    BY <1>0 DEF TypeInv, TypeOK, AgentSession
  <2>2. Covered(c, p)
    BY <1>0 DEF SavedInv, NothingUnsaved, Covered
  <2>3. QED
    BY <2>1, <2>2, CoveredStays
<1>1. CASE agent' = agent
  BY <1>0, <1>1
<1>2. CASE \E d \in Convs : agent' = [agent EXCEPT ![d] = None]
  BY <1>0, <1>2 DEF TypeInv, TypeOK
<1>3. ASSUME NEW d \in Convs, closeSession(d)
      PROVE  agent' = agent \/ agent' = [agent EXCEPT ![d] = None]
  BY <1>3 DEF closeSession
<1>4. ASSUME NEW s \in Clients, Client(s)
      PROVE  agent' = agent \/ \E d \in Convs : agent' = [agent EXCEPT ![d] = None]
  <2>1. CASE handleDisconnect(s)
    BY <1>3, <2>1 DEF handleDisconnect, sessions, TypeInv, TypeOK
  <2>2. QED
    BY <1>4, <2>1 DEF Client, handleConnection, onStartChatNew, onStartChat,
                      onSendMessage, sessions
<1>5. ASSUME NEW d \in Convs, Agent(d)
      PROVE  agent' = agent \/ agent' = [agent EXCEPT ![d] = None]
  BY <1>5 DEF Agent, AgentGivesUp, handleAgentMessage, sessions
<1>6. ASSUME NEW h \in Handlers, Resume(h) PROVE Covered(c, p)'
  <2> DEFINE d == handler[h].conv
  <2>1. d \in Convs /\ handler[h].client \in Clients
    BY <1>6, Resumed DEF Resume, startChat, sendUserMessage, processAgentMessage
  <2>2. CASE openSession(d, handler[h].client)
    BY <1>0, <2>1, <2>2, OpenSessionReceives DEF TypeInv
  <2>3. ASSUME NEW q \in Payload, sendToAgent(d, q), Covered(d, q)
        PROVE  Covered(c, p)'
    <3>1. CASE agent[c] # None /\ p \in agent[c].received
      BY <1>0, <3>1
    <3>2. CASE c = d /\ p = q
      BY <2>3, <3>2, CoveredStays
    <3>3. QED
      BY <2>1, <2>3, <3>1, <3>2, SendToAgentReceives DEF TypeInv
  <2>4. QED
    BY <1>1, <1>2, <1>3, <1>6, <2>1, <2>2, <2>3, SendsCovered DEF sessions
<1>7. CASE Crash
  BY <1>7 DEF Crash
<1>8. QED
  BY <1>1, <1>2, <1>4, <1>5, <1>6, <1>7
     DEF Next, Database, Query, QueryFails, sessions, vars

LEMMA ShownStored ==
  ASSUME TypeInv, SavedInv, [Next]_vars, NEW n \in shown'
  PROVE  \E c \in Convs : n \in Ids(c)'
<1>1. CASE n \in shown
  BY <1>1, CoveredStays DEF SavedInv, NothingUnsaved
<1>2. ASSUME NEW h \in Handlers, processAgentMessage(h), n \notin shown
      PROVE  \E c \in Convs : n \in Ids(c)'
  <2>1. PICK t \in Handler : t = handler[h]
    BY <1>2, Resumed DEF processAgentMessage
  <2>2. t.awaits = "createMessage" /\ t.query = "ok" /\ n = t.message.id
    BY <1>2, <2>1 DEF processAgentMessage
  <2>3. t.conv \in Convs /\ Stored(t)
    BY <2>1, <2>2 DEF SavedInv, AnswerHolds
  <2>4. n \in Ids(t.conv)
    BY <2>2, <2>3 DEF Stored, Ids
  <2>5. QED
    BY <2>3, <2>4, CoveredStays
<1>3. shown' = shown \/ \E h \in Handlers : processAgentMessage(h)
  BY DEF Next, Client, Agent, Database, Resume, handleConnection,
         handleDisconnect, onStartChatNew, onStartChat, onSendMessage,
         handleAgentMessage, AgentGivesUp, Query, QueryFails, startChat,
         sendUserMessage, Crash, vars
<1>4. QED
  BY <1>1, <1>2, <1>3

LEMMA SavedInvAlways == Spec => []SavedInv
<1>1. Init => SavedInv
  BY AbsentAssumption DEF Init, SavedInv, NothingUnsaved
<1>2. ASSUME TypeInv, SavedInv, [Next]_vars PROVE SavedInv'
  <2>1. \A h \in Handlers : \A t \in Handler :
          handler'[h] = t => AnswerHolds(t)'
    BY <1>2, AnswersHold
  <2>2. \A n \in shown' : \E c \in Convs : n \in Ids(c)'
    BY <1>2, ShownStored
  <2>3. \A c \in Convs : agent'[c] # None =>
          \A p \in agent'[c].received : Covered(c, p)'
    BY <1>2, ReceivedCovered
  <2>4. NothingUnsaved'
    BY <2>2, <2>3 DEF NothingUnsaved, Covered
  <2>5. QED
    BY <2>1, <2>4 DEF SavedInv
<1>3. QED
  BY <1>1, <1>2, TypeInvAlways, PTL DEF Spec

\* Neither a client nor the agent has seen a message that the database does
\* not hold.
THEOREM NothingUnsavedAlways == Spec => []NothingUnsaved
BY SavedInvAlways, PTL DEF SavedInv
-----------------------------------------------------------------------------
(* The chat implements its log: every step of a handler, of a client, of   *)
(* the agent and of the database is one step of ChatLog, or none.          *)

LEMMA OpenSessionInLog ==
  ASSUME TypeInv, NEW c \in Convs, NEW s \in Clients, openSession(c, s)
  PROVE  /\ Attended' = Attended \/ Attended' = Attended \cup {c}
         /\ Told' = Told
<1> USE DEF Attended, Told
<1> DEFINE session == IF agent[c] = None
                        THEN [subscribers |-> << >>, opening |-> "nothing",
                              received |-> {}]
                        ELSE agent[c]
           subscribed == [session EXCEPT !.subscribers = Append(@, s)]
<1>1. agent \in [Convs -> AgentSession \cup {None}]
  BY DEF TypeInv, TypeOK
<1>2. CASE agent' = agent
  BY <1>2
<1>3. CASE /\ ~(c \in activeSessions /\ agent[c] = None)
           /\ agent' = [agent EXCEPT ![c] = subscribed]
  <2>1. subscribed.received = IF agent[c] = None THEN {} ELSE agent[c].received
    BY <1>1 DEF AgentSession
  <2> HIDE DEF subscribed
  <2>2. agent'[c] = subscribed /\ \A d \in Convs \ {c} : agent'[d] = agent[d]
    BY <1>1, <1>3
  <2>3. subscribed # None
    <3>1. PICK a \in AgentSession : agent' = [agent EXCEPT ![c] = a]
      BY <1>3, OpenSessionType DEF TypeInv
    <3>2. QED
      BY <1>1, <2>2, <3>1, AbsentAssumption
  <2>4. Attended' = Attended \cup {c}
    BY <2>2, <2>3
  <2>5. ASSUME NEW d \in Convs
        PROVE  (IF agent'[d] = None THEN {} ELSE agent'[d].received)
                 = IF agent[d] = None THEN {} ELSE agent[d].received
    BY <2>1, <2>2, <2>3
  <2>6. QED
    BY <2>4, <2>5
<1>4. QED
  BY <1>2, <1>3 DEF openSession

LEMMA SendToAgentInLog ==
  ASSUME TypeInv, NEW c \in Convs, NEW p \in Payload, sendToAgent(c, p)
  PROVE  /\ Attended' = Attended
         /\ \/ Told' = Told
            \/ c \in Attended /\ Told' = [Told EXCEPT ![c] = @ \cup {p}]
<1> USE DEF Attended, Told
<1>1. agent \in [Convs -> AgentSession \cup {None}]
  BY DEF TypeInv, TypeOK
<1>2. CASE agent[c] = None
  BY <1>2 DEF sendToAgent
<1>3. CASE agent[c] # None
  <2>1. PICK a : /\ agent' = [agent EXCEPT ![c] = a]
                 /\ a = [agent[c] EXCEPT
                            !.received = @ \cup {p},
                            !.opening = IF @ = "nothing" THEN p.type ELSE @]
    BY <1>3 DEF sendToAgent
  <2>2. agent[c] \in AgentSession
    BY <1>1, <1>3
  <2>3. a.received = agent[c].received \cup {p}
    BY <2>1, <2>2 DEF AgentSession
  <2>4. a # None
    <3>1. a \in AgentSession
      BY <2>1, <2>2 DEF AgentSession, Payload
    <3>2. QED
      BY <3>1, AbsentAssumption
  <2>5. agent'[c] = a /\ \A d \in Convs \ {c} : agent'[d] = agent[d]
    BY <1>1, <2>1
  <2>6. Attended' = Attended
    BY <1>3, <2>4, <2>5
  <2>7. Told' = [Told EXCEPT ![c] = @ \cup {p}]
    BY <1>3, <2>3, <2>4, <2>5
  <2>8. QED
    BY <1>3, <2>6, <2>7
<1>4. QED
  BY <1>2, <1>3

\* Sessions that end are left, whichever and however many they are.
LEMMA EndsInLog ==
  ASSUME \A c \in Convs : agent'[c] = None \/ agent'[c] = agent[c],
         UNCHANGED <<database, shown>>
  PROVE  Log!Leave
<1>1. Attended' \subseteq Attended
  BY DEF Attended
<1>2. Told' = [c \in Convs |-> IF c \in Attended' THEN Told[c] ELSE {}]
  BY DEF Attended, Told
<1>3. QED
  BY <1>1, <1>2 DEF Log!Leave, database

LEMMA ClosesInLog ==
  ASSUME TypeInv, NEW c, closeSession(c), UNCHANGED <<database, shown>>
  PROVE  Log!Leave
<1>1. \A d \in Convs : agent'[d] = None \/ agent'[d] = agent[d]
  BY DEF closeSession, TypeInv, TypeOK
<1>2. QED
  BY <1>1, EndsInLog

\* What the database executes.
LEMMA QueryInLog ==
  ASSUME TypeInv, LastWordOrder, ExistingInv, NEW h \in Handlers, Query(h)
  PROVE  Log!Next \/ UNCHANGED Log!logVars
<1>1. PICK t \in Handler : t = handler[h]
  BY QueryEffect
<1>2. Attended' = Attended /\ Told' = Told /\ shown' = shown
  BY DEF Query, sessions, Attended, Told
<1>3. CASE t.awaits = "createConversation"
  <2>1. PICK c \in Convs : /\ status[c] = "absent"
                           /\ status' = [status EXCEPT ![c] = "active"]
                           /\ messages' = messages
    BY <1>1, <1>3 DEF Query
  <2>2. Log!Create(c)
    BY <1>2, <2>1 DEF Log!Create
  <2>3. QED
    BY <2>2 DEF Log!Next
<1>4. CASE t.awaits \in {"findById", "findByIdWithMessages"}
  <2>1. UNCHANGED database
    BY <1>1, <1>4 DEF Query
  <2>2. QED
    BY <1>2, <2>1 DEF Log!logVars, database
<1>5. CASE t.awaits = "createMessage"
  <2>1. t.conv \in Convs /\ status[t.conv] # "absent"
    BY <1>1, <1>5 DEF ExistingInv, WorksOnExisting, Exists, Calls
  <2>2. /\ messages' = [messages EXCEPT ![t.conv] = Append(@, t.message)]
        /\ status' = status
    BY <1>1, <1>5 DEF Query
  <2>3. PICK i \in DOMAIN messages'[t.conv] : messages'[t.conv][i] = t.message
    BY <1>1, <1>5, QueryStores
  <2>4. Log!Save(t.conv)
    BY <1>2, <2>1, <2>2, <2>3 DEF Log!Save
  <2>5. QED
    BY <2>1, <2>4 DEF Log!Next
<1>6. CASE t.awaits = "updateStatus"
  <2>1. t.conv \in Convs /\ t.message.isFinal /\ Stored(t)
    BY <1>1, <1>6 DEF LastWordOrder, StatusByAgent, AgentMessageOrder
  <2>2. \E m \in Log!Saved(t.conv) : m.isFinal
    BY <2>1 DEF Stored, Log!Saved
  <2>3. /\ status' = [status EXCEPT ![t.conv] = "completed"]
        /\ messages' = messages
    BY <1>1, <1>6 DEF Query
  <2>4. Log!Complete(t.conv)
    BY <1>2, <2>2, <2>3 DEF Log!Complete
  <2>5. QED
    BY <2>1, <2>4 DEF Log!Next
<1>7. QED
  BY <1>3, <1>4, <1>5, <1>6 DEF Handler, Calls

\* What a handler that goes on does to a session.
LEMMA SessionsInLog ==
  ASSUME TypeInv, ExistingInv, SavedInv, NEW h \in Handlers, Resume(h),
         UNCHANGED <<database, shown>>
  PROVE  Log!Next \/ UNCHANGED Log!logVars
<1>1. handler[h] # None /\ handler[h].query = "ok"
  BY DEF Resume, startChat, sendUserMessage, processAgentMessage
<1>2. PICK t \in Handler : t = handler[h]
  BY <1>1, Resumed
<1>3. t.conv \in Convs /\ t.client \in Clients
  BY <1>1, <1>2, Resumed
<1>4. CASE UNCHANGED sessions
  BY <1>4 DEF Log!logVars, Attended, Told, sessions, database
<1>5. CASE t.found # "absent" /\ openSession(t.conv, t.client)
  <2>1. status[t.conv] # "absent"
    BY <1>2, <1>5 DEF ExistingInv, WorksOnExisting, Exists
  <2>2. CASE Attended' = Attended /\ Told' = Told
    BY <2>2 DEF Log!logVars, database
  <2>3. CASE Attended' = Attended \cup {t.conv} /\ Told' = Told
    <3>1. Log!Attend(t.conv)
      BY <2>1, <2>3 DEF Log!Attend, database
    <3>2. QED
      BY <1>3, <3>1 DEF Log!Next
  <2>4. QED
    BY <1>3, <1>5, <2>2, <2>3, OpenSessionInLog
<1>6. CASE closeSession(t.conv)
  BY <1>6, ClosesInLog DEF Log!Next
<1>7. ASSUME NEW p \in Payload, sendToAgent(t.conv, p), Covered(t.conv, p)
      PROVE  Log!Next \/ UNCHANGED Log!logVars
  <2>1. CASE Attended' = Attended /\ Told' = Told
    BY <2>1 DEF Log!logVars, database
  <2>2. CASE /\ t.conv \in Attended
             /\ Attended' = Attended
             /\ Told' = [Told EXCEPT ![t.conv] = @ \cup {p}]
    <3>1. Log!InLog(t.conv, p)
      BY <1>7 DEF Covered, Ids, Log!InLog, Log!Numbers, Log!Saved
    <3>2. p \in Told'[t.conv]
      BY <1>3, <2>2 DEF Told
    <3>3. Log!Tell(t.conv)
      BY <2>2, <3>1, <3>2 DEF Log!Tell, database
    <3>4. QED
      BY <1>3, <3>3 DEF Log!Next
  <2>3. QED
    BY <1>3, <1>7, <2>1, <2>2, SendToAgentInLog
<1>8. QED
  BY <1>2, <1>4, <1>5, <1>6, <1>7, SendsCovered

LEMMA ResumeInLog ==
  ASSUME TypeInv, ExistingInv, SavedInv, NEW h \in Handlers, Resume(h)
  PROVE  Log!Next \/ UNCHANGED Log!logVars
<1>1. UNCHANGED database
  BY DEF Resume, startChat, sendUserMessage, processAgentMessage
<1>2. CASE shown' = shown
  BY <1>1, <1>2, SessionsInLog
<1>3. CASE processAgentMessage(h) /\ shown' # shown
  <2>1. PICK t \in Handler : t = handler[h]
    BY <1>3, Resumed DEF processAgentMessage
  <2>2. /\ t.awaits = "createMessage" /\ t.query = "ok"
        /\ shown' = shown \cup {t.message.id}
        /\ UNCHANGED sessions
    BY <1>3, <2>1 DEF processAgentMessage
  <2>3. t.conv \in Convs /\ Stored(t)
    BY <2>1, <2>2 DEF SavedInv, AnswerHolds
  <2>4. t.message.id \in Log!Numbers(t.conv)
    BY <2>3 DEF Stored, Log!Numbers, Log!Saved
  <2>5. Log!Show(t.conv)
    BY <1>1, <2>2, <2>4 DEF Log!Show, Attended, Told, sessions, database
  <2>6. QED
    BY <2>3, <2>5 DEF Log!Next
<1>4. QED
  BY <1>2, <1>3 DEF Resume, startChat, sendUserMessage

LEMMA LogStep ==
  ASSUME TypeInv, LastWordOrder, ExistingInv, SavedInv, [Next]_vars
  PROVE  [Log!Next]_Log!logVars
<1>1. CASE UNCHANGED <<agent, database, shown>>
  BY <1>1 DEF Log!logVars, Attended, Told, database
<1>2. ASSUME NEW s \in Clients, Client(s) PROVE [Log!Next]_Log!logVars
  <2>1. CASE handleDisconnect(s)
    BY <1>1, <2>1, ClosesInLog DEF handleDisconnect, Log!Next, sessions
  <2>2. QED
    BY <1>1, <1>2, <2>1 DEF Client, handleConnection, onStartChatNew,
                            onStartChat, onSendMessage, sessions
<1>3. ASSUME NEW c \in Convs, Agent(c) PROVE [Log!Next]_Log!logVars
  <2>1. CASE AgentGivesUp(c)
    <3>1. \A d \in Convs : agent'[d] = None \/ agent'[d] = agent[d]
      BY <2>1 DEF AgentGivesUp, TypeInv, TypeOK
    <3>2. QED
      BY <2>1, <3>1, EndsInLog DEF AgentGivesUp, Log!Next
  <2>2. QED
    BY <1>1, <1>3, <2>1 DEF Agent, handleAgentMessage, sessions
<1>4. ASSUME NEW h \in Handlers, Database(h) PROVE [Log!Next]_Log!logVars
  BY <1>1, <1>4, QueryInLog DEF Database, QueryFails, sessions
<1>5. CASE Crash
  BY <1>5, EndsInLog DEF Crash, Log!Next
<1>6. QED
  BY <1>1, <1>2, <1>3, <1>4, <1>5, ResumeInLog DEF Next, database, vars

\* The log comes first, whatever the interleaving of the handlers, the
\* failing queries and the crashes.
THEOREM ChatLogImplemented == Spec => ImplementsChatLog
<1>1. Init => Log!Init
  BY DEF Init, Log!Init, Attended, Told
<1>2. QED
  BY <1>1, LogStep, TypeInvAlways, LastWordOrderAlways, ExistingInvAlways,
     SavedInvAlways, PTL DEF Spec, ImplementsChatLog, Log!Spec
-----------------------------------------------------------------------------
(* What is saved twice, and what is not. *)

\* A message a handler is about to save: its insert has not been executed.
ToBeSaved(h) ==
  /\ handler[h] # None
  /\ handler[h].does # "start_chat"
  /\ handler[h].awaits # "updateStatus"
  /\ ~(handler[h].awaits = "createMessage" /\ handler[h].query = "ok")

\* Numbers are given once: a message that is to be saved, or saved, by a sender
\* in From is there once, in one handler or in one place of one conversation.
Once(From) ==
  /\ \A h \in Handlers : \A t \in Handler :
       handler[h] = t /\ t.awaits = "createMessage" => t.does # "start_chat"
  /\ \A c \in Convs : \A i \in DOMAIN messages[c] : messages[c][i].id <= lastMessage
  /\ \A h \in Handlers : ToBeSaved(h) => handler[h].message.id <= lastMessage
  /\ \A h \in Handlers : \A c \in Convs : \A i \in DOMAIN messages[c] :
       ToBeSaved(h) /\ messages[c][i].id = handler[h].message.id =>
         messages[c][i].from \notin From /\ handler[h].message.from \notin From
  /\ \A g, h \in Handlers :
       g # h /\ ToBeSaved(g) /\ ToBeSaved(h) /\ handler[g].message.id = handler[h].message.id =>
         handler[g].message.from \notin From
  /\ \A c, d \in Convs : \A i \in DOMAIN messages[c] : \A j \in DOMAIN messages[d] :
       messages[c][i].id = messages[d][j].id /\ messages[c][i].from \in From =>
         c = d /\ i = j

\* A step saves nothing, or one message at the end of its conversation.
LEMMA SavingSteps ==
  ASSUME TypeInv, [Next]_vars
  PROVE  \/ messages' = messages
         \/ /\ lastMessage' = lastMessage
            /\ \E k \in Handlers :
                 /\ Query(k)
                 /\ handler[k].awaits = "createMessage"
                 /\ \A c \in Convs : \A i \in DOMAIN messages'[c] :
                      \/ i \in DOMAIN messages[c] /\ messages'[c][i] = messages[c][i]
                      \/ /\ c = handler[k].conv
                         /\ i = Len(messages[c]) + 1
                         /\ messages'[c][i] = handler[k].message
<1>1. ASSUME NEW k \in Handlers, Query(k), handler[k].awaits # "createMessage"
      PROVE  messages' = messages
  BY <1>1 DEF Query, database
<1>2. ASSUME NEW k \in Handlers, Query(k), handler[k].awaits = "createMessage"
      PROVE  /\ lastMessage' = lastMessage
             /\ \A c \in Convs : \A i \in DOMAIN messages'[c] :
                  \/ i \in DOMAIN messages[c] /\ messages'[c][i] = messages[c][i]
                  \/ /\ c = handler[k].conv
                     /\ i = Len(messages[c]) + 1
                     /\ messages'[c][i] = handler[k].message
  <2>1. messages' = [messages EXCEPT ![handler[k].conv] =
                       Append(@, handler[k].message)]
    BY <1>2 DEF Query
  <2>2. lastMessage' = lastMessage
    BY <1>2 DEF Query
  <2>3. ASSUME NEW c \in Convs, NEW i \in DOMAIN messages'[c]
        PROVE  \/ i \in DOMAIN messages[c] /\ messages'[c][i] = messages[c][i]
               \/ /\ c = handler[k].conv
                  /\ i = Len(messages[c]) + 1
                  /\ messages'[c][i] = handler[k].message
    <3>1. messages \in [Convs -> Seq(Message)] /\ messages[c] \in Seq(Message)
      BY DEF TypeInv, TypeOK
    <3>2. handler[k].message \in Message
      BY <1>2, QueryEffect DEF Handler
    <3>3. CASE c = handler[k].conv
      <4>1. messages'[c] = Append(messages[c], handler[k].message)
        BY <2>1, <3>1, <3>3
      <4>2. QED
        BY <3>1, <3>2, <3>3, <4>1
    <3>4. CASE c # handler[k].conv
      BY <2>1, <3>1, <3>4
    <3>5. QED
      BY <3>3, <3>4
  <2>4. QED
    BY <2>2, <2>3
<1>3. UNCHANGED messages \/ \E k \in Handlers : Query(k)
  BY DEF Next, Client, Agent, Database, Resume, handleConnection,
         handleDisconnect, onStartChatNew, onStartChat, onSendMessage,
         handleAgentMessage, AgentGivesUp, QueryFails, startChat,
         sendUserMessage, processAgentMessage, Crash, database, vars
<1>4. QED
  BY <1>1, <1>2, <1>3

\* A call of a client starts one handler, with a number of its own if it sends.
LEMMA ClientNumbers ==
  ASSUME TypeInv, NEW s \in Clients, Client(s)
  PROVE  /\ messages' = messages
         /\ lastMessage' \in {lastMessage, lastMessage + 1}
         /\ \A g \in Handlers : handler'[g] # handler[g] /\ handler'[g].does # "start_chat" =>
              /\ lastMessage' = lastMessage + 1
              /\ handler'[g].message.id = lastMessage'
         /\ \A g, h \in Handlers :
              handler'[g] # handler[g] /\ handler'[h] # handler[h] => g = h
<1>0. handler \in [Handlers -> Handler \cup {None}] /\ lastMessage \in Nat
  BY DEF TypeInv, TypeOK
<1>1. CASE handleConnection(s) \/ handleDisconnect(s)
  BY <1>1 DEF handleConnection, handleDisconnect, database
<1>2. ASSUME NEW h \in Handlers, NEW t,
             t.does # "start_chat" => t.message.id = lastMessage' /\ lastMessage' = lastMessage + 1,
             handler' = [handler EXCEPT ![h] = t]
      PROVE  /\ \A g \in Handlers : handler'[g] # handler[g] /\ handler'[g].does # "start_chat" =>
                  /\ lastMessage' = lastMessage + 1
                  /\ handler'[g].message.id = lastMessage'
             /\ \A f, g \in Handlers :
                  handler'[f] # handler[f] /\ handler'[g] # handler[g] => f = g
  BY <1>0, <1>2
<1>3. CASE onStartChatNew(s)
  <2> DEFINE t == NewHandler("start_chat", s, None, NoMessage, "createConversation")
  <2>1. t.does = "start_chat"
    BY DEF NewHandler
  <2>2. PICK h \in Idle : handler' = [handler EXCEPT ![h] = t]
    BY <1>3 DEF onStartChatNew
  <2>3. messages' = messages /\ lastMessage' = lastMessage
    BY <1>3 DEF onStartChatNew, database
  <2> HIDE DEF t
  <2>4. QED
    BY <1>2, <2>1, <2>2, <2>3 DEF Idle
<1>4. ASSUME NEW c \in Convs, onStartChat(s, c)
      PROVE  /\ messages' = messages
             /\ lastMessage' \in {lastMessage, lastMessage + 1}
             /\ \A g \in Handlers : handler'[g] # handler[g] /\ handler'[g].does # "start_chat" =>
                  /\ lastMessage' = lastMessage + 1
                  /\ handler'[g].message.id = lastMessage'
             /\ \A f, g \in Handlers :
                  handler'[f] # handler[f] /\ handler'[g] # handler[g] => f = g
  <2> DEFINE t == NewHandler("start_chat", s, c, NoMessage, "findById")
  <2>1. t.does = "start_chat"
    BY DEF NewHandler
  <2>2. PICK h \in Idle : handler' = [handler EXCEPT ![h] = t]
    BY <1>4 DEF onStartChat
  <2>3. messages' = messages /\ lastMessage' = lastMessage
    BY <1>4 DEF onStartChat, database
  <2> HIDE DEF t
  <2>4. QED
    BY <1>2, <2>1, <2>2, <2>3 DEF Idle
<1>5. ASSUME NEW c \in Convs, onSendMessage(s, c)
      PROVE  /\ messages' = messages
             /\ lastMessage' \in {lastMessage, lastMessage + 1}
             /\ \A g \in Handlers : handler'[g] # handler[g] /\ handler'[g].does # "start_chat" =>
                  /\ lastMessage' = lastMessage + 1
                  /\ handler'[g].message.id = lastMessage'
             /\ \A f, g \in Handlers :
                  handler'[f] # handler[f] /\ handler'[g] # handler[g] => f = g
  <2> DEFINE m == [id |-> lastMessage', from |-> "user", isFinal |-> FALSE]
             t == NewHandler("send_message", s, c, m, "findById")
  <2>1. t.message.id = lastMessage'
    BY DEF NewHandler
  <2>2. PICK h \in Idle : handler' = [handler EXCEPT ![h] = t]
    BY <1>5 DEF onSendMessage
  <2>3. messages' = messages /\ lastMessage' = lastMessage + 1
    BY <1>5 DEF onSendMessage, database
  <2> HIDE DEF t
  <2>4. QED
    BY <1>2, <2>1, <2>2, <2>3 DEF Idle
<1>6. QED
  BY <1>1, <1>3, <1>4, <1>5 DEF Client

\* A message of the agent starts one handler for each listener, all with the same
\* new number.
LEMMA AgentNumbers ==
  ASSUME TypeInv, NEW c \in Convs, Agent(c)
  PROVE  /\ messages' = messages
         /\ lastMessage' \in {lastMessage, lastMessage + 1}
         /\ \A g \in Handlers : handler'[g] # handler[g] =>
              /\ lastMessage' = lastMessage + 1
              /\ handler'[g].message.id = lastMessage'
              /\ handler'[g].message.from = "agent"
         /\ (agent[c] # None => Len(agent[c].subscribers) <= 1) =>
              \A g, h \in Handlers :
                handler'[g] # handler[g] /\ handler'[h] # handler[h] => g = h
<1>0. lastMessage \in Nat
  BY DEF TypeInv, TypeOK
<1>1. CASE AgentGivesUp(c)
  BY <1>1 DEF AgentGivesUp, database
<1>2. ASSUME NEW final \in BOOLEAN, handleAgentMessage(c, final)
      PROVE  /\ messages' = messages
             /\ lastMessage' = lastMessage + 1
             /\ \A g \in Handlers : handler'[g] # handler[g] =>
                  /\ handler'[g].message.id = lastMessage'
                  /\ handler'[g].message.from = "agent"
             /\ (agent[c] # None => Len(agent[c].subscribers) <= 1) =>
                  \A g, h \in Handlers :
                    handler'[g] # handler[g] /\ handler'[h] # handler[h] => g = h
  <2> DEFINE m == [id |-> lastMessage', from |-> "agent", isFinal |-> final]
             who == agent[c].subscribers
             t(h, slot) == NewHandler("agent_message",
                             who[CHOOSE i \in DOMAIN who : slot[i] = h],
                             c, m, "createMessage")
  <2>1. PICK slot \in Injection(DOMAIN who, Idle) :
           handler' = [h \in Handlers |-> IF h \in Range(slot)
                                            THEN t(h, slot) ELSE handler[h]]
    BY <1>2 DEF handleAgentMessage
  <2>2. messages' = messages /\ lastMessage' = lastMessage + 1
    BY <1>2 DEF handleAgentMessage, database
  <2>3. who \in Seq(Clients) /\ agent[c] # None
    BY <1>2 DEF handleAgentMessage, TypeInv, TypeOK, AgentSession
  <2>4. \A h : t(h, slot).message = m
    BY DEF NewHandler
  <2> HIDE DEF t
  <2>5. \A g \in Handlers : handler'[g] # handler[g] => g \in Range(slot)
    BY <2>1 DEF TypeInv, TypeOK
  <2>6. \A g \in Handlers : handler'[g] # handler[g] => handler'[g].message = m
    BY <2>1, <2>4, <2>5
  <2>7. ASSUME Len(who) <= 1, NEW g \in Range(slot), NEW h \in Range(slot)
        PROVE  g = h
    <3>1. /\ \E i \in DOMAIN who : slot[i] = g
          /\ \E i \in DOMAIN who : slot[i] = h
      BY DEF Range, Injection, IsInjective
    <3>2. \A i, j \in DOMAIN who : i = j
      <4> HIDE DEF who
      <4>1. QED
        BY <2>3, <2>7
    <3>3. QED
      BY <3>1, <3>2
  <2>8. QED
    BY <2>2, <2>3, <2>5, <2>6, <2>7
<1>3. QED
  BY <1>1, <1>2 DEF Agent

\* What the agent starts is no call of a client, and stores no user's message.
LEMMA AgentStartsItsOwn ==
  ASSUME TypeInv, NEW c \in Convs, Agent(c), NEW g \in Handlers, handler'[g] # handler[g]
  PROVE  handler'[g].does = "agent_message" /\ handler'[g].message.from = "agent"
<1>1. PICK final \in BOOLEAN : handleAgentMessage(c, final)
  BY DEF Agent, AgentGivesUp
<1> DEFINE m == [id |-> lastMessage', from |-> "agent", isFinal |-> final]
           who == agent[c].subscribers
           t(h, slot) == NewHandler("agent_message",
                           who[CHOOSE i \in DOMAIN who : slot[i] = h],
                           c, m, "createMessage")
<1>2. PICK slot \in Injection(DOMAIN who, Idle) :
         handler' = [h \in Handlers |-> IF h \in Range(slot)
                                          THEN t(h, slot) ELSE handler[h]]
  BY <1>1 DEF handleAgentMessage
<1>3. t(g, slot).does = "agent_message" /\ t(g, slot).message.from = "agent"
  BY DEF NewHandler
<1> HIDE DEF t
<1>4. QED
  BY <1>2, <1>3

\* The other steps give no number.
LEMMA OthersNumberNothing ==
  ASSUME TypeInv, [Next]_vars, \A s \in Clients : ~Client(s), \A c \in Convs : ~Agent(c)
  PROVE  lastMessage' = lastMessage
BY DEF Next, Database, Resume, Query, QueryFails, startChat, sendUserMessage,
       processAgentMessage, Crash, vars

\* Numbers are given one by one, and not in a step that saves.
LEMMA NumbersGrow ==
  ASSUME TypeInv, [Next]_vars
  PROVE  /\ lastMessage \in Nat
         /\ lastMessage' = lastMessage \/ (lastMessage' = lastMessage + 1 /\ messages' = messages)
<1>1. lastMessage \in Nat
  BY DEF TypeInv, TypeOK
<1>2. QED
  BY <1>1, ClientNumbers, AgentNumbers, OthersNumberNothing

\* A message that is to be saved was so before, or has just got a new number.
LEMMA ToBeSavedSteps ==
  ASSUME TypeInv, [Next]_vars, NEW h \in Handlers, ToBeSaved(h)'
  PROVE  \/ /\ ToBeSaved(h)
            /\ handler'[h].message = handler[h].message
            /\ Query(h) => handler[h].awaits # "createMessage"
         \/ /\ handler'[h] # handler[h]
            /\ lastMessage' = lastMessage + 1
            /\ handler'[h].message.id = lastMessage'
            /\ messages' = messages
<1>0. handler' \in [Handlers -> Handler \cup {None}]
  <2>1. TypeInv'
    BY ClientTypes, AgentTypes, DatabaseTypes, ResumeTypes, CrashTypes
       DEF Next, vars, TypeInv, TypeOK, ConvKnown
  <2>2. QED
    BY <2>1 DEF TypeInv, TypeOK
<1>1. handler'[h] \in Handler /\ handler'[h] # None /\ handler'[h].does # "start_chat"
  BY <1>0 DEF ToBeSaved
<1>2. ASSUME NEW s \in Clients, Client(s), handler'[h] # handler[h]
      PROVE  /\ lastMessage' = lastMessage + 1
             /\ handler'[h].message.id = lastMessage'
             /\ messages' = messages
  BY <1>1, <1>2, ClientNumbers
<1>3. ASSUME NEW c \in Convs, Agent(c), handler'[h] # handler[h]
      PROVE  /\ lastMessage' = lastMessage + 1
             /\ handler'[h].message.id = lastMessage'
             /\ messages' = messages
  BY <1>1, <1>3, AgentNumbers
<1>4. CASE Query(h)
  <2>1. /\ handler[h] \in Handler
        /\ handler'[h].does = handler[h].does
        /\ handler'[h].awaits = handler[h].awaits
        /\ handler'[h].message = handler[h].message
        /\ handler'[h].query = "ok"
    BY <1>4, QueryEffect
  <2>2. handler[h] # None
    BY <1>4 DEF Query
  <2>3. QED
    BY <2>1, <2>2 DEF ToBeSaved
<1>5. ASSUME NEW call \in Calls, Call(h, call), Resume(h)
      PROVE  ToBeSaved(h) /\ handler'[h].message = handler[h].message /\ ~Query(h)
  <2>1. handler[h] # None /\ handler[h].query = "ok"
    BY <1>5 DEF Resume, startChat, sendUserMessage, processAgentMessage
  <2>2. /\ handler'[h].does = handler[h].does
        /\ handler'[h].message = handler[h].message
        /\ handler'[h].awaits = call
        /\ handler'[h] # None
    BY <1>5, <2>1, <1>1, CallEffect
  <2>3. ~Finish(h)
    BY <2>2, FinishEffect
  <2>4. ~startChat(h)
    BY <1>1, <2>2 DEF startChat
  <2>5. CASE sendUserMessage(h)
    BY <2>1, <2>2, <2>3, <2>5 DEF sendUserMessage, ToBeSaved, Query
  <2>6. CASE processAgentMessage(h)
    <3>1. Call(h, "updateStatus")
      BY <2>3, <2>6 DEF processAgentMessage
    <3>2. handler'[h].awaits = "updateStatus"
      BY <2>1, <3>1, CallEffect DEF Calls
    <3>3. QED
      BY <3>2 DEF ToBeSaved
  <2>7. QED
    BY <1>5, <2>4, <2>5, <2>6 DEF Resume
<1>6. CASE handler'[h] = handler[h]
  <2>1. ToBeSaved(h)
    BY <1>6 DEF ToBeSaved
  <2>2. QED
    BY <1>6, <2>1, <1>4
<1>7. CASE handler'[h] # handler[h]
  <2>1. \/ \E s \in Clients : Client(s)
        \/ \E c \in Convs : Agent(c)
        \/ Query(h)
        \/ Resume(h) /\ \E call \in Calls : Call(h, call)
    <3>1. ASSUME NEW g \in Handlers, g # h, Query(g)
          PROVE  FALSE
      BY <1>7, <3>1, QueryEffect
    <3>2. ASSUME NEW g \in Handlers, QueryFails(g)
          PROVE  FALSE
      BY <1>1, <1>7, <3>2, FinishEffect DEF QueryFails
    <3>3. ASSUME NEW g \in Handlers, Resume(g)
          PROVE  g = h /\ \E call \in Calls : Call(g, call)
      <4>1. Finish(g) \/ \E call \in Calls : Call(g, call)
        BY <3>3 DEF Resume, startChat, sendUserMessage, processAgentMessage, Calls
      <4>2. handler[g] # None
        BY <3>3 DEF Resume, startChat, sendUserMessage, processAgentMessage
      <4>3. QED
        BY <1>1, <1>7, <4>1, <4>2, FinishEffect, CallEffect
    <3>4. ~Crash
      BY <1>1 DEF Crash
    <3>5. QED
      BY <1>7, <3>1, <3>2, <3>3, <3>4 DEF Next, Database, vars
  <2>2. QED
    BY <1>2, <1>3, <1>4, <1>5, <1>7, <2>1
<1>8. QED
  BY <1>6, <1>7

\* Who saves: a message is numbered for a sender of its own, and only a message of
\* the agent may be given to more handlers than one, when it has more listeners.
LEMMA NewNumbersOnce ==
  ASSUME TypeInv, [Next]_vars, NEW g \in Handlers, NEW h \in Handlers, g # h,
         ToBeSaved(g)', ToBeSaved(h)',
         handler'[g] # handler[g], handler'[h] # handler[h],
         lastMessage' = lastMessage + 1
  PROVE  /\ handler'[g].message.from = "agent"
         /\ \E c \in Convs : agent[c] # None /\ ~(Len(agent[c].subscribers) <= 1)
<1>1. lastMessage \in Nat
  BY DEF TypeInv, TypeOK
<1>2. \A s \in Clients : ~Client(s)
  BY ClientNumbers
<1>3. PICK c \in Convs : Agent(c)
  BY <1>1, <1>2, OthersNumberNothing
<1>4. QED
  BY <1>3, AgentNumbers

\* No session has more listeners than one.
OneListener == \A c \in Convs : agent[c] # None => Len(agent[c].subscribers) <= 1

\* A step keeps it for the messages of users, and for the agent's while a session
\* has one listener.
LEMMA OnceKept ==
  ASSUME TypeInv, NEW From, Once(From), [Next]_vars, "agent" \notin From \/ OneListener
  PROVE  Once(From)'
<1> DEFINE Old(h) == /\ ToBeSaved(h)
                     /\ handler'[h].message = handler[h].message
                     /\ Query(h) => handler[h].awaits # "createMessage"
           New(h) == /\ handler'[h] # handler[h]
                     /\ lastMessage' = lastMessage + 1
                     /\ handler'[h].message.id = lastMessage'
                     /\ messages' = messages
           Saves(k) == Query(k) /\ handler[k].awaits = "createMessage"
           Kept(c, i) == i \in DOMAIN messages[c] /\ messages'[c][i] = messages[c][i]
           Added(k, c, i) == /\ c = handler[k].conv
                             /\ i = Len(messages[c]) + 1
                             /\ messages'[c][i] = handler[k].message
<1>1. \A h \in Handlers : ToBeSaved(h)' => Old(h) \/ New(h)
  BY ToBeSavedSteps
<1>2. /\ lastMessage \in Nat
      /\ lastMessage' = lastMessage \/ lastMessage' = lastMessage + 1
  BY NumbersGrow
<1>3. \/ messages' = messages
      \/ /\ lastMessage' = lastMessage
         /\ \E k \in Handlers :
              Saves(k) /\ \A c \in Convs : \A i \in DOMAIN messages'[c] : Kept(c, i) \/ Added(k, c, i)
  BY SavingSteps
<1>4. ASSUME NEW k \in Handlers, Saves(k)
      PROVE  ToBeSaved(k) /\ ~ToBeSaved(k)'
  <2>1. PICK v \in Handler : v = handler[k]
    BY <1>4, QueryEffect
  <2>2. handler[k] # None /\ handler[k].query = "issued"
    BY <1>4 DEF Query
  <2>3. v.does # "start_chat"
    BY <1>4, <2>1 DEF Once
  <2>4. handler'[k].awaits = "createMessage" /\ handler'[k].query = "ok"
    BY <1>4, QueryEffect
  <2>5. QED
    BY <1>4, <2>1, <2>2, <2>3, <2>4 DEF ToBeSaved
<1>5. \A h \in Handlers : ToBeSaved(h) => handler[h].message.id \in Nat
  BY DEF ToBeSaved, TypeInv, TypeOK, Handler, Message
<1>6. ASSUME NEW c \in Convs, NEW i \in DOMAIN messages[c]
      PROVE  messages[c][i].id \in Nat
  <2>1. messages[c] \in Seq(Message)
    BY DEF TypeInv, TypeOK
  <2>2. messages[c][i] \in Message
    BY <2>1
  <2>3. QED
    BY <2>2 DEF Message
<1>7. ASSUME NEW g \in Handlers, NEW t \in Handler, handler'[g] = t, t.awaits = "createMessage"
      PROVE  t.does # "start_chat"
  <2>1. CASE handler'[g] = handler[g]
    BY <1>7, <2>1 DEF Once
  <2>2. CASE JustStarted(t)
    BY <1>7, <2>2 DEF JustStarted
  <2>3. CASE Query(g)
    <3>1. PICK v \in Handler : v = handler[g]
      BY <2>3, QueryEffect
    <3>2. v.awaits = "createMessage" /\ v.does = t.does
      BY <1>7, <2>3, <3>1, QueryEffect
    <3>3. QED
      BY <3>1, <3>2 DEF Once
  <2>4. ASSUME NEW call \in Calls, Call(g, call), Resume(g)
        PROVE  t.does # "start_chat"
    <3>1. handler[g] # None
      BY <2>4 DEF Resume, startChat, sendUserMessage, processAgentMessage
    <3>2. /\ handler'[g].awaits = call /\ handler'[g].does = handler[g].does
          /\ handler'[g] # None
      BY <1>7, <2>4, <3>1, CallEffect, AbsentAssumption
    <3>3. ~Finish(g)
      BY <3>2, FinishEffect
    <3>4. ASSUME startChat(g)
          PROVE  FALSE
      <4>1. Call(g, "findByIdWithMessages")
        BY <3>3, <3>4 DEF startChat
      <4>2. handler'[g].awaits = "findByIdWithMessages"
        BY <3>1, <4>1, CallEffect DEF Calls
      <4>3. QED
        BY <4>2, <1>7
    <3>5. QED
      BY <1>7, <2>4, <3>2, <3>4 DEF Resume, sendUserMessage, processAgentMessage
  <2>5. QED
    BY <1>7, <2>1, <2>2, <2>3, <2>4, HandlerSteps
<1>8. ASSUME NEW c \in Convs, NEW i \in DOMAIN messages'[c]
      PROVE  messages'[c][i].id <= lastMessage'
  <2>1. CASE messages' = messages
    BY <1>2, <1>6, <1>8, <2>1 DEF Once
  <2>2. ASSUME lastMessage' = lastMessage, Kept(c, i)
        PROVE  messages'[c][i].id <= lastMessage'
    BY <2>2 DEF Once
  <2>3. ASSUME NEW k \in Handlers, Saves(k), lastMessage' = lastMessage, Added(k, c, i)
        PROVE  messages'[c][i].id <= lastMessage'
    BY <1>4, <2>3 DEF Once
  <2>4. QED
    BY <1>3, <1>8, <2>1, <2>2, <2>3
<1>9. ASSUME NEW h \in Handlers, ToBeSaved(h)'
      PROVE  handler'[h].message.id <= lastMessage'
  BY <1>1, <1>2, <1>5, <1>9 DEF Once
<1>10. ASSUME NEW h \in Handlers, ToBeSaved(h)', NEW c \in Convs, NEW i \in DOMAIN messages'[c],
              messages'[c][i].id = handler'[h].message.id
       PROVE  messages'[c][i].from \notin From /\ handler'[h].message.from \notin From
  <2>1. CASE New(h)
    <3>1. messages[c][i].id <= lastMessage /\ messages[c][i].id \in Nat
      BY <1>6, <1>10, <2>1 DEF Once
    <3>2. QED
      BY <1>2, <1>10, <2>1, <3>1
  <2>2. CASE Old(h) /\ Kept(c, i)
    BY <1>10, <2>2 DEF Once
  <2>3. ASSUME NEW k \in Handlers, Saves(k), Old(h), Added(k, c, i)
        PROVE  messages'[c][i].from \notin From /\ handler'[h].message.from \notin From
    <3>1. k # h /\ ToBeSaved(k)
      BY <1>4, <2>3
    <3>2. handler[k].message.id = handler[h].message.id
      BY <1>10, <2>3
    <3>3. handler[k].message.from \notin From /\ handler[h].message.from \notin From
      BY <2>3, <3>1, <3>2 DEF Once
    <3>4. QED
      BY <2>3, <3>3
  <2>4. QED
    BY <1>1, <1>3, <1>10, <2>1, <2>2, <2>3
<1>11. ASSUME NEW g \in Handlers, NEW h \in Handlers, g # h, ToBeSaved(g)', ToBeSaved(h)',
              handler'[g].message.id = handler'[h].message.id
       PROVE  handler'[g].message.from \notin From
  <2>1. CASE Old(g) /\ Old(h)
    BY <1>11, <2>1 DEF Once
  <2>2. CASE Old(g) /\ New(h)
    <3>1. handler[g].message.id <= lastMessage /\ handler[g].message.id \in Nat
      BY <1>5, <2>2 DEF Once
    <3>2. handler[g].message.id = lastMessage + 1
      BY <1>11, <2>2
    <3>3. QED
      BY <1>2, <3>1, <3>2
  <2>3. CASE New(g) /\ Old(h)
    <3>1. handler[h].message.id <= lastMessage /\ handler[h].message.id \in Nat
      BY <1>5, <2>3 DEF Once
    <3>2. handler[h].message.id = lastMessage + 1
      BY <1>11, <2>3
    <3>3. QED
      BY <1>2, <3>1, <3>2
  <2>4. CASE New(g) /\ New(h)
    BY <1>11, <2>4, NewNumbersOnce DEF OneListener
  <2>5. QED
    BY <1>1, <1>11, <2>1, <2>2, <2>3, <2>4
<1>12. ASSUME NEW c \in Convs, NEW d \in Convs,
              NEW i \in DOMAIN messages'[c], NEW j \in DOMAIN messages'[d],
              messages'[c][i].id = messages'[d][j].id, messages'[c][i].from \in From
       PROVE  c = d /\ i = j
  <2>1. CASE Kept(c, i) /\ Kept(d, j)
    BY <1>12, <2>1 DEF Once
  <2>2. ASSUME NEW k \in Handlers, Saves(k), Added(k, c, i), Added(k, d, j)
        PROVE  c = d /\ i = j
    BY <2>2
  <2>3. ASSUME NEW k \in Handlers, Saves(k), Added(k, c, i), Kept(d, j)
        PROVE  FALSE
    <3>1. ToBeSaved(k) /\ messages[d][j].id = handler[k].message.id
      BY <1>4, <1>12, <2>3
    <3>2. handler[k].message.from \notin From
      BY <2>3, <3>1 DEF Once
    <3>3. QED
      BY <1>12, <2>3, <3>2
  <2>4. ASSUME NEW k \in Handlers, Saves(k), Added(k, d, j), Kept(c, i)
        PROVE  FALSE
    <3>1. ToBeSaved(k) /\ messages[c][i].id = handler[k].message.id
      BY <1>4, <1>12, <2>4
    <3>2. messages[c][i].from \notin From
      BY <2>4, <3>1 DEF Once
    <3>3. QED
      BY <1>12, <2>4, <3>2
  <2>5. QED
    BY <1>3, <1>12, <2>1, <2>2, <2>3, <2>4
<1> HIDE DEF Old, New, Saves, Kept, Added
<1>13. QED
  BY <1>7, <1>8, <1>9, <1>10, <1>11, <1>12 DEF Once

LEMMA OnceInit ==
  ASSUME NEW From, Init
  PROVE  Once(From)
<1>1. \A c \in Convs : messages[c] = << >>
  BY DEF Init
<1>2. \A h \in Handlers : handler[h] = None
  BY DEF Init
<1>3. \A h \in Handlers : ~ToBeSaved(h)
  BY <1>2 DEF ToBeSaved
<1>4. QED
  BY <1>1, <1>2, <1>3, AbsentAssumption DEF Once

\* A message of a user is saved once, in one conversation.
UserMessagesSavedOnce ==
  \A c, d \in Convs : \A i \in DOMAIN messages[c] : \A j \in DOMAIN messages[d] :
    messages[c][i].id = messages[d][j].id /\ messages[c][i].from = "user" => c = d /\ i = j

\* Whatever fails and whenever the process dies, sendUserMessage saves each message
\* of a user at most once: all that is saved twice is what the agent says.
THEOREM UserMessagesSavedOnceAlways == Spec => []UserMessagesSavedOnce
<1> DEFINE UsersOnce == Once({"user"})
<1>1. Init => UsersOnce
  BY OnceInit
<1>2. TypeInv /\ UsersOnce /\ [Next]_vars => UsersOnce'
  BY OnceKept
<1>3. UsersOnce => UserMessagesSavedOnce
  BY DEF Once, UserMessagesSavedOnce
<1> HIDE DEF UsersOnce
<1>4. QED
  BY <1>1, <1>2, <1>3, TypeInvAlways, PTL DEF Spec

\* The listeners that openSession adds and nobody removes are the only cause of a
\* message that is saved twice: with one listener at a time none is.
THEOREM SavedOnceWithOneListener == Spec /\ []OneListener => []SavedOnce
<1> DEFINE AllOnce == Once({"user", "agent"})
<1>1. Init => AllOnce
  BY OnceInit
<1>2. TypeInv /\ AllOnce /\ OneListener /\ [Next]_vars => AllOnce'
  BY OnceKept
<1>3. TypeInv /\ AllOnce => SavedOnce
  <2> SUFFICES ASSUME TypeInv, AllOnce, NEW c \in Convs,
                      NEW i \in DOMAIN messages[c], NEW j \in DOMAIN messages[c],
                      messages[c][i].id = messages[c][j].id
               PROVE  i = j
    BY DEF SavedOnce
  <2>1. messages[c] \in Seq(Message)
    BY DEF TypeInv, TypeOK
  <2>2. messages[c][i] \in Message
    BY <2>1
  <2>3. messages[c][i].from \in {"user", "agent"}
    BY <2>2 DEF Message
  <2>4. QED
    BY <2>3 DEF Once
<1> HIDE DEF AllOnce
<1>4. QED
  BY <1>1, <1>2, <1>3, TypeInvAlways, PTL DEF Spec
-----------------------------------------------------------------------------
(* What comes first. *)

ByClient(t) == t.does \in {"start_chat", "send_message"}

\* No two calls of clients are at work on one conversation.
OneCallAtATime ==
  \A g, h \in Handlers : \A t, u \in Handler :
    handler[g] = t /\ handler[h] = u /\ ByClient(t) /\ ByClient(u)
      /\ t.conv # None /\ t.conv = u.conv => g = h

\* A session that has been sent nothing is one whose history is being read.
InitFirst ==
  /\ \A c \in Convs : agent[c] # None /\ agent[c].opening = "nothing" =>
       \E h \in Handlers : \E t \in Handler :
         handler[h] = t /\ t.conv = c /\ t.awaits = "findByIdWithMessages"
  /\ InitComesFirst

\* How a handler goes on: what it does to the sessions, and what it awaits next.
LEMMA GoesOn ==
  ASSUME TypeInv, NEW h \in Handlers, Resume(h), NEW t \in Handler, handler[h] = t
  PROVE  \/ /\ UNCHANGED sessions
            /\ \/ Finish(h)
               \/ Call(h, "updateStatus")
               \/ /\ t.does = "send_message" /\ t.awaits = "findById"
                  /\ Call(h, "createMessage")
         \/ /\ ByClient(t) /\ t.awaits \in {"findById", "createConversation"}
            /\ openSession(t.conv, t.client)
            /\ Call(h, "findByIdWithMessages")
         \/ closeSession(t.conv) /\ Finish(h)
         \/ /\ t.awaits = "findByIdWithMessages"
            /\ sendToAgent(t.conv, [type |-> "init", n |-> t.history])
            /\ Finish(h) \/ Call(h, "createMessage")
         \/ /\ t.does = "send_message" /\ t.awaits = "createMessage"
            /\ sendToAgent(t.conv, [type |-> "message", n |-> t.message.id])
            /\ Finish(h)
BY DEF Resume, startChat, sendUserMessage, processAgentMessage, ByClient

\* A new session has been sent nothing, and one that is there stays as it is.
LEMMA OpenSessionOpens ==
  ASSUME TypeOK, NEW s \in Clients, NEW c \in Convs, openSession(c, s),
         NEW d \in Convs, agent'[d] # None
  PROVE  \/ agent[d] # None /\ agent'[d].opening = agent[d].opening
         \/ d = c /\ agent[c] = None /\ agent'[d].opening = "nothing"
<1> DEFINE session == IF agent[c] = None
                        THEN [subscribers |-> << >>, opening |-> "nothing",
                              received |-> {}]
                        ELSE agent[c]
           subscribed == [session EXCEPT !.subscribers = Append(@, s)]
<1>1. CASE agent' = agent
  BY <1>1
<1>2. CASE agent' = [agent EXCEPT ![c] = subscribed] /\ d = c
  <2>1. agent'[d] = subscribed
    BY <1>2 DEF TypeOK
  <2>2. agent[c] # None => agent[c] \in AgentSession
    BY DEF TypeOK
  <2>3. subscribed.opening = session.opening
    BY <2>2 DEF AgentSession
  <2>4. QED
    BY <1>2, <2>1, <2>3
<1>3. CASE agent' = [agent EXCEPT ![c] = subscribed] /\ d # c
  BY <1>3 DEF TypeOK
<1>4. QED
  BY <1>1, <1>2, <1>3 DEF openSession

\* What is sent to a session that has been sent nothing opens it.
LEMMA SendToAgentOpens ==
  ASSUME TypeOK, NEW c \in Convs, NEW q \in Payload, sendToAgent(c, q),
         NEW d \in Convs, agent'[d] # None
  PROVE  /\ agent[d] # None
         /\ d # c => agent'[d] = agent[d]
         /\ d = c => agent'[d].opening = IF agent[d].opening = "nothing"
                                           THEN q.type ELSE agent[d].opening
<1>1. CASE agent[c] = None \/ d # c
  BY <1>1 DEF sendToAgent, TypeOK
<1>2. CASE agent[c] # None /\ d = c
  <2>1. agent[c] \in AgentSession
    BY <1>2 DEF TypeOK
  <2>2. agent'[c].opening = IF agent[c].opening = "nothing"
                              THEN q.type ELSE agent[c].opening
    BY <1>2, <2>1 DEF sendToAgent, TypeOK, AgentSession
  <2>3. QED
    BY <1>2, <2>2
<1>3. QED
  BY <1>1, <1>2

\* Starting a handler disturbs none that is there.
LEMMA StartsInIdle ==
  ASSUME TypeInv, NEW h \in Handlers, handler[h] # None,
         (\E s \in Clients : Client(s)) \/ (\E c \in Convs : Agent(c))
  PROVE  handler'[h] = handler[h]
<1>0. handler \in [Handlers -> Handler \cup {None}]
  BY DEF TypeInv, TypeOK
<1>1. \A g \in Idle : g # h
  BY DEF Idle
<1>2. ASSUME NEW s \in Clients, Client(s)
      PROVE  handler'[h] = handler[h]
  <2>1. handler' = handler \/ \E g \in Idle : \E t : handler' = [handler EXCEPT ![g] = t]
    BY <1>2 DEF Client, handleConnection, handleDisconnect, onStartChatNew, onStartChat,
                onSendMessage
  <2>2. QED
    BY <1>0, <1>1, <2>1
<1>3. ASSUME NEW c \in Convs, Agent(c)
      PROVE  handler'[h] = handler[h]
  <2>1. CASE AgentGivesUp(c)
    BY <2>1 DEF AgentGivesUp
  <2>2. ASSUME NEW final \in BOOLEAN, handleAgentMessage(c, final)
        PROVE  handler'[h] = handler[h]
    <3> DEFINE m == [id |-> lastMessage', from |-> "agent", isFinal |-> final]
               who == agent[c].subscribers
               t(g, slot) == NewHandler("agent_message",
                               who[CHOOSE i \in DOMAIN who : slot[i] = g],
                               c, m, "createMessage")
    <3>1. PICK slot \in Injection(DOMAIN who, Idle) :
             handler' = [g \in Handlers |-> IF g \in Range(slot)
                                              THEN t(g, slot) ELSE handler[g]]
      BY <2>2 DEF handleAgentMessage
    <3>2. Range(slot) \subseteq Idle
      BY DEF Range, Injection, IsInjective
    <3> HIDE DEF t
    <3>3. QED
      BY <1>1, <3>1, <3>2
  <2>3. QED
    BY <1>3, <2>1, <2>2 DEF Agent
<1>4. QED
  BY <1>2, <1>3

\* A handler stays as it is until its query is executed or fails, it goes on, or the
\* process dies.
LEMMA HandlerStays ==
  ASSUME TypeInv, [Next]_vars, NEW h \in Handlers, handler[h] # None
  PROVE  \/ handler'[h] = handler[h]
         \/ Query(h) \/ QueryFails(h) \/ Resume(h) \/ Crash
<1>1. ASSUME NEW g \in Handlers, g # h, Query(g) \/ QueryFails(g) \/ Resume(g)
      PROVE  handler'[h] = handler[h]
  <2>1. CASE Query(g)
    BY <1>1, <2>1, QueryEffect
  <2>2. CASE QueryFails(g)
    BY <1>1, <2>2, FinishEffect DEF QueryFails
  <2>3. CASE Resume(g)
    <3>1. Finish(g) \/ \E call \in Calls : Call(g, call)
      BY <2>3 DEF Resume, startChat, sendUserMessage, processAgentMessage, Calls
    <3>2. handler[g] # None
      BY <2>3 DEF Resume, startChat, sendUserMessage, processAgentMessage
    <3>3. QED
      BY <1>1, <3>1, <3>2, FinishEffect, CallEffect
  <2>4. QED
    BY <1>1, <2>1, <2>2, <2>3
<1>2. QED
  BY <1>1, StartsInIdle DEF Next, Database, vars

\* What becomes of the session of a conversation: it stays, it ends, or a handler
\* opens it or sends to it.
LEMMA SessionSteps ==
  ASSUME TypeInv, [Next]_vars, NEW c \in Convs
  PROVE  \/ agent'[c] = agent[c]
         \/ agent'[c] = None
         \/ \E h \in Handlers : \E t \in Handler :
              /\ Resume(h) /\ handler[h] = t /\ t.conv = c /\ t.client \in Clients
              /\ \/ /\ ByClient(t) /\ t.awaits \in {"findById", "createConversation"}
                    /\ openSession(c, t.client)
                    /\ Call(h, "findByIdWithMessages")
                 \/ /\ t.awaits = "findByIdWithMessages"
                    /\ [type |-> "init", n |-> t.history] \in Payload
                    /\ sendToAgent(c, [type |-> "init", n |-> t.history])
                 \/ /\ t.does = "send_message" /\ t.awaits = "createMessage"
                    /\ [type |-> "message", n |-> t.message.id] \in Payload
                    /\ sendToAgent(c, [type |-> "message", n |-> t.message.id])
                    /\ Finish(h)
<1> DEFINE Ends == agent'[c] = agent[c] \/ agent'[c] = None
<1>1. ASSUME NEW d \in Convs, closeSession(d)
      PROVE  Ends
    BY <1>1 DEF closeSession, TypeInv, TypeOK
<1>2. ASSUME NEW s \in Clients, Client(s)
      PROVE  Ends
  <2>1. UNCHANGED agent \/ \E d \in Convs : closeSession(d)
    BY <1>2 DEF Client, handleConnection, handleDisconnect, onStartChatNew, onStartChat,
                onSendMessage, sessions, TypeInv, TypeOK
  <2>2. QED
    BY <1>1, <2>1
<1>3. ASSUME NEW d \in Convs, Agent(d)
      PROVE  Ends
  BY <1>3 DEF Agent, AgentGivesUp, handleAgentMessage, sessions, TypeInv, TypeOK
<1>4. ASSUME NEW h \in Handlers, Database(h)
      PROVE  Ends
  BY <1>4 DEF Database, Query, QueryFails, sessions
<1>5. ASSUME Crash
      PROVE  Ends
  BY <1>5 DEF Crash
<1>6. ASSUME NEW h \in Handlers, Resume(h), ~Ends
      PROVE  \E t \in Handler :
              /\ handler[h] = t /\ t.conv = c /\ t.client \in Clients
              /\ \/ /\ ByClient(t) /\ t.awaits \in {"findById", "createConversation"}
                    /\ openSession(c, t.client)
                    /\ Call(h, "findByIdWithMessages")
                 \/ /\ t.awaits = "findByIdWithMessages"
                    /\ [type |-> "init", n |-> t.history] \in Payload
                    /\ sendToAgent(c, [type |-> "init", n |-> t.history])
                 \/ /\ t.does = "send_message" /\ t.awaits = "createMessage"
                    /\ [type |-> "message", n |-> t.message.id] \in Payload
                    /\ sendToAgent(c, [type |-> "message", n |-> t.message.id])
                    /\ Finish(h)
  <2>1. handler[h] # None /\ handler[h].query = "ok"
    BY <1>6 DEF Resume, startChat, sendUserMessage, processAgentMessage
  <2>2. PICK t \in Handler : t = handler[h]
    BY <2>1, Resumed
  <2>3. /\ t.conv \in Convs /\ t.client \in Clients
        /\ t.history \in Nat /\ t.message.id \in Nat
    BY <2>1, <2>2, Resumed
  <2> DEFINE init == [type |-> "init", n |-> t.history]
             message == [type |-> "message", n |-> t.message.id]
  <2>4. init \in Payload /\ message \in Payload
    BY <2>3 DEF Payload
  <2>5. \/ UNCHANGED sessions
        \/ /\ ByClient(t) /\ t.awaits \in {"findById", "createConversation"}
           /\ openSession(t.conv, t.client)
           /\ Call(h, "findByIdWithMessages")
        \/ closeSession(t.conv)
        \/ t.awaits = "findByIdWithMessages" /\ sendToAgent(t.conv, init)
        \/ /\ t.does = "send_message" /\ t.awaits = "createMessage"
           /\ sendToAgent(t.conv, message) /\ Finish(h)
    BY <1>6, <2>2, GoesOn
  <2> HIDE DEF init, message
  <2>6. ~UNCHANGED sessions /\ ~closeSession(t.conv)
    BY <1>1, <1>6, <2>3 DEF sessions
  <2>7. t.conv = c
    BY <1>6, <2>3, <2>4, <2>5, <2>6, OtherSessions
  <2>8. QED
    BY <2>2, <2>3, <2>4, <2>5, <2>6, <2>7 DEF init, message
<1>7. QED
  BY <1>2, <1>3, <1>4, <1>5, <1>6 DEF Next, vars

LEMMA InitFirstKept ==
  ASSUME ~DbMayFail, TypeInv, LastWordOrder, OneCallAtATime, InitFirst, [Next]_vars
  PROVE  InitFirst'
<1> DEFINE History(h, t, c) == handler[h] = t /\ t.conv = c /\ t.awaits = "findByIdWithMessages"
<1>1. ASSUME NEW h \in Handlers, NEW t \in Handler, handler[h] = t,
             t.awaits = "findByIdWithMessages"
      PROVE  ByClient(t)
  <2>1. AgentMessageOrder(t)
    BY <1>1 DEF LastWordOrder
  <2>2. t.does # "agent_message"
    BY <1>1, <2>1 DEF AgentMessageOrder
  <2>3. QED
    BY <2>2 DEF Handler, ByClient
\* What is sent to a session that has been sent nothing is the history.
<1>2. ASSUME NEW c \in Convs, agent'[c] # None, agent'[c] # agent[c]
      PROVE  \/ \E h \in Handlers : \E t \in Handler :
                  /\ handler[h] = t /\ t.conv = c /\ ByClient(t)
                  /\ t.awaits \in {"findById", "createConversation"}
                  /\ Call(h, "findByIdWithMessages")
                  /\ \/ agent[c] # None /\ agent'[c].opening = agent[c].opening
                     \/ agent'[c].opening = "nothing"
             \/ /\ agent'[c].opening # "nothing"
                /\ agent[c] # None
                /\ agent'[c].opening \in {"init", agent[c].opening}
  <2>1. PICK h \in Handlers : \E t \in Handler :
              /\ Resume(h) /\ handler[h] = t /\ t.conv = c /\ t.client \in Clients
              /\ \/ /\ ByClient(t) /\ t.awaits \in {"findById", "createConversation"}
                    /\ openSession(c, t.client)
                    /\ Call(h, "findByIdWithMessages")
                 \/ /\ t.awaits = "findByIdWithMessages"
                    /\ [type |-> "init", n |-> t.history] \in Payload
                    /\ sendToAgent(c, [type |-> "init", n |-> t.history])
                 \/ /\ t.does = "send_message" /\ t.awaits = "createMessage"
                    /\ [type |-> "message", n |-> t.message.id] \in Payload
                    /\ sendToAgent(c, [type |-> "message", n |-> t.message.id])
                    /\ Finish(h)
    BY <1>2, SessionSteps
  <2>2. PICK t \in Handler :
              /\ Resume(h) /\ handler[h] = t /\ t.conv = c /\ t.client \in Clients
              /\ \/ /\ ByClient(t) /\ t.awaits \in {"findById", "createConversation"}
                    /\ openSession(c, t.client)
                    /\ Call(h, "findByIdWithMessages")
                 \/ /\ t.awaits = "findByIdWithMessages"
                    /\ [type |-> "init", n |-> t.history] \in Payload
                    /\ sendToAgent(c, [type |-> "init", n |-> t.history])
                 \/ /\ t.does = "send_message" /\ t.awaits = "createMessage"
                    /\ [type |-> "message", n |-> t.message.id] \in Payload
                    /\ sendToAgent(c, [type |-> "message", n |-> t.message.id])
                    /\ Finish(h)
    BY <2>1
  <2>3. CASE openSession(c, t.client) /\ ByClient(t) /\ Call(h, "findByIdWithMessages")
               /\ t.awaits \in {"findById", "createConversation"}
    BY <1>2, <2>2, <2>3, OpenSessionOpens DEF TypeInv
  <2>4. ASSUME NEW p \in Payload, sendToAgent(c, p), p.type = "init"
        PROVE  /\ agent'[c].opening # "nothing"
               /\ agent[c] # None
               /\ agent'[c].opening \in {"init", agent[c].opening}
    BY <1>2, <2>4, SendToAgentOpens DEF TypeInv
  <2>5. ASSUME NEW p \in Payload, sendToAgent(c, p), t.does = "send_message",
               t.awaits = "createMessage"
        PROVE  /\ agent'[c].opening # "nothing"
               /\ agent[c] # None
               /\ agent'[c].opening \in {"init", agent[c].opening}
    <3>1. agent[c] # None
      BY <1>2, <2>5, SendToAgentOpens DEF TypeInv
    <3>2. agent[c].opening # "nothing"
      <4> SUFFICES ASSUME agent[c].opening = "nothing" PROVE FALSE
        OBVIOUS
      <4>1. PICK g \in Handlers : \E u \in Handler : History(g, u, c)
        BY <3>1 DEF InitFirst
      <4>2. PICK u \in Handler : History(g, u, c)
        BY <4>1
      <4>3. ByClient(u) /\ ByClient(t)
        BY <1>1, <2>5, <4>2 DEF ByClient
      <4>4. g = h
        BY <2>2, <4>2, <4>3, NoneAssumption DEF OneCallAtATime
      <4>5. QED
        BY <2>2, <2>5, <4>2, <4>4
    <3>3. QED
      BY <1>2, <2>5, <3>1, <3>2, SendToAgentOpens DEF TypeInv
  <2>6. QED
    BY <2>2, <2>3, <2>4, <2>5
<1>3. ASSUME NEW c \in Convs, agent'[c] # None, agent'[c].opening = "nothing"
      PROVE  \E h \in Handlers : \E t \in Handler : History(h, t, c)'
  <2>1. ASSUME NEW h \in Handlers, handler'[h] \in Handler, handler'[h].conv = c,
               handler'[h].awaits = "findByIdWithMessages"
        PROVE  \E g \in Handlers : \E t \in Handler : History(g, t, c)'
    BY <2>1
  <2>2. CASE agent'[c] = agent[c]
    <3>1. PICK h \in Handlers : \E t \in Handler : History(h, t, c)
      BY <1>3, <2>2 DEF InitFirst
    <3>2. PICK t \in Handler : History(h, t, c)
      BY <3>1
    <3>3. t # None
      BY AbsentAssumption
    <3>4. ~QueryFails(h)
      BY DEF QueryFails
    <3>5. ~Crash
      BY <1>3 DEF Crash
    <3>6. ~Resume(h)
      <4> SUFFICES ASSUME Resume(h) PROVE FALSE
        OBVIOUS
      <4>1. t.query = "ok" /\ t.history \in Nat
        BY <3>2, <3>3, Resumed DEF Resume, startChat, sendUserMessage, processAgentMessage
      <4> DEFINE init == [type |-> "init", n |-> t.history]
      <4>2. init \in Payload
        BY <4>1 DEF Payload
      <4>3. \/ sendToAgent(c, init)
            \/ UNCHANGED sessions /\ Call(h, "updateStatus")
            \/ closeSession(c)
            \/ UNCHANGED sessions /\ Finish(h)
        BY <3>2, GoesOn
      <4>4. t.does # "agent_message"
        BY <1>1, <3>2 DEF ByClient
      <4>5. sendToAgent(c, init)
        BY <3>2, <4>4 DEF Resume, startChat, sendUserMessage, processAgentMessage
      <4>6. init.type = "init"
        OBVIOUS
      <4> HIDE DEF init
      <4>7. agent'[c].opening # "nothing"
        BY <1>3, <4>2, <4>5, <4>6, SendToAgentOpens DEF TypeInv
      <4>8. QED
        BY <1>3, <4>7
    <3>7. CASE handler'[h] = handler[h]
      BY <2>1, <3>2, <3>7
    <3>8. CASE Query(h)
      BY <2>1, <3>2, <3>8, QueryEffect, NoneAssumption
    <3>9. QED
      BY <3>2, <3>3, <3>4, <3>5, <3>6, <3>7, <3>8, HandlerStays
  <2>3. CASE agent'[c] # agent[c]
    <3>1. PICK h \in Handlers : \E t \in Handler :
                  /\ handler[h] = t /\ t.conv = c
                  /\ Call(h, "findByIdWithMessages")
      BY <1>2, <1>3, <2>3
    <3>2. handler[h] # None /\ handler[h].conv = c
      BY <3>1, AbsentAssumption
    <3>3. QED
      BY <2>1, <3>1, <3>2, CallEffect DEF Calls
  <2>4. QED
    BY <2>2, <2>3
<1>4. ASSUME NEW c \in Convs, agent'[c] # None
      PROVE  agent'[c].opening # "message"
  BY <1>2, <1>4 DEF InitFirst, InitComesFirst
<1>5. QED
  BY <1>3, <1>4 DEF InitFirst, InitComesFirst

\* A history that is read after the session is registered is overtaken only by a second
\* call on the conversation, or not sent because the read fails: without either, the
\* first payload of every session is its init.
THEOREM InitComesFirstOneCallAtATime ==
  ASSUME ~DbMayFail
  PROVE  Spec /\ []OneCallAtATime => []InitComesFirst
<1>1. Init => InitFirst
  BY DEF Init, InitFirst, InitComesFirst
<1>2. TypeInv /\ LastWordOrder /\ OneCallAtATime /\ InitFirst /\ [Next]_vars => InitFirst'
  BY InitFirstKept
<1>3. InitFirst => InitComesFirst
  BY DEF InitFirst
<1>4. QED
  BY <1>1, <1>2, <1>3, TypeInvAlways, LastWordOrderAlways, PTL DEF Spec
-----------------------------------------------------------------------------
(* What the agent has heard. *)

\* A user's message is stored by the call that sends it.
UsersSend ==
  \A h \in Handlers : \A t \in Handler :
    handler[h] = t /\ t.awaits = "createMessage" /\ t.message.from = "user"
      => t.does = "send_message"

\* The handler will tell the agent of c its i-th message, by the history it reads
\* or by sending it.
Tells(t, c, i) ==
  /\ t.conv = c
  /\ \/ /\ t.awaits = "findByIdWithMessages"
        /\ t.query = "issued" \/ t.history >= i
     \/ /\ t.awaits = "createMessage" /\ t.query = "ok" /\ t.does = "send_message"
        /\ t.message.id = messages[c][i].id

ToBeHeard(c, i) ==
  \E h \in Handlers : \E t \in Handler : handler[h] = t /\ Tells(t, c, i)

\* The agent of a session has heard every user's message, or is about to.
HeardInv ==
  ~DbMayFail =>
    \A c \in Convs : agent[c] # None =>
      \A i \in DOMAIN messages[c] :
        messages[c][i].from = "user" => Heard(c, i) \/ ToBeHeard(c, i)

LEMMA UsersSendAlways == Spec => []UsersSend
<1>1. Init => UsersSend
  BY AbsentAssumption DEF Init, UsersSend
<1>2. ASSUME TypeInv, UsersSend, [Next]_vars PROVE UsersSend'
  <2> SUFFICES ASSUME NEW g \in Handlers, NEW t \in Handler, handler'[g] = t,
                      t.awaits = "createMessage", t.message.from = "user"
               PROVE  t.does = "send_message"
    BY DEF UsersSend
  <2>1. CASE handler'[g] = handler[g]
    BY <1>2, <2>1 DEF UsersSend
  <2>2. CASE (\E s \in Clients : Client(s)) /\ handler'[g] # handler[g]
    <3>1. JustStarted(t) /\ t.does # "agent_message"
      BY <1>2, <2>2, ClientStarts
    <3>2. QED
      BY <3>1 DEF JustStarted
  <2>3. CASE (\E c \in Convs : Agent(c)) /\ handler'[g] # handler[g]
    BY <1>2, <2>3, AgentStartsItsOwn
  <2>4. CASE Query(g)
    <3>1. PICK v \in Handler : v = handler[g]
      BY <1>2, <2>4, QueryEffect
    <3>2. t.awaits = v.awaits /\ t.message = v.message /\ t.does = v.does
      BY <1>2, <2>4, <3>1, QueryEffect
    <3>3. QED
      BY <1>2, <3>1, <3>2 DEF UsersSend
  <2>5. CASE Resume(g) /\ handler'[g] # handler[g]
    <3>1. handler[g] # None /\ handler[g].query = "ok"
      BY <2>5 DEF Resume, startChat, sendUserMessage, processAgentMessage
    <3>2. PICK call \in Calls : Call(g, call)
      BY <1>2, <2>5, <3>1, FinishEffect, AbsentAssumption
         DEF Resume, startChat, sendUserMessage, processAgentMessage, Calls
    <3>3. t.does = handler[g].does /\ t.awaits = call
      BY <1>2, <3>1, <3>2, CallEffect
    <3>4. QED
      BY <1>2, <2>5, <3>1, <3>2, <3>3, CallEffect, FinishEffect, AbsentAssumption
         DEF Resume, startChat, sendUserMessage, processAgentMessage, Calls
  <2>6. handler[g] = None \/ handler'[g] = handler[g] \/ Query(g) \/ Resume(g)
    BY <1>2, HandlerStays, FinishEffect, AbsentAssumption DEF QueryFails, Crash
  <2>7. CASE handler[g] = None /\ handler'[g] # handler[g]
    <3>1. ASSUME NEW h \in Handlers, Database(h) \/ Resume(h)
          PROVE  handler'[g] = handler[g]
      <4>1. handler[h] # None
        BY <3>1 DEF Database, Query, QueryFails, Resume, startChat,
                    sendUserMessage, processAgentMessage
      <4>2. CASE Query(h)
        BY <1>2, <2>7, <4>1, <4>2, QueryEffect
      <4>3. CASE QueryFails(h) \/ Resume(h)
        <5>1. Finish(h) \/ \E call \in Calls : Call(h, call)
          BY <4>3 DEF QueryFails, Resume, startChat, sendUserMessage,
                      processAgentMessage, Calls
        <5>2. QED
          BY <1>2, <2>7, <4>1, <5>1, FinishEffect, CallEffect
      <4>4. QED
        BY <3>1, <4>2, <4>3 DEF Database
    <3>2. ~Crash
      BY AbsentAssumption DEF Crash
    <3>3. QED
      BY <1>2, <2>2, <2>3, <2>7, <3>1, <3>2 DEF Next, vars
  <2>8. QED
    BY <2>1, <2>4, <2>5, <2>6, <2>7
<1>3. QED
  BY <1>1, <1>2, TypeInvAlways, PTL DEF Spec

\* What is sent is received, by a session that is there.
LEMMA SendToAgentAdds ==
  ASSUME TypeOK, NEW c \in Convs, NEW q \in Payload, sendToAgent(c, q),
         agent'[c] # None
  PROVE  agent[c] # None /\ agent'[c].received = agent[c].received \cup {q}
<1>1. agent[c] # None
  BY DEF sendToAgent
<1>2. agent[c] \in AgentSession
  BY <1>1 DEF TypeOK
<1>3. agent'[c].received = agent[c].received \cup {q}
  BY <1>1, <1>2 DEF sendToAgent, TypeOK, AgentSession
<1>4. QED
  BY <1>1, <1>3

\* A handler that is to tell the agent a message does it before it is gone.
LEMMA TellsOrToldIt ==
  ASSUME ~DbMayFail, TypeInv, LastWordOrder, [Next]_vars,
         NEW c \in Convs, agent'[c] # None, NEW i \in DOMAIN messages[c],
         ToBeHeard(c, i)
  PROVE  Heard(c, i)' \/ ToBeHeard(c, i)'
<1>1. PICK h \in Handlers : \E t \in Handler : handler[h] = t /\ Tells(t, c, i)
  BY DEF ToBeHeard
<1>2. PICK t \in Handler : handler[h] = t /\ Tells(t, c, i)
  BY <1>1
<1>3. t # None /\ t.conv = c
  BY <1>2, AbsentAssumption DEF Tells
<1>4. /\ i \in DOMAIN messages'[c] /\ messages'[c][i] = messages[c][i]
      /\ Len(messages'[c]) \in Nat /\ i <= Len(messages'[c])
  <2>1. i \in DOMAIN messages'[c] /\ messages'[c][i] = messages[c][i]
        /\ Len(messages'[c]) \in Nat
    BY MessagesGrow
  <2>2. messages[c] \in Seq(Message) /\ Len(messages[c]) <= Len(messages'[c])
        /\ Len(messages[c]) \in Nat
    BY MessagesGrow DEF TypeInv, TypeOK
  <2>3. i \in Nat /\ i <= Len(messages[c])
    BY <2>2
  <2>4. QED
    BY <2>1, <2>2, <2>3
<1>5. ASSUME NEW u \in Handler, handler'[h] = u, Tells(u, c, i)'
      PROVE  ToBeHeard(c, i)'
  BY <1>5 DEF ToBeHeard
<1>6. CASE handler'[h] = handler[h]
  <2>1. Tells(t, c, i)'
    BY <1>2, <1>4 DEF Tells
  <2>2. QED
    BY <1>2, <1>5, <1>6, <2>1
<1>7. CASE Query(h)
  <2>1. PICK u \in Handler : u = handler'[h]
    BY <1>7, QueryEffect
  <2>2. t.query = "issued"
    BY <1>2, <1>7 DEF Query
  <2>3. t.awaits = "findByIdWithMessages"
    BY <1>2, <2>2 DEF Tells
  <2>4. u.conv = c /\ u.awaits = "findByIdWithMessages"
    BY <1>2, <1>3, <1>7, <2>1, <2>3, QueryEffect, NoneAssumption
  <2>5. u.history = Len(messages'[c])
    BY <1>2, <1>7, <2>1, <2>3, <2>4, QueryReads
  <2>6. u.history >= i
    <3>1. i \in Nat
      BY DEF TypeInv, TypeOK
    <3>2. QED
      BY <1>4, <2>5, <3>1
  <2>7. Tells(u, c, i)'
    BY <2>4, <2>6 DEF Tells
  <2>8. QED
    BY <1>5, <2>1, <2>7
<1>8. CASE Resume(h)
  <2>1. t.query = "ok" /\ t.history \in Nat /\ t.message.id \in Nat
    BY <1>2, <1>3, <1>8, Resumed DEF Resume, startChat, sendUserMessage, processAgentMessage
  <2> DEFINE init == [type |-> "init", n |-> t.history]
             message == [type |-> "message", n |-> t.message.id]
  <2>2. init \in Payload /\ message \in Payload
    BY <2>1 DEF Payload
  <2>3. CASE t.awaits = "findByIdWithMessages"
    <3>1. t.does # "agent_message"
      BY <1>2, <2>3 DEF LastWordOrder, AgentMessageOrder
    <3>2. sendToAgent(c, init)
      BY <1>2, <1>3, <1>8, <2>3, <3>1
         DEF Resume, startChat, sendUserMessage, processAgentMessage
    <3>3. init \in agent'[c].received
      BY <2>2, <3>2, SendToAgentAdds DEF TypeInv
    <3>4. init.type = "init" /\ init.n >= i
      BY <1>2, <2>1, <2>3 DEF Tells
    <3> HIDE DEF init
    <3>5. QED
      BY <3>3, <3>4 DEF Heard
  <2>4. CASE t.awaits = "createMessage"
    <3>1. t.does = "send_message" /\ t.message.id = messages[c][i].id
      BY <1>2, <2>4 DEF Tells
    <3>2. sendToAgent(c, message)
      BY <1>2, <1>3, <1>8, <2>4, <3>1
         DEF Resume, startChat, sendUserMessage, processAgentMessage
    <3>3. message \in agent'[c].received
      BY <2>2, <3>2, SendToAgentAdds DEF TypeInv
    <3>4. message.type = "message" /\ message.n = messages'[c][i].id
      BY <1>4, <3>1
    <3> HIDE DEF message
    <3>5. QED
      BY <3>3, <3>4 DEF Heard
  <2>5. QED
    BY <1>2, <2>3, <2>4 DEF Tells
<1>9. ~QueryFails(h) /\ ~Crash
  BY DEF QueryFails, Crash
<1>10. QED
  BY <1>2, <1>3, <1>6, <1>7, <1>8, <1>9, HandlerStays

LEMMA HeardKept ==
  ASSUME TypeInv, LastWordOrder, UsersSend, HeardInv, [Next]_vars
  PROVE  HeardInv'
<1> SUFFICES ASSUME ~DbMayFail, NEW c \in Convs, agent'[c] # None,
                    NEW i \in DOMAIN messages'[c], messages'[c][i].from = "user"
             PROVE  Heard(c, i)' \/ ToBeHeard(c, i)'
  BY DEF HeardInv
\* The message has just been stored.
<1>1. ASSUME NEW k \in Handlers, Query(k), handler[k].awaits = "createMessage",
             c = handler[k].conv, messages'[c][i] = handler[k].message
      PROVE  ToBeHeard(c, i)'
  <2>1. PICK v \in Handler : v = handler[k]
    BY <1>1, QueryEffect
  <2>2. v.does = "send_message"
    BY <1>1, <2>1 DEF UsersSend
  <2>3. PICK u \in Handler : u = handler'[k]
    BY <1>1, QueryEffect
  <2>4. /\ u.conv = c /\ u.awaits = "createMessage" /\ u.query = "ok"
        /\ u.does = "send_message" /\ u.message = messages'[c][i]
    BY <1>1, <2>1, <2>2, <2>3, QueryEffect, NoneAssumption
  <2>5. Tells(u, c, i)'
    BY <2>4 DEF Tells
  <2>6. QED
    BY <2>3, <2>5 DEF ToBeHeard
\* The session has just been opened, or opened again.
<1>2. ASSUME NEW h \in Handlers, NEW t \in Handler, handler[h] = t, t.conv = c,
             Call(h, "findByIdWithMessages")
      PROVE  ToBeHeard(c, i)'
  <2>1. handler[h] # None
    BY <1>2, AbsentAssumption
  <2>2. PICK u \in Handler : u = handler'[h]
    BY <1>2, <2>1, CallEffect DEF Calls
  <2>3. u.conv = c /\ u.awaits = "findByIdWithMessages" /\ u.query = "issued"
    BY <1>2, <2>1, <2>2, CallEffect DEF Calls
  <2>4. Tells(u, c, i)'
    BY <2>3 DEF Tells
  <2>5. QED
    BY <2>2, <2>4 DEF ToBeHeard
\* The session goes on.
<1>3. ASSUME i \in DOMAIN messages[c], messages'[c][i] = messages[c][i],
             agent[c] # None, agent[c].received \subseteq agent'[c].received
      PROVE  Heard(c, i)' \/ ToBeHeard(c, i)'
  <2>1. Heard(c, i) \/ ToBeHeard(c, i)
    BY <1>3 DEF HeardInv
  <2>2. CASE Heard(c, i)
    BY <1>3, <2>2 DEF Heard
  <2>3. CASE ToBeHeard(c, i)
    BY <1>3, <2>3, TellsOrToldIt
  <2>4. QED
    BY <2>1, <2>2, <2>3
<1>4. ASSUME i \in DOMAIN messages[c], messages'[c][i] = messages[c][i]
      PROVE  Heard(c, i)' \/ ToBeHeard(c, i)'
  <2>1. CASE agent'[c] = agent[c]
    BY <1>3, <1>4, <2>1
  <2>2. ASSUME NEW q \in Payload, sendToAgent(c, q)
        PROVE  Heard(c, i)' \/ ToBeHeard(c, i)'
    BY <1>3, <1>4, <2>2, SendToAgentAdds DEF TypeInv
  <2>3. ASSUME NEW h \in Handlers, NEW t \in Handler, handler[h] = t, t.conv = c,
               openSession(c, t.client), Call(h, "findByIdWithMessages")
        PROVE  Heard(c, i)' \/ ToBeHeard(c, i)'
    BY <1>2, <2>3
  <2>4. \/ \E h \in Handlers : \E t \in Handler :
             /\ handler[h] = t /\ t.conv = c
             /\ openSession(c, t.client)
             /\ Call(h, "findByIdWithMessages")
        \/ \E q \in Payload : sendToAgent(c, q)
        \/ agent'[c] = agent[c]
    BY SessionSteps
  <2>5. QED
    BY <2>1, <2>2, <2>3, <2>4
<1>5. \/ i \in DOMAIN messages[c] /\ messages'[c][i] = messages[c][i]
      \/ \E k \in Handlers :
           /\ Query(k)
           /\ handler[k].awaits = "createMessage"
           /\ c = handler[k].conv
           /\ messages'[c][i] = handler[k].message
  BY SavingSteps
<1>6. QED
  BY <1>1, <1>4, <1>5

\* Whatever overlapped, whoever left and whenever a session was given up: with no
\* call at work on its conversation, the agent of a session has heard all the
\* user's messages that are stored, unless queries may fail.
THEOREM NothingUnheardAlways == Spec => []NothingUnheard
<1>1. Init => HeardInv
  BY DEF Init, HeardInv
<1>2. TypeInv /\ LastWordOrder /\ UsersSend /\ HeardInv /\ [Next]_vars => HeardInv'
  BY HeardKept
<1>3. HeardInv => NothingUnheard
  <2> SUFFICES ASSUME HeardInv, ~DbMayFail, NEW c \in Convs, agent[c] # None,
                      \A h \in Handlers : handler[h] # None => handler[h].conv # c,
                      NEW i \in DOMAIN messages[c], messages[c][i].from = "user"
               PROVE  Heard(c, i)
    BY DEF NothingUnheard
  <2>1. ~ToBeHeard(c, i)
    BY AbsentAssumption DEF ToBeHeard, Tells
  <2>2. QED
    BY <2>1 DEF HeardInv
<1>4. QED
  BY <1>1, <1>2, <1>3, TypeInvAlways, LastWordOrderAlways, UsersSendAlways, PTL DEF Spec
-----------------------------------------------------------------------------
(* Who owns a session. *)

\* The calls of clients that are at work come from clients that are there.
Staying ==
  \A h \in Handlers : \A t \in Handler :
    handler[h] = t /\ ByClient(t) => t.client \in online

\* A client calls for one conversation, which no other client calls for.
OneToOne(Pairs) ==
  \A p, q \in Pairs : p[1] = q[1] <=> p[2] = q[2]
KeepsToItsOwn(Pairs) ==
  \A h \in Handlers : \A t \in Handler :
    handler[h] = t /\ ByClient(t) /\ t.conv # None => <<t.client, t.conv>> \in Pairs

\* The bindings are among these pairs, a client that sends is bound, and so is the
\* client of every session, unless its start_chat is about to bind it.
Owned(Pairs) ==
  /\ \A s \in Clients : conversationBySocket[s] # None => <<s, conversationBySocket[s]>> \in Pairs
  /\ \A c \in Convs : socketByConversation[c] # None => <<socketByConversation[c], c>> \in Pairs
  /\ \A h \in Handlers : \A t \in Handler : handler[h] = t /\ t.does = "send_message" =>
       t.conv # None /\ conversationBySocket[t.client] = t.conv
  /\ \A c \in activeSessions :
       \/ \E s \in online : conversationBySocket[s] = c
       \/ \E h \in Handlers : \E t \in Handler :
            /\ handler[h] = t /\ t.conv = c /\ t.does = "start_chat"
            /\ t.awaits = "findByIdWithMessages"

\* A handler is at work for one client from its first step to its last.
LEMMA ClientKept ==
  ASSUME TypeInv, NEW h \in Handlers,
         Query(h) \/ (handler[h] # None /\ \E call \in Calls : Call(h, call))
  PROVE  handler'[h].client = handler[h].client
<1>1. handler[h] \in Handler /\ handler \in [Handlers -> Handler \cup {None}]
  BY QueryEffect DEF TypeInv, TypeOK
<1>2. CASE Query(h)
  <2> DEFINE Answers(u) == handler' = [handler EXCEPT ![h] = [u EXCEPT !.query = "ok"]]
  <2>1. ASSUME NEW u \in Handler, u.client = handler[h].client, Answers(u)
        PROVE  handler'[h].client = handler[h].client
    BY <1>1, <2>1 DEF Handler
  <2>2. CASE handler[h].awaits = "createConversation"
    <3>1. PICK c \in Convs : Answers([handler[h] EXCEPT !.conv = c, !.found = "active"])
      BY <1>2, <2>2 DEF Query
    <3>2. /\ [handler[h] EXCEPT !.conv = c, !.found = "active"] \in Handler
          /\ [handler[h] EXCEPT !.conv = c, !.found = "active"].client = handler[h].client
      BY <1>1 DEF Handler, Statuses
    <3>3. QED
      BY <2>1, <3>1, <3>2
  <2>3. CASE handler[h].awaits = "findById"
    BY <1>1, <1>2, <2>3 DEF Query, Handler
  <2>4. CASE handler[h].awaits = "findByIdWithMessages"
    BY <1>1, <1>2, <2>4 DEF Query, Handler
  <2>5. CASE handler[h].awaits \in {"createMessage", "updateStatus"}
    <3>1. Answers(handler[h])
      BY <1>2, <2>5 DEF Query
    <3>2. QED
      BY <1>1, <2>1, <3>1
  <2>6. QED
    BY <1>1, <2>2, <2>3, <2>4, <2>5 DEF Handler, Calls
<1>3. ASSUME NEW call \in Calls, Call(h, call)
      PROVE  handler'[h].client = handler[h].client
  BY <1>1, <1>3 DEF Call, Handler
<1>4. QED
  BY <1>2, <1>3

\* Binding a client to its own conversation displaces nobody.
LEMMA BindsItsOwn ==
  ASSUME TypeOK, NEW Pairs, OneToOne(Pairs), Owned(Pairs),
         NEW s \in Clients, NEW c \in Convs, <<s, c>> \in Pairs, bindSocket(s, c)
  PROVE  /\ conversationBySocket'[s] = c
         /\ \A t \in Clients : t # s => conversationBySocket'[t] = conversationBySocket[t]
         /\ socketByConversation'[c] = s
         /\ \A d \in Convs : d # c => socketByConversation'[d] = socketByConversation[d]
         /\ conversationBySocket[s] \in {None, c}
<1>1. ASSUME NEW t \in Clients, t = socketByConversation[c]
      PROVE  t = s
  <2>1. <<t, c>> \in Pairs
    BY <1>1, NoneAssumption DEF Owned
  <2>2. QED
    BY <2>1 DEF OneToOne
<1>2. conversationBySocket[s] # None => conversationBySocket[s] = c
  BY DEF Owned, OneToOne
<1>3. QED
  BY <1>1, <1>2 DEF bindSocket, TypeOK

\* A call that sends binds its client as it starts.
LEMMA SendStarts ==
  ASSUME TypeInv, NEW s \in Clients, Client(s), NEW g \in Handlers,
         handler'[g] # handler[g], handler'[g].does = "send_message"
  PROVE  \E c \in Convs : /\ bindSocket(s, c)
                          /\ handler'[g].client = s /\ handler'[g].conv = c
<1>0. handler \in [Handlers -> Handler \cup {None}]
  BY DEF TypeInv, TypeOK
<1>1. ~onStartChatNew(s)
  <2> DEFINE t == NewHandler("start_chat", s, None, NoMessage, "createConversation")
  <2>1. t.does = "start_chat"
    BY DEF NewHandler
  <2>2. onStartChatNew(s) => \E h \in Idle : handler' = [handler EXCEPT ![h] = t]
    BY DEF onStartChatNew
  <2> HIDE DEF t
  <2>3. QED
    BY <1>0, <2>1, <2>2
<1>2. ASSUME NEW c \in Convs, onStartChat(s, c)
      PROVE  FALSE
  <2> DEFINE t == NewHandler("start_chat", s, c, NoMessage, "findById")
  <2>1. t.does = "start_chat"
    BY DEF NewHandler
  <2>2. PICK h \in Idle : handler' = [handler EXCEPT ![h] = t]
    BY <1>2 DEF onStartChat
  <2> HIDE DEF t
  <2>3. QED
    BY <1>0, <2>1, <2>2
<1>3. ASSUME NEW c \in Convs, onSendMessage(s, c)
      PROVE  bindSocket(s, c) /\ handler'[g].client = s /\ handler'[g].conv = c
  <2> DEFINE m == [id |-> lastMessage', from |-> "user", isFinal |-> FALSE]
             t == NewHandler("send_message", s, c, m, "findById")
  <2>1. t.client = s /\ t.conv = c
    BY DEF NewHandler
  <2>2. PICK h \in Idle : handler' = [handler EXCEPT ![h] = t]
    BY <1>3 DEF onSendMessage
  <2> HIDE DEF t
  <2>3. QED
    BY <1>0, <1>3, <2>1, <2>2 DEF onSendMessage
<1>4. QED
  BY <1>1, <1>2, <1>3 DEF Client, handleConnection, handleDisconnect

\* What becomes of the bindings, while each client keeps to its own conversation.
LEMMA BindingSteps ==
  ASSUME TypeInv, TypeInv', NEW Pairs, KeepsToItsOwn(Pairs), KeepsToItsOwn(Pairs)', [Next]_vars
  PROVE  \/ /\ UNCHANGED bindings
            /\ \/ online \subseteq online'
               \/ \E s \in Clients : /\ conversationBySocket[s] = None
                                     /\ online' = online \ {s}
         \/ /\ online' = online
            /\ \E s \in Clients, c \in Convs : <<s, c>> \in Pairs /\ bindSocket(s, c)
         \/ \E s \in Clients :
              /\ online' = online \ {s}
              /\ conversationBySocket[s] # None
              /\ conversationBySocket' = [conversationBySocket EXCEPT ![s] = None]
              /\ socketByConversation' =
                   [socketByConversation EXCEPT ![conversationBySocket[s]] = None]
              /\ closeSession(conversationBySocket[s])
         \/ Crash
<1> USE DEF bindings
<1>1. ASSUME NEW s \in Clients, NEW c \in Convs, onSendMessage(s, c)
      PROVE  <<s, c>> \in Pairs /\ bindSocket(s, c) /\ online' = online
  <2> DEFINE m == [id |-> lastMessage', from |-> "user", isFinal |-> FALSE]
             t == NewHandler("send_message", s, c, m, "findById")
  <2>1. PICK h \in Idle : handler' = [handler EXCEPT ![h] = t]
    BY <1>1 DEF onSendMessage
  <2>2. t.client = s /\ t.conv = c /\ t.does = "send_message"
    BY DEF NewHandler
  <2>3. lastMessage' \in Nat
    BY DEF TypeInv, TypeOK
  <2>4. m \in Message
    BY <2>3 DEF Message
  <2> HIDE DEF m
  <2>5. t \in Handler
    BY <2>4, NewHandlerType DEF Calls
  <2> HIDE DEF t
  <2>6. h \in Handlers /\ handler'[h] = t
    BY <2>1 DEF Idle, TypeInv, TypeOK
  <2>7. <<s, c>> \in Pairs
    BY <2>2, <2>5, <2>6, NoneAssumption DEF KeepsToItsOwn, ByClient
  <2>8. QED
    BY <1>1, <2>7 DEF onSendMessage
<1>2. ASSUME NEW s \in Clients, Client(s)
      PROVE  \/ /\ UNCHANGED bindings
                /\ \/ online \subseteq online'
                   \/ conversationBySocket[s] = None /\ online' = online \ {s}
             \/ /\ online' = online
                /\ \E c \in Convs : <<s, c>> \in Pairs /\ bindSocket(s, c)
             \/ /\ online' = online \ {s}
                /\ conversationBySocket[s] # None
                /\ conversationBySocket' = [conversationBySocket EXCEPT ![s] = None]
                /\ socketByConversation' =
                     [socketByConversation EXCEPT ![conversationBySocket[s]] = None]
                /\ closeSession(conversationBySocket[s])
  <2>1. CASE handleConnection(s)
    BY <2>1 DEF handleConnection
  <2>2. CASE handleDisconnect(s)
    BY <2>2 DEF handleDisconnect
  <2>3. CASE onStartChatNew(s)
    BY <2>3 DEF onStartChatNew
  <2>4. CASE \E c \in Convs : onStartChat(s, c)
    BY <2>4 DEF onStartChat
  <2>5. CASE \E c \in Convs : onSendMessage(s, c)
    BY <1>1, <2>5
  <2>6. QED
    BY <1>2, <2>1, <2>2, <2>3, <2>4, <2>5 DEF Client
<1>3. ASSUME NEW h \in Handlers, startChat(h)
      PROVE  \/ UNCHANGED bindings
             \/ \E s \in Clients, c \in Convs : <<s, c>> \in Pairs /\ bindSocket(s, c)
  <2>1. PICK t \in Handler : t = handler[h]
    BY <1>3, Resumed DEF startChat
  <2>2. t.client \in Clients /\ t.conv \in Convs
    BY <1>3, <2>1, Resumed DEF startChat
  <2>3. t.does = "start_chat"
    BY <1>3, <2>1 DEF startChat
  <2>4. <<t.client, t.conv>> \in Pairs
    BY <2>1, <2>2, <2>3, NoneAssumption DEF KeepsToItsOwn, ByClient
  <2>5. UNCHANGED bindings \/ bindSocket(t.client, t.conv)
    BY <1>3, <2>1 DEF startChat
  <2>6. QED
    BY <2>2, <2>4, <2>5
<1>4. ASSUME NEW h \in Handlers, Database(h) \/ Resume(h)
      PROVE  /\ online' = online
             /\ UNCHANGED bindings \/ startChat(h)
  BY <1>4 DEF Database, Query, QueryFails, Resume, startChat, sendUserMessage,
              processAgentMessage
<1>5. ASSUME NEW c \in Convs, Agent(c)
      PROVE  online' = online /\ UNCHANGED bindings
  BY <1>5 DEF Agent, AgentGivesUp, handleAgentMessage
<1>6. QED
  BY <1>2, <1>3, <1>4, <1>5 DEF Next, vars

\* A step keeps every session with its owner.
LEMMA OwnedKept ==
  ASSUME ~DbMayFail, TypeInv, TypeInv', [Next]_vars,
         NEW Pairs, OneToOne(Pairs), KeepsToItsOwn(Pairs), KeepsToItsOwn(Pairs)',
         Staying, Staying', Owned(Pairs)
  PROVE  Owned(Pairs)'
<1> USE DEF bindings
<1> DEFINE Same == UNCHANGED bindings
           Binds(s, c) == <<s, c>> \in Pairs /\ bindSocket(s, c)
           Leaves(s) == /\ online' = online \ {s}
                        /\ conversationBySocket[s] # None
                        /\ conversationBySocket' = [conversationBySocket EXCEPT ![s] = None]
                        /\ socketByConversation' =
                             [socketByConversation EXCEPT ![conversationBySocket[s]] = None]
                        /\ closeSession(conversationBySocket[s])
           Starting(h, c) == \E t \in Handler :
                               /\ handler[h] = t /\ t.conv = c /\ t.does = "start_chat"
                               /\ t.awaits = "findByIdWithMessages"
<1>1. \/ Same
      \/ online' = online /\ \E s \in Clients, c \in Convs : Binds(s, c)
      \/ \E s \in Clients : Leaves(s)
      \/ Crash
  BY BindingSteps
<1>2. Same => \/ online \subseteq online'
              \/ \E s \in Clients : conversationBySocket[s] = None /\ online' = online \ {s}
              \/ online' = online /\ \E s \in Clients, c \in Convs : Binds(s, c)
              \/ \E s \in Clients : Leaves(s)
              \/ Crash
  BY BindingSteps
<1>3. ASSUME NEW s \in Clients, NEW c \in Convs, Binds(s, c)
      PROVE  /\ conversationBySocket'[s] = c
             /\ \A t \in Clients : t # s => conversationBySocket'[t] = conversationBySocket[t]
             /\ socketByConversation'[c] = s
             /\ \A d \in Convs : d # c => socketByConversation'[d] = socketByConversation[d]
             /\ conversationBySocket[s] \in {None, c}
  BY <1>3, BindsItsOwn DEF TypeInv
<1>4. ASSUME NEW s \in Clients, Leaves(s)
      PROVE  /\ conversationBySocket'[s] = None
             /\ \A t \in Clients : t # s => conversationBySocket'[t] = conversationBySocket[t]
             /\ \A d \in Convs : socketByConversation'[d] \in {None, socketByConversation[d]}
             /\ conversationBySocket[s] \in Convs
             /\ conversationBySocket[s] \notin activeSessions'
             /\ activeSessions' \subseteq activeSessions
  BY <1>4 DEF TypeInv, TypeOK, closeSession
<1>5. ASSUME NEW s \in Clients, conversationBySocket'[s] # None
      PROVE  <<s, conversationBySocket'[s]>> \in Pairs
  <2>1. CASE Same
    BY <1>5, <2>1 DEF Owned
  <2>2. ASSUME NEW t \in Clients, NEW c \in Convs, Binds(t, c)
        PROVE  <<s, conversationBySocket'[s]>> \in Pairs
    BY <1>3, <1>5, <2>2 DEF Owned
  <2>3. ASSUME NEW t \in Clients, Leaves(t)
        PROVE  <<s, conversationBySocket'[s]>> \in Pairs
    BY <1>4, <1>5, <2>3 DEF Owned
  <2>4. CASE Crash
    BY <1>5, <2>4 DEF Crash
  <2> HIDE DEF Same, Binds, Leaves
  <2>5. QED
    BY <1>1, <2>1, <2>2, <2>3, <2>4
<1>6. ASSUME NEW c \in Convs, socketByConversation'[c] # None
      PROVE  <<socketByConversation'[c], c>> \in Pairs
  <2>1. CASE Same
    BY <1>6, <2>1 DEF Owned
  <2>2. ASSUME NEW t \in Clients, NEW d \in Convs, Binds(t, d)
        PROVE  <<socketByConversation'[c], c>> \in Pairs
    BY <1>3, <1>6, <2>2 DEF Owned
  <2>3. ASSUME NEW t \in Clients, Leaves(t)
        PROVE  <<socketByConversation'[c], c>> \in Pairs
    BY <1>4, <1>6, <2>3 DEF Owned
  <2>4. CASE Crash
    BY <1>6, <2>4 DEF Crash
  <2> HIDE DEF Same, Binds, Leaves
  <2>5. QED
    BY <1>1, <2>1, <2>2, <2>3, <2>4
\* A client that is bound stays bound while it stays.
<1>7. ASSUME NEW s \in Clients, NEW c \in Convs, conversationBySocket[s] = c, s \in online',
             activeSessions' # {} \/ \E h \in Handlers : handler'[h] # None
      PROVE  conversationBySocket'[s] = c
  <2>0. c # None
    BY NoneAssumption
  <2>1. CASE Same
    BY <1>7, <2>1
  <2>2. ASSUME NEW t \in Clients, NEW d \in Convs, Binds(t, d)
        PROVE  conversationBySocket'[s] = c
    BY <1>3, <1>7, <2>0, <2>2
  <2>3. ASSUME NEW t \in Clients, Leaves(t)
        PROVE  conversationBySocket'[s] = c
    BY <1>4, <1>7, <2>3
  <2>4. CASE Crash
    BY <1>7, <2>4 DEF Crash
  <2> HIDE DEF Same, Binds, Leaves
  <2>5. QED
    BY <1>1, <2>1, <2>2, <2>3, <2>4
<1>8. \A t \in Handler : t # None
  BY AbsentAssumption
<1>9. ASSUME NEW h \in Handlers, NEW t \in Handler, handler'[h] = t, t.does = "send_message"
      PROVE  t.conv # None /\ conversationBySocket'[t.client] = t.conv
  <2>0. t.client \in Clients /\ t.client \in online'
    BY <1>9 DEF Handler, Staying, ByClient
  <2>1. ASSUME NEW v \in Handler, handler[h] = v, v.does = "send_message",
               v.client = t.client, v.conv # None => t.conv = v.conv
        PROVE  t.conv # None /\ conversationBySocket'[t.client] = t.conv
    <3>1. v.conv # None /\ conversationBySocket[v.client] = v.conv
      BY <2>1 DEF Owned
    <3>2. v.conv \in Convs
      BY <3>1 DEF Handler
    <3>3. QED
      BY <1>7, <1>8, <1>9, <2>0, <2>1, <3>1, <3>2
  <2>2. CASE handler'[h] = handler[h]
    BY <1>9, <2>1, <2>2
  <2>3. CASE Query(h)
    <3>1. PICK v \in Handler : v = handler[h]
      BY <2>3, QueryEffect
    <3>2. v.does = "send_message" /\ v.client = t.client /\ (v.conv # None => t.conv = v.conv)
      BY <1>9, <2>3, <3>1, QueryEffect, ClientKept
    <3>3. QED
      BY <2>1, <3>1, <3>2
  <2>4. ASSUME Resume(h), NEW call \in Calls, Call(h, call)
        PROVE  t.conv # None /\ conversationBySocket'[t.client] = t.conv
    <3>1. handler[h] # None
      BY <2>4 DEF Resume, startChat, sendUserMessage, processAgentMessage
    <3>2. PICK v \in Handler : v = handler[h]
      BY <3>1 DEF TypeInv, TypeOK
    <3>3. v.does = "send_message" /\ v.client = t.client /\ t.conv = v.conv
      BY <1>9, <2>4, <3>1, <3>2, CallEffect, ClientKept
    <3>4. QED
      BY <2>1, <3>2, <3>3
  <2>5. ASSUME NEW s \in Clients, Client(s), handler'[h] # handler[h]
        PROVE  t.conv # None /\ conversationBySocket'[t.client] = t.conv
    <3>1. PICK c \in Convs : bindSocket(s, c) /\ t.client = s /\ t.conv = c
      BY <1>9, <2>5, SendStarts
    <3>2. conversationBySocket'[s] = c
      BY <3>1 DEF bindSocket
    <3>3. QED
      BY <3>1, <3>2, NoneAssumption
  <2>6. ASSUME NEW c \in Convs, Agent(c), handler'[h] # handler[h]
        PROVE  FALSE
    BY <1>9, <2>6, AgentStartsItsOwn
  <2>7. ASSUME NEW g \in Handlers, Resume(g), handler'[h] # handler[h]
        PROVE  g = h /\ \E call \in Calls : Call(h, call)
    <3>1. Finish(g) \/ \E call \in Calls : Call(g, call)
      BY <2>7 DEF Resume, startChat, sendUserMessage, processAgentMessage, Calls
    <3>2. handler[g] # None
      BY <2>7 DEF Resume, startChat, sendUserMessage, processAgentMessage
    <3>3. QED
      BY <1>8, <1>9, <2>7, <3>1, <3>2, FinishEffect, CallEffect
  <2>8. ASSUME NEW g \in Handlers, Database(g), handler'[h] # handler[h]
        PROVE  g = h /\ Query(h)
    BY <2>8, QueryEffect DEF Database, QueryFails
  <2>9. ~Crash
    BY <1>8, <1>9 DEF Crash
  <2>10. QED
    BY <2>2, <2>3, <2>4, <2>5, <2>6, <2>7, <2>8, <2>9 DEF Next, vars
\* A session that is new has been opened by a handler.
<1>10. ASSUME NEW c \in activeSessions', c \notin activeSessions
       PROVE  \E h \in Handlers : \E t \in Handler :
                /\ Resume(h) /\ handler[h] = t /\ t.conv = c /\ t.client \in Clients
                /\ ByClient(t) /\ Call(h, "findByIdWithMessages")
  <2>1. PICK h \in Handlers : Resume(h)
    <3>1. ASSUME NEW s \in Clients, Client(s) PROVE activeSessions' \subseteq activeSessions
      BY <3>1 DEF Client, handleConnection, handleDisconnect, onStartChatNew, onStartChat,
                  onSendMessage, closeSession, sessions
    <3>2. ASSUME NEW d \in Convs, Agent(d) PROVE activeSessions' = activeSessions
      BY <3>2 DEF Agent, AgentGivesUp, handleAgentMessage, sessions
    <3>3. ASSUME NEW h \in Handlers, Database(h) PROVE activeSessions' = activeSessions
      BY <3>3 DEF Database, Query, QueryFails, sessions
    <3>4. ~Crash
      BY DEF Crash
    <3>5. QED
      BY <1>10, <3>1, <3>2, <3>3, <3>4 DEF Next, vars
  <2>2. handler[h] # None /\ handler[h].query = "ok"
    BY <2>1 DEF Resume, startChat, sendUserMessage, processAgentMessage
  <2>3. PICK t \in Handler : t = handler[h]
    BY <2>2, Resumed
  <2>4. t.conv \in Convs /\ t.client \in Clients
    BY <2>2, <2>3, Resumed
  <2> DEFINE init == [type |-> "init", n |-> t.history]
             message == [type |-> "message", n |-> t.message.id]
  <2>5. \/ UNCHANGED sessions
        \/ /\ ByClient(t)
           /\ openSession(t.conv, t.client)
           /\ Call(h, "findByIdWithMessages")
        \/ closeSession(t.conv)
        \/ sendToAgent(t.conv, init)
        \/ sendToAgent(t.conv, message)
    BY <2>1, <2>3, GoesOn
  <2> HIDE DEF init, message
  <2>6. /\ ByClient(t)
        /\ openSession(t.conv, t.client)
        /\ Call(h, "findByIdWithMessages")
    BY <1>10, <2>5 DEF sessions, closeSession, sendToAgent
  <2>7. t.conv = c
    BY <1>10, <2>6 DEF openSession
  <2>8. QED
    BY <2>1, <2>3, <2>4, <2>6, <2>7
<1>11. \A s \in Clients, c \in Convs :
         conversationBySocket[s] = c /\ s \in online' /\ activeSessions' # {}
           => conversationBySocket'[s] = c
  BY <1>7
<1> HIDE DEF Same, Binds, Leaves
\* Its opener is about to bind, or is bound.
<1>12. ASSUME NEW c \in activeSessions', c \notin activeSessions
       PROVE  \/ \E s \in online' : conversationBySocket'[s] = c
              \/ \E h \in Handlers : Starting(h, c)'
  <2>1. PICK h \in Handlers : \E t \in Handler :
                /\ Resume(h) /\ handler[h] = t /\ t.conv = c /\ t.client \in Clients
                /\ ByClient(t) /\ Call(h, "findByIdWithMessages")
    BY <1>10, <1>12
  <2>2. PICK t \in Handler :
                /\ Resume(h) /\ handler[h] = t /\ t.conv = c /\ t.client \in Clients
                /\ ByClient(t) /\ Call(h, "findByIdWithMessages")
    BY <2>1
  <2>3. handler[h] # None
    BY <1>8, <2>2
  <2>4. /\ handler'[h] \in Handler /\ handler'[h].conv = c
        /\ handler'[h].does = t.does
        /\ handler'[h].awaits = "findByIdWithMessages"
    BY <2>2, <2>3, CallEffect DEF Calls
  <2>5. CASE t.does = "start_chat"
    BY <2>4, <2>5
  <2>6. CASE t.does = "send_message"
    <3>1. t.client \in online
      BY <2>2 DEF Staying
    <3>2. online' = online
      BY <2>2 DEF Resume, startChat, sendUserMessage, processAgentMessage
    <3>3. conversationBySocket[t.client] = c
      BY <2>2, <2>6 DEF Owned
    <3>4. c \in Convs
      BY DEF TypeInv, TypeOK
    <3>5. conversationBySocket'[t.client] = c
      BY <1>11, <2>2, <3>1, <3>2, <3>3, <3>4
    <3>6. QED
      BY <3>1, <3>2, <3>5
  <2>7. QED
    BY <2>2, <2>5, <2>6 DEF ByClient
\* An owner that leaves takes the session with it.
<1>13. ASSUME NEW c \in activeSessions', NEW s \in online, conversationBySocket[s] = c
       PROVE  \E t \in online' : conversationBySocket'[t] = c
  <2>0. c \in Convs /\ s \in Clients /\ c # None
    BY NoneAssumption DEF TypeInv, TypeOK
  <2>1. s \in online'
    <3>1. ASSUME NEW t \in Clients, Leaves(t) PROVE s \in online'
      BY <1>4, <1>13, <2>0, <3>1 DEF Leaves
    <3>2. ~Crash
      BY <1>13 DEF Crash
    <3>3. QED
      BY <1>1, <1>2, <1>13, <2>0, <3>1, <3>2 DEF Binds
  <2>2. QED
    BY <1>11, <1>13, <2>0, <2>1
\* The history that start_chat reads is read, and it binds its client.
<1>14. ASSUME NEW c \in activeSessions', NEW h \in Handlers, Starting(h, c)
       PROVE  \/ \E s \in online' : conversationBySocket'[s] = c
              \/ \E g \in Handlers : Starting(g, c)'
  <2>1. PICK t \in Handler :
          /\ handler[h] = t /\ t.conv = c /\ t.does = "start_chat"
          /\ t.awaits = "findByIdWithMessages"
    BY <1>14
  <2>2. t # None /\ handler[h] # None
    BY <1>8, <2>1
  <2>3. ~Crash /\ ~QueryFails(h)
    BY <1>14 DEF Crash, QueryFails
  <2>4. CASE handler'[h] = handler[h]
    BY <2>1, <2>4
  <2>5. CASE Query(h)
    <3>1. c # None
      BY NoneAssumption DEF TypeInv, TypeOK
    <3>2. /\ handler'[h] \in Handler /\ handler'[h].conv = c
          /\ handler'[h].does = "start_chat"
          /\ handler'[h].awaits = "findByIdWithMessages"
      BY <2>1, <2>5, <3>1, QueryEffect
    <3>3. QED
      BY <3>2
  <2>6. CASE Resume(h)
    <3>1. bindSocket(t.client, c) /\ online' = online
      BY <2>1, <2>2, <2>6 DEF Resume, startChat, sendUserMessage, processAgentMessage
    <3>2. t.client \in online
      BY <2>1 DEF Staying, ByClient
    <3>3. conversationBySocket'[t.client] = c
      BY <3>1, <3>2 DEF bindSocket, TypeInv, TypeOK
    <3>4. QED
      BY <3>1, <3>2, <3>3
  <2>7. QED
    BY <2>2, <2>3, <2>4, <2>5, <2>6, HandlerStays
<1>15. ASSUME NEW c \in activeSessions'
       PROVE  \/ \E s \in online' : conversationBySocket'[s] = c
              \/ \E h \in Handlers : Starting(h, c)'
  BY <1>12, <1>13, <1>14 DEF Owned
<1>20. QED
  BY <1>5, <1>6, <1>9, <1>15 DEF Owned

\* A session without an owner has one of three causes: a client that has gone while a
\* call of its own was at work, a second client in the conversation or a second
\* conversation of the client, and a query that fails.  Without them, every session
\* that no handler is at work on belongs to a client that is there.
THEOREM SessionHasOwnerWhileStaying ==
  ASSUME ~DbMayFail, NEW Pairs, OneToOne(Pairs)
  PROVE  Spec /\ []Staying /\ []KeepsToItsOwn(Pairs) => []SessionHasOwner
<1> DEFINE Own == KeepsToItsOwn(Pairs)
           Inv == Owned(Pairs)
<1>1. Init => Inv
  BY AbsentAssumption DEF Init, Owned
<1>2. TypeInv /\ TypeInv' /\ Staying /\ Staying' /\ Own /\ Own' /\ Inv /\ [Next]_vars => Inv'
  BY OwnedKept
<1>3. Inv => SessionHasOwner
  BY AbsentAssumption DEF Owned, SessionHasOwner
<1> HIDE DEF Own, Inv
<1>4. Spec /\ []Staying /\ []Own => []SessionHasOwner
  BY <1>1, <1>2, <1>3, TypeInvAlways, PTL DEF Spec
<1>5. QED
  BY <1>4 DEF Own
=============================================================================
