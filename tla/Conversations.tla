--------------------------- MODULE Conversations ---------------------------
(***************************************************************************)
(* The chat: ConversationsGateway, ConversationsService and the repository *)
(* over the database (src/conversations), with the agent behind            *)
(* IAgentService as the environment.                                       *)
(*                                                                         *)
(* A call of a client, or a message of the agent, starts a handler.  A     *)
(* handler runs without interruption up to its next `await` on the         *)
(* repository; the database then executes the query (Query), and later the *)
(* handler goes on with the answer (Resume).  Between any two of these     *)
(* steps every other handler, client and agent may act: the pool gives     *)
(* each query a connection of its own, so queries end in any order.        *)
(*                                                                         *)
(* A message is its number: agent and user messages are numbered in the    *)
(* order in which they arise.                                              *)
(***************************************************************************)
EXTENDS Naturals, Sequences, FiniteSets, Functions

CONSTANTS
  Clients,         \* socket.io client ids
  Convs,           \* conversation ids
  Handlers,        \* bound: handlers in flight at once
  None,            \* an absent map entry, an idle handler
  MaxMessages,     \* bound: messages that arise, of users and of the agent
  MaxSubscribers,  \* bound: callbacks that start_chat puts on one session
  DbMayFail,       \* a query may fail
  MayCrash,        \* the process may die and be started again
  AgentMayGiveUp   \* the agent service may drop a session on its own
                   \* (AgentWsService when its attempts are exhausted)

ASSUME BoundsAssumption == /\ MaxMessages \in Nat
                           /\ MaxSubscribers \in Nat
ASSUME FlagsAssumption == /\ DbMayFail \in BOOLEAN
                          /\ MayCrash \in BOOLEAN
                          /\ AgentMayGiveUp \in BOOLEAN
ASSUME NoneAssumption == None \notin Clients \cup Convs

VARIABLES
  online,                \* connected clients
  socketByConversation,  \* gateway: conversation -> client
  conversationBySocket,  \* gateway: client -> conversation
  activeSessions,        \* service: conversations with a session, it believes
  agent,                 \* the agent service's sessions
  status,                \* database: Conversation.status, or "absent"
  messages,              \* database: the messages of each conversation
  handler,               \* the handlers in flight
  lastMessage,           \* number of the last message that arose
  shown                  \* history: the agent messages emitted to a client

bindings == <<socketByConversation, conversationBySocket>>
sessions == <<activeSessions, agent>>
database == <<status, messages>>
vars == <<online, socketByConversation, conversationBySocket, activeSessions,
          agent, status, messages, handler, lastMessage, shown>>

Statuses == {"absent", "active", "completed"}
Message == [id : Nat, from : {"user", "agent"}, isFinal : BOOLEAN]

\* What the service sends to the agent: init with the first n messages of the
\* conversation as history, or the message with number n.
Payload == [type : {"init", "message"}, n : Nat]

\* The agent's view of a session: who listens, how the dialogue was opened,
\* and everything it was sent.
AgentSession == [subscribers : Seq(Clients),
                 opening : {"nothing", "init", "message"},
                 received : SUBSET Payload]

\* A handler: what it does and for whom (conv may still be unknown to a start
\* of a new conversation), the repository call it awaits, how far that is, and
\* what it read (found: the status, history: the number of messages).
Calls == {"createConversation", "findById", "findByIdWithMessages",
          "createMessage", "updateStatus"}
Handler ==
  [does : {"start_chat", "send_message", "agent_message"},
   client : Clients, conv : Convs \cup {None}, message : Message,
   awaits : Calls,
   query : {"issued", "ok"},
   found : Statuses, history : Nat]

ASSUME AbsentAssumption == None \notin AgentSession \cup Handler

Ids(c) == {messages[c][i].id : i \in DOMAIN messages[c]}
NoMessage == [id |-> 0, from |-> "user", isFinal |-> FALSE]
Idle == {h \in Handlers : handler[h] = None}

Init == /\ online = {}
        /\ socketByConversation = [c \in Convs |-> None]
        /\ conversationBySocket = [s \in Clients |-> None]
        /\ activeSessions = {}
        /\ agent = [c \in Convs |-> None]
        /\ status = [c \in Convs |-> "absent"]
        /\ messages = [c \in Convs |-> << >>]
        /\ handler = [h \in Handlers |-> None]
        /\ lastMessage = 0
        /\ shown = {}
-----------------------------------------------------------------------------
(* Parts of the handlers. *)

NewHandler(what, s, c, m, call) ==
  [does |-> what, client |-> s, conv |-> c, message |-> m, awaits |-> call,
   query |-> "issued", found |-> "absent", history |-> 0]

\* What the handler read before is used up.
Call(h, call) == handler' = [handler EXCEPT ![h].awaits = call,
                                            ![h].query = "issued",
                                            ![h].found = "absent",
                                            ![h].history = 0]
Finish(h) == handler' = [handler EXCEPT ![h] = None]

\* Mistake: the client's entry gets the client's own id.
bindSocketMixedUp(s, c) ==
  /\ socketByConversation' = [socketByConversation EXCEPT ![c] = s]
  /\ conversationBySocket' = [conversationBySocket EXCEPT ![s] = s]

\* Mistake: the displaced client keeps its binding.
bindSocketKeepingPrevious(s, c) ==
  /\ socketByConversation' = [socketByConversation EXCEPT ![c] = s]
  /\ conversationBySocket' = [conversationBySocket EXCEPT ![s] = c]

\* The displaced client forgets its conversation, whichever that is by now.
bindSocket(s, c) ==
  LET previous == socketByConversation[c]
  IN  /\ socketByConversation' = [socketByConversation EXCEPT ![c] = s]
      /\ conversationBySocket' =
           [t \in Clients |-> CASE t = s -> c
                                [] t # s /\ t = previous -> None
                                [] OTHER -> conversationBySocket[t]]

\* connect on the first call; every call adds a listener.
openSession(c, s) ==
  LET session == IF agent[c] = None
                   THEN [subscribers |-> << >>, opening |-> "nothing",
                         received |-> {}]
                   ELSE agent[c]
      subscribed == [session EXCEPT !.subscribers = Append(@, s)]
  IN  /\ activeSessions' = activeSessions \cup {c}
      /\ agent' = IF c \in activeSessions /\ agent[c] = None
                    THEN agent  \* onMessage finds no session
                    ELSE [agent EXCEPT ![c] = subscribed]

closeSession(c) ==
  /\ activeSessions' = activeSessions \ {c}
  /\ agent' = IF c \in activeSessions THEN [agent EXCEPT ![c] = None]
                                      ELSE agent

\* agent.send: without a session the payload is dropped.
sendToAgent(c, p) ==
  /\ UNCHANGED activeSessions
  /\ IF agent[c] = None
       THEN UNCHANGED agent
       ELSE agent' = [agent EXCEPT ![c].received = @ \cup {p},
                                   ![c].opening = IF @ = "nothing" THEN p.type
                                                                   ELSE @]
-----------------------------------------------------------------------------
(* What clients do.  A socket.io id is never used again: a client comes    *)
(* back only when nothing in the process remembers it.                     *)

Forgotten(s) ==
  /\ conversationBySocket[s] = None
  /\ \A c \in Convs :
       /\ socketByConversation[c] # s
       /\ agent[c] # None => s \notin Range(agent[c].subscribers)
  /\ \A h \in Handlers : handler[h] # None => handler[h].client # s

handleConnection(s) ==
  /\ s \notin online
  /\ Forgotten(s)
  /\ online' = online \cup {s}
  /\ UNCHANGED <<bindings, sessions, database, handler, lastMessage, shown>>

handleDisconnect(s) ==
  /\ s \in online
  /\ online' = online \ {s}
  /\ LET c == conversationBySocket[s]
     IN  IF c = None
           THEN UNCHANGED <<bindings, sessions>>
           ELSE /\ conversationBySocket' =
                     [conversationBySocket EXCEPT ![s] = None]
                /\ socketByConversation' =
                     [socketByConversation EXCEPT ![c] = None]
                /\ closeSession(c)
  /\ UNCHANGED <<database, handler, lastMessage, shown>>

\* The bound on callbacks: each start_chat at work may add one.
MaySubscribe(c) ==
  Cardinality({h \in Handlers : /\ handler[h] # None
                               /\ handler[h].does = "start_chat"
                               /\ handler[h].conv = c})
    + (IF agent[c] = None THEN 0 ELSE Len(agent[c].subscribers))
    < MaxSubscribers

\* The bound on conversations: each createConversation awaited takes one.
MayCreate ==
  Cardinality({h \in Handlers : /\ handler[h] # None
                               /\ handler[h].awaits = "createConversation"
                               /\ handler[h].query = "issued"})
    < Cardinality({c \in Convs : status[c] = "absent"})

\* start_chat without a conversationId, then with one.
onStartChatNew(s) ==
  /\ s \in online
  /\ MayCreate
  /\ \E h \in Idle :
       handler' = [handler EXCEPT ![h] =
         NewHandler("start_chat", s, None, NoMessage, "createConversation")]
  /\ UNCHANGED <<online, bindings, sessions, database, lastMessage, shown>>

onStartChat(s, c) ==
  /\ s \in online
  /\ MaySubscribe(c)
  /\ \E h \in Idle :
       handler' = [handler EXCEPT ![h] =
         NewHandler("start_chat", s, c, NoMessage, "findById")]
  /\ UNCHANGED <<online, bindings, sessions, database, lastMessage, shown>>

\* The client is bound before anything about the conversation is known.
onSendMessage(s, c) ==
  /\ s \in online
  /\ lastMessage < MaxMessages
  /\ lastMessage' = lastMessage + 1
  /\ bindSocket(s, c)
  /\ LET m == [id |-> lastMessage', from |-> "user", isFinal |-> FALSE]
     IN  \E h \in Idle :
           handler' = [handler EXCEPT ![h] =
             NewHandler("send_message", s, c, m, "findById")]
  /\ UNCHANGED <<online, sessions, database, shown>>
-----------------------------------------------------------------------------
(* What the agent does.                                                    *)

\* It answers what it was sent: the emitter calls every listener, and each
\* starts a handler that awaits its own createMessage.
handleAgentMessage(c, final) ==
  /\ agent[c] # None
  /\ agent[c].opening # "nothing"
  /\ lastMessage < MaxMessages
  /\ lastMessage' = lastMessage + 1
  /\ LET m == [id |-> lastMessage', from |-> "agent", isFinal |-> final]
         who == agent[c].subscribers
     IN  \E slot \in Injection(DOMAIN who, Idle) :
           handler' = [h \in Handlers |->
             IF h \in Range(slot)
               THEN LET i == CHOOSE i \in DOMAIN who : slot[i] = h
                    IN  NewHandler("agent_message", who[i], c, m,
                                   "createMessage")
               ELSE handler[h]]
  /\ UNCHANGED <<online, bindings, sessions, database, shown>>

\* AgentWsService closes a session whose attempts are exhausted; the callers
\* of IAgentService are not told.
AgentGivesUp(c) ==
  /\ AgentMayGiveUp
  /\ agent[c] # None
  /\ agent' = [agent EXCEPT ![c] = None]
  /\ UNCHANGED <<online, bindings, activeSessions, database, handler,
                 lastMessage, shown>>
-----------------------------------------------------------------------------
(* The repository's calls, executed by the database.                       *)

Query(h) ==
  /\ handler[h] # None
  /\ handler[h].query = "issued"
  /\ LET t == handler[h]
         Answer(u) == handler' = [handler EXCEPT ![h] = [u EXCEPT !.query = "ok"]]
     IN  \/ /\ t.awaits = "createConversation"
            /\ \E c \in Convs :
                 /\ status[c] = "absent"
                 /\ status' = [status EXCEPT ![c] = "active"]
                 /\ Answer([t EXCEPT !.conv = c, !.found = "active"])
            /\ UNCHANGED messages
         \/ /\ t.awaits = "findById"
            /\ Answer([t EXCEPT !.found = status[t.conv]])
            /\ UNCHANGED database
         \/ /\ t.awaits = "findByIdWithMessages"
            /\ Answer([t EXCEPT !.history = Len(messages[t.conv])])
            /\ UNCHANGED database
         \/ /\ t.awaits = "createMessage"
            /\ messages' = [messages EXCEPT ![t.conv] = Append(@, t.message)]
            /\ Answer(t)
            /\ UNCHANGED status
         \/ /\ t.awaits = "updateStatus"
            /\ status' = [status EXCEPT ![t.conv] = "completed"]
            /\ Answer(t)
            /\ UNCHANGED messages
  /\ UNCHANGED <<online, bindings, sessions, lastMessage, shown>>

\* The call rejects, and so does the handler: the error is logged, and sent to
\* the client if it made the call.
QueryFails(h) ==
  /\ DbMayFail
  /\ handler[h] # None
  /\ handler[h].query = "issued"
  /\ Finish(h)
  /\ UNCHANGED <<online, bindings, sessions, database, lastMessage, shown>>
-----------------------------------------------------------------------------
(* A handler goes on after its await. *)

\* Mistake: a conversation that was not found is not an error.
startChatUnchecked(h) ==
  /\ handler[h] # None
  /\ handler[h].does = "start_chat"
  /\ handler[h].query = "ok"
  /\ handler[h].awaits \in {"findById", "createConversation"}
  /\ openSession(handler[h].conv, handler[h].client)
  /\ Call(h, "findByIdWithMessages")
  /\ UNCHANGED <<online, bindings, database, lastMessage, shown>>

startChat(h) ==
  /\ handler[h] # None
  /\ handler[h].does = "start_chat"
  /\ handler[h].query = "ok"
  /\ LET t == handler[h]
     IN  \/ /\ t.awaits \in {"findById", "createConversation"}
            /\ IF t.found = "absent"
                 THEN /\ Finish(h)
                      /\ UNCHANGED sessions
                 ELSE /\ openSession(t.conv, t.client)
                      /\ Call(h, "findByIdWithMessages")
            /\ UNCHANGED bindings
         \/ /\ t.awaits = "findByIdWithMessages"
            /\ sendToAgent(t.conv, [type |-> "init", n |-> t.history])
            /\ bindSocket(t.client, t.conv)  \* then emit chat_started
            /\ Finish(h)
  /\ UNCHANGED <<online, database, lastMessage, shown>>

\* Mistake: the message goes to the agent before it is saved.
sendUserMessageUnsaved(h) ==
  /\ handler[h] # None
  /\ handler[h].does = "send_message"
  /\ handler[h].query = "ok"
  /\ \/ /\ handler[h].awaits = "findById"
        /\ sendToAgent(handler[h].conv,
                       [type |-> "message", n |-> handler[h].message.id])
        /\ Call(h, "createMessage")
     \/ /\ handler[h].awaits = "createMessage"
        /\ Finish(h)
        /\ UNCHANGED sessions
  /\ UNCHANGED <<online, bindings, database, lastMessage, shown>>

sendUserMessage(h) ==
  /\ handler[h] # None
  /\ handler[h].does = "send_message"
  /\ handler[h].query = "ok"
  /\ LET t == handler[h]
     IN  \/ /\ t.awaits = "findById"
            /\ \/ /\ t.found # "active"
                  /\ Finish(h)
                  /\ UNCHANGED sessions
               \/ /\ t.found = "active"
                  /\ t.conv \in activeSessions
                  /\ Call(h, "createMessage")
                  /\ UNCHANGED sessions
               \/ /\ t.found = "active"
                  /\ t.conv \notin activeSessions
                  /\ openSession(t.conv, t.client)
                  /\ Call(h, "findByIdWithMessages")
         \/ /\ t.awaits = "findByIdWithMessages"
            /\ sendToAgent(t.conv, [type |-> "init", n |-> t.history])
            /\ Call(h, "createMessage")
         \/ /\ t.awaits = "createMessage"
            /\ sendToAgent(t.conv, [type |-> "message", n |-> t.message.id])
            /\ Finish(h)
  /\ UNCHANGED <<online, bindings, database, lastMessage, shown>>

\* Mistakes: any message completes the conversation; the session is closed
\* before the status is written; it is not closed at all.
processAgentMessageAnyFinal(h) ==
  /\ handler[h] # None
  /\ handler[h].does = "agent_message"
  /\ handler[h].query = "ok"
  /\ IF handler[h].awaits = "createMessage"
       THEN Call(h, "updateStatus") /\ UNCHANGED sessions
       ELSE Finish(h) /\ closeSession(handler[h].conv)
  /\ UNCHANGED <<online, bindings, database, lastMessage, shown>>

processAgentMessageCloseFirst(h) ==
  /\ handler[h] # None
  /\ handler[h].does = "agent_message"
  /\ handler[h].query = "ok"
  /\ IF handler[h].awaits = "createMessage" /\ handler[h].message.isFinal
       THEN closeSession(handler[h].conv) /\ Call(h, "updateStatus")
       ELSE Finish(h) /\ UNCHANGED sessions
  /\ UNCHANGED <<online, bindings, database, lastMessage, shown>>

processAgentMessageLeftOpen(h) ==
  /\ handler[h] # None
  /\ handler[h].does = "agent_message"
  /\ handler[h].query = "ok"
  /\ IF handler[h].awaits = "createMessage" /\ handler[h].message.isFinal
       THEN Call(h, "updateStatus")
       ELSE Finish(h)
  /\ UNCHANGED <<online, bindings, sessions, database, lastMessage, shown>>

\* Emitting to a client that has gone is lost.
processAgentMessage(h) ==
  /\ handler[h] # None
  /\ handler[h].does = "agent_message"
  /\ handler[h].query = "ok"
  /\ LET t == handler[h]
     IN  \/ /\ t.awaits = "createMessage"
            /\ shown' = IF t.client \in online THEN shown \cup {t.message.id}
                                               ELSE shown
            /\ IF t.message.isFinal THEN Call(h, "updateStatus") ELSE Finish(h)
            /\ UNCHANGED sessions
         \/ /\ t.awaits = "updateStatus"
            /\ closeSession(t.conv)
            /\ Finish(h)
            /\ UNCHANGED shown
  /\ UNCHANGED <<online, bindings, database, lastMessage>>

\* The process dies and starts again: only the database is left.
Crash ==
  /\ MayCrash
  /\ online' = {}
  /\ socketByConversation' = [c \in Convs |-> None]
  /\ conversationBySocket' = [s \in Clients |-> None]
  /\ activeSessions' = {}
  /\ agent' = [c \in Convs |-> None]
  /\ handler' = [h \in Handlers |-> None]
  /\ UNCHANGED <<database, lastMessage, shown>>
-----------------------------------------------------------------------------
Client(s) == \/ handleConnection(s)
             \/ handleDisconnect(s)
             \/ onStartChatNew(s)
             \/ \E c \in Convs : onStartChat(s, c) \/ onSendMessage(s, c)
Agent(c) == AgentGivesUp(c) \/ \E final \in BOOLEAN : handleAgentMessage(c, final)
Resume(h) == startChat(h) \/ sendUserMessage(h) \/ processAgentMessage(h)
Database(h) == Query(h) \/ QueryFails(h)

Next == \/ \E s \in Clients : Client(s)
        \/ \E c \in Convs : Agent(c)
        \/ \E h \in Handlers : Database(h) \/ Resume(h)
        \/ Crash

Spec == Init /\ [][Next]_vars

\* The database answers and the event loop goes on; nothing is asked of the
\* clients or of the agent.
Fairness == \A h \in Handlers : WF_vars(Database(h)) /\ WF_vars(Resume(h))

FairSpec == Spec /\ Fairness
-----------------------------------------------------------------------------
\* The types of the two maps of the gateway, of the service's sessions, the
\* agent's, the database and the handlers.
TypeOK ==
  /\ online \subseteq Clients
  /\ socketByConversation \in [Convs -> Clients \cup {None}]
  /\ conversationBySocket \in [Clients -> Convs \cup {None}]
  /\ activeSessions \subseteq Convs
  /\ agent \in [Convs -> AgentSession \cup {None}]
  /\ status \in [Convs -> Statuses]
  /\ messages \in [Convs -> Seq(Message)]
  /\ handler \in [Handlers -> Handler \cup {None}]
  /\ lastMessage \in Nat
  /\ shown \subseteq Nat

\* The gateway's maps agree: the conversation a client is bound to is bound to
\* that client.  So no two clients are bound to one conversation, and the
\* disconnect of a displaced client cannot close its successor's session.
BindingsAgree ==
  \A s \in Clients : conversationBySocket[s] # None
                       => socketByConversation[conversationBySocket[s]] = s

\* A client is never shown an agent message the database does not hold, and
\* the agent never gets a user message the database does not hold: after a
\* crash the history tells everything either side has seen.
NothingUnsaved ==
  /\ \A n \in shown : \E c \in Convs : n \in Ids(c)
  /\ \A c \in Convs : agent[c] # None =>
       \A p \in agent[c].received :
         IF p.type = "init" THEN p.n <= Len(messages[c]) ELSE p.n \in Ids(c)

\* The agent of a session has heard the user's i-th message, in an init or as
\* it was sent.
Heard(c, i) ==
  \E p \in agent[c].received : IF p.type = "init" THEN p.n >= i
                                                  ELSE p.n = messages[c][i].id

\* When no call is at work on a conversation, the agent of its session has heard
\* every message the user has in the database: however sends, starts,
\* disconnects and sessions given up came between each other, one of the init
\* and the message was in time for this session.  For queries that do not
\* fail: without its own init, a session may be opened by an older one.
NothingUnheard ==
  ~DbMayFail =>
    \A c \in Convs :
      /\ agent[c] # None
      /\ \A h \in Handlers : handler[h] # None => handler[h].conv # c
      => \A i \in DOMAIN messages[c] : messages[c][i].from = "user" => Heard(c, i)

\* A conversation is completed only once the agent's last word is saved.
CompletedHasLastWord ==
  \A c \in Convs : status[c] = "completed" =>
    \E i \in DOMAIN messages[c] : messages[c][i].isFinal

\* What was told counts while the session lasts.
Attended == {c \in Convs : agent[c] # None}
Told == [c \in Convs |-> IF agent[c] = None THEN {} ELSE agent[c].received]

Log == INSTANCE ChatLog WITH attended <- Attended, told <- Told

\* The log comes first: conversations are created before anything happens in
\* them, messages are only ever added, "completed" is final and has its last
\* word, and clients and agent see only what is saved, through every failing
\* query and every crash between two steps of a handler.
ImplementsChatLog == Log!Spec

\* While others come and go, a session ends only because the client bound to
\* it leaves, because the conversation is completed, or because the process dies.
SessionEndsForAReason ==
  [][ \A c \in activeSessions \ activeSessions' :
        \/ status[c] = "completed"
        \/ socketByConversation[c] \in online \ online'
        \/ Crash ]_vars

\* The last word of the agent closes the session.
LastWordCloses ==
  \A c \in Convs :
    (\E h \in Handlers : /\ handler[h] # None
                         /\ handler[h].does = "agent_message"
                         /\ handler[h].conv = c
                         /\ handler[h].message.isFinal)
      ~> (c \notin activeSessions /\ status[c] = "completed")
-----------------------------------------------------------------------------
(* What the comments of the code say, and the code does not do.            *)

\* "to put the session out properly on disconnect" (gateway, line 30): a
\* session no handler is at work on belongs to a client that is there.
SessionHasOwner ==
  \A c \in activeSessions :
    \/ \E s \in online : conversationBySocket[s] = c
    \/ \E h \in Handlers : handler[h] # None /\ handler[h].conv = c

\* "raise it and play init from the history before sending the message"
\* (service, lines 126-127): the first payload of a session is its init.
InitComesFirst ==
  \A c \in Convs : agent[c] # None => agent[c].opening # "message"

\* "re-subscription of the new socket to the same session" (service, line
\* 191): one agent message is saved once, however many sockets came and went.
SavedOnce ==
  \A c \in Convs : \A i, j \in DOMAIN messages[c] :
    messages[c][i].id = messages[c][j].id => i = j
=============================================================================
