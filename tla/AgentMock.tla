----------------------------- MODULE AgentMock -----------------------------
(***************************************************************************)
(* AgentMockService (src/conversations/mock/agent.mock.service.ts), the    *)
(* scripted agent behind IAgentService when AGENT_MODE is not "ws", for    *)
(* one conversation, with the calls the service makes.  send only queues   *)
(* the payload (setImmediate), which may outlive the session it was meant  *)
(* for.  The script's place is kept twice: live, in the session's step, and *)
(* as the saved answers of the user, from which handleInit finds it again  *)
(* after a reconnect or a restart.                                         *)
(*                                                                         *)
(* Neither gateway nor service makes a call wait for another: several are  *)
(* at work at once, each cut at its database calls, where the others,      *)
(* disconnects, the last word's handler, failures and crashes come in.     *)
(***************************************************************************)
EXTENDS Naturals, Sequences, FiniteSets

CONSTANTS
  Requests,   \* bound: calls of start_chat and send_message at work at once
  MaxAnswers  \* bound: answers the user gives

ASSUME BoundsAssumption == MaxAnswers \in Nat

VARIABLES step,      \* the session's step, or "none" without a session
          queue,     \* the pending setImmediate callbacks
          answers,   \* the user messages saved in the database
          completed, \* the conversation's status in the database
          request,   \* the service calls at work
          turn,      \* the calls that may go on before the callbacks run
          lastWord,  \* the service is storing a final message
          emitted,   \* what the agent said last, "nothing" before
          raced,     \* history: this session has had two calls at work at once
          endedRaced \* history: such a session has said a final message

database == <<answers, completed>>
races == <<raced, endedRaced>>
vars == <<step, queue, answers, completed, request, turn, lastWord, emitted,
          raced, endedRaced>>

\* Of an answer the script only asks whether it is the option with id "1".
Answer == {"yes", "other"}
Step == {"none", "await_init", "await_initial_text", "await_yes_no",
         "await_domain", "await_difficulty", "await_dataset_size", "closed"}
Utterance == {"initialQuestion", "yesNoQuestion", "domainQuestion",
              "difficultyQuestion", "datasetSizeQuestion", "finalAccepted",
              "finalNarrowed"}

\* What is said on entering a step (closing, see below, has two ways).
Opening == [await_initial_text |-> "initialQuestion",
            await_yes_no |-> "yesNoQuestion",
            await_domain |-> "domainQuestion",
            await_difficulty |-> "difficultyQuestion",
            await_dataset_size |-> "datasetSizeQuestion"]

\* A call of sendUserMessage has found the conversation active ("found"); any
\* call may wait for the history ("reading"), have it ("read"), wait for its
\* message to be stored ("saving"), or have that ("saved").  answer is the
\* message of sendUserMessage, "nothing" in startChat.
Idle == [at |-> "idle", answer |-> "nothing", history |-> << >>]
Request == [at : {"idle", "found", "reading", "read", "saving", "saved"},
            answer : Answer \cup {"nothing"}, history : Seq(Answer)]

Init == /\ step = "none"
        /\ queue = << >>
        /\ answers = << >>
        /\ completed = FALSE
        /\ request = [r \in Requests |-> Idle]
        /\ turn = {}
        /\ lastWord = FALSE
        /\ emitted = "nothing"
        /\ raced = FALSE
        /\ endedRaced = FALSE
-----------------------------------------------------------------------------
\* Mistake: the answer to the yes/no question is not looked at.
handleInitBlindly(history) ==
  LET ladder == <<"await_initial_text", "await_yes_no", "await_domain",
                  "await_difficulty", "await_dataset_size">>
  IN  IF Len(history) >= 5
        THEN [step |-> "closed", says |-> "finalNarrowed"]
        ELSE LET s == ladder[Len(history) + 1]
             IN  [step |-> s, says |-> Opening[s]]

\* handleInit: where a history with these answers leaves the script, and what
\* is said there.  Only a second answer that is the last one is looked at.
handleInit(history) ==
  LET ladder == <<"await_initial_text", "await_yes_no", "await_domain",
                  "await_difficulty", "await_dataset_size">>
      n == Len(history)
  IN  CASE n = 2 /\ history[2] = "yes" ->
             [step |-> "closed", says |-> "finalAccepted"]
        [] n >= 5 -> [step |-> "closed", says |-> "finalNarrowed"]
        [] OTHER -> [step |-> ladder[n + 1], says |-> Opening[ladder[n + 1]]]

\* Mistake: a yes to any question accepts.
handleClientMessageEagerly(from, answer) ==
  LET next == [await_initial_text |-> "await_yes_no",
               await_yes_no |-> "await_domain",
               await_domain |-> "await_difficulty",
               await_difficulty |-> "await_dataset_size"]
  IN  CASE answer = "yes" -> [step |-> "closed", says |-> "finalAccepted"]
        [] from = "await_dataset_size" ->
             [step |-> "closed", says |-> "finalNarrowed"]
        [] OTHER -> [step |-> next[from], says |-> Opening[next[from]]]

\* handleClientMessage: the script goes on by one answer.
handleClientMessage(from, answer) ==
  LET next == [await_initial_text |-> "await_yes_no",
               await_yes_no |-> "await_domain",
               await_domain |-> "await_difficulty",
               await_difficulty |-> "await_dataset_size"]
  IN  CASE from = "await_yes_no" /\ answer = "yes" ->
             [step |-> "closed", says |-> "finalAccepted"]
        [] from = "await_dataset_size" ->
             [step |-> "closed", says |-> "finalNarrowed"]
        [] OTHER -> [step |-> next[from], says |-> Opening[next[from]]]

\* agent.send: dropped without a session and once the script has ended.
send(payload) == IF step \in {"none", "closed"} THEN queue
                                               ELSE Append(queue, payload)

\* The next queued payload is handled, in whatever session there is by then.
handle ==
  /\ queue # << >>
  /\ queue' = Tail(queue)
  /\ turn' = {}
  /\ LET p == Head(queue)
         Enter(r) == /\ step' = r.step
                     /\ emitted' = r.says
                     /\ lastWord' = (lastWord \/ r.step = "closed")
                     /\ endedRaced' =
                          (endedRaced \/ (raced /\ r.step = "closed"))
     IN  \/ /\ step \notin {"none", "closed"}
            /\ p.type = "init"
            /\ Enter(handleInit(p.history))
         \/ /\ step \notin {"none", "closed", "await_init"}
            /\ p.type = "message"
            /\ Enter(handleClientMessage(step, p.answer))
         \/ /\ \/ step \in {"none", "closed"}
               \/ step = "await_init" /\ p.type = "message"
            /\ UNCHANGED <<step, emitted, lastWord, endedRaced>>
  /\ UNCHANGED <<database, request, raced>>
-----------------------------------------------------------------------------
(* What the service does with it.  The answers of the database that have   *)
(* come by a turn of the event loop are gone on with one after the other,  *)
(* and then, in the check phase of the turn, the callbacks run that this   *)
(* has queued (setImmediate).  So while a callback is pending only those   *)
(* calls go on whose answer was there when the first was queued (turn).    *)

AtWork == {r \in Requests : request[r] # Idle}
Goto(r, at) == request' = [request EXCEPT ![r].at = at]
Finish(r) == request' = [request EXCEPT ![r] = Idle]

Answered(r) == request[r].at \notin {"reading", "saving"}
GoesOn(r) == /\ queue = << >> \/ r \in turn
             /\ turn' = turn \ {r}
Sends(r, payload) ==
  /\ queue = << >> \/ r \in turn
  /\ queue' = send(payload)
  /\ turn' = IF queue = << >> /\ queue' # << >>
               THEN {q \in Requests \ {r} : Answered(q)} ELSE turn \ {r}

\* connect, unless there is a session (even one whose script has ended).  A new
\* session starts with a clean record if nothing is left from before it.
connect(r) ==
  /\ step' = IF step = "none" THEN "await_init" ELSE step
  /\ raced' = \/ AtWork \ {r} # {}
              \/ IF step = "none" THEN queue # << >> ELSE raced
  /\ UNCHANGED endedRaced

\* startChat, its conversation found, opens the session and asks for the
\* history.
startChat(r) ==
  /\ request[r] = Idle
  /\ GoesOn(r)
  /\ connect(r)
  /\ Goto(r, "reading")
  /\ UNCHANGED <<queue, database, lastWord, emitted>>

\* sendUserMessage, of which findById finds the conversation active.  A call
\* made while callbacks are pending gets no answer before they have run.
sendUserMessage(r, a) ==
  /\ request[r] = Idle
  /\ queue = << >>
  /\ ~completed
  /\ LET sending == {q \in AtWork : request[q].answer # "nothing"}
     IN  Len(answers) + Cardinality(sending) < MaxAnswers
  /\ request' = [request EXCEPT
                  ![r] = [Idle EXCEPT !.at = "found", !.answer = a]]
  /\ raced' = (raced \/ AtWork # {})
  /\ UNCHANGED <<step, queue, database, turn, lastWord, emitted, endedRaced>>

\* It goes on: without a session it opens one and asks for the history first,
\* else it stores the message at once.
sessionFound(r) ==
  /\ request[r].at = "found"
  /\ GoesOn(r)
  /\ connect(r)
  /\ Goto(r, IF step = "none" THEN "reading" ELSE "saving")
  /\ UNCHANGED <<queue, database, lastWord, emitted>>

\* The database reads the history.
historyRead(r) ==
  /\ request[r].at = "reading"
  /\ request' = [request EXCEPT ![r].at = "read", ![r].history = answers]
  /\ UNCHANGED <<step, queue, database, turn, lastWord, emitted, races>>

\* Mistake: init without its history.
historyForgotten(r) ==
  /\ request[r].at = "read"
  /\ Sends(r, [type |-> "init"])
  /\ Finish(r)
  /\ UNCHANGED <<step, database, lastWord, emitted, races>>

\* The history goes out with init; sendUserMessage goes on.
initSent(r) ==
  /\ request[r].at = "read"
  /\ Sends(r, [type |-> "init", history |-> request[r].history])
  /\ IF request[r].answer = "nothing"
       THEN Finish(r)
       ELSE request' = [request EXCEPT ![r].at = "saving", ![r].history = << >>]
  /\ UNCHANGED <<step, database, lastWord, emitted, races>>

\* createMessage commits.
messageSaved(r) ==
  /\ request[r].at = "saving"
  /\ answers' = Append(answers, request[r].answer)
  /\ Goto(r, "saved")
  /\ UNCHANGED <<step, queue, completed, turn, lastWord, emitted, races>>

\* The stored message goes to the agent.
messageSent(r) ==
  /\ request[r].at = "saved"
  /\ Sends(r, [type |-> "message", answer |-> request[r].answer])
  /\ Finish(r)
  /\ UNCHANGED <<step, database, lastWord, emitted, races>>

\* A read or a write fails: the call ends with an error, the session stays.
databaseFails(r) ==
  /\ request[r].at \in {"reading", "saving"}
  /\ Finish(r)
  /\ UNCHANGED <<step, queue, database, turn, lastWord, emitted, races>>

\* handleAgentMessage of a final message, its writes done: the conversation is
\* completed and whatever session it has by now is closed.
lastWordSaved ==
  /\ lastWord
  /\ lastWord' = FALSE
  /\ completed' = TRUE
  /\ step' = "none"
  /\ UNCHANGED <<queue, answers, request, turn, emitted, races>>

\* One of the writes failed, which is logged.
lastWordLost ==
  /\ lastWord
  /\ lastWord' = FALSE
  /\ UNCHANGED <<step, queue, database, request, turn, emitted, races>>

\* Mistake: a disconnect completes the conversation.
closeCompleting ==
  /\ step # "none"
  /\ step' = "none"
  /\ completed' = TRUE
  /\ UNCHANGED <<queue, answers, request, turn, lastWord, emitted, races>>

\* closeSession on disconnect.
close == /\ step # "none"
         /\ step' = "none"
         /\ UNCHANGED <<queue, database, request, turn, lastWord, emitted,
                        races>>

\* The process dies: sessions, callbacks and calls are gone.
Crash == /\ step' = "none"
         /\ queue' = << >>
         /\ request' = [r \in Requests |-> Idle]
         /\ turn' = {}
         /\ lastWord' = FALSE
         /\ UNCHANGED <<database, emitted, races>>
-----------------------------------------------------------------------------
Next == \/ \E r \in Requests :
             \/ startChat(r) \/ (\E a \in Answer : sendUserMessage(r, a))
             \/ sessionFound(r) \/ historyRead(r) \/ initSent(r)
             \/ messageSaved(r) \/ messageSent(r) \/ databaseFails(r)
        \/ handle \/ lastWordSaved \/ lastWordLost \/ close \/ Crash

Spec == Init /\ [][Next]_vars
-----------------------------------------------------------------------------
Payload == [type : {"init"}, history : Seq(Answer)]
             \cup [type : {"message"}, answer : Answer]

\* The types of the script's state, what is queued for it and the calls.
TypeOK == /\ step \in Step
          /\ queue \in Seq(Payload)
          /\ answers \in Seq(Answer)
          /\ completed \in BOOLEAN
          /\ request \in [Requests -> Request]
          /\ turn \subseteq Requests
          /\ lastWord \in BOOLEAN
          /\ emitted \in Utterance \cup {"nothing"}
          /\ raced \in BOOLEAN
          /\ endedRaced \in BOOLEAN

\* The script had ended before the last answer was given.
Surplus == \/ Len(answers) > 2 /\ answers[2] = "yes"
           \/ Len(answers) > 5

\* The two places agree, unless the session has had two calls at work at once:
\* with nothing queued or under way, a session that has had its init stands
\* where handleInit would put a new one with the saved answers.  Whatever was
\* closed, lost, failed or left queued by calls before it, and however they
\* overlapped, a session opened when nothing of them is left is right again.
RestoreMatchesLiveUnlessRaced ==
  queue = << >> /\ AtWork = {} /\ step \notin {"none", "await_init"}
    /\ ~Surplus /\ ~raced => step = handleInit(answers).step

\* The benchmark is accepted only by a user who said yes to the question
\* whether it fits, unless a session in which calls overlapped has ended the
\* script: that one may have taken an answer to another question for it.
AcceptedMeansYesUnlessRaced ==
  emitted = "finalAccepted" /\ ~endedRaced =>
    Len(answers) >= 2 /\ answers[2] = "yes"

\* A conversation is completed only when the saved answers have led its script
\* to the end, unless a session in which calls overlapped has ended it.
CompletedMeansEndedUnlessRaced ==
  completed /\ ~endedRaced => handleInit(answers).step = "closed" \/ Surplus
=============================================================================
