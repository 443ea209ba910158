-------------------------- MODULE AgentMock_proofs --------------------------
(***************************************************************************)
(* The script of AgentMock keeps its place, live, in the queue and in the  *)
(* saved answers, in every session in which calls do not overlap, whatever *)
(* went on before that session; for any number of answers and of calls.    *)
(***************************************************************************)
EXTENDS AgentMock, Integers, SequenceTheorems, TLAPS

\* How many answers the script has had when it stands at a question.
Place(s) == CASE s = "await_initial_text" -> 0
              [] s = "await_yes_no" -> 1
              [] s = "await_domain" -> 2
              [] s = "await_difficulty" -> 3
              [] s = "await_dataset_size" -> 4
Questions == {"await_initial_text", "await_yes_no", "await_domain",
              "await_difficulty", "await_dataset_size"}

\* The history has all that handleInit asks for to end the script.
Accepted(h) == Len(h) >= 2 /\ h[2] = "yes"
Ended(h) == Accepted(h) \/ Len(h) >= 5

\* The answers that a handler which has not saved its own has seen.
Before(h) == SubSeq(h, 1, Len(h) - 1)

\* A session in which no two calls have been at work at once.
Clean == step # "none" /\ ~raced

MessageQueued == queue # << >> /\ Head(queue).type = "message"
Saved == \E r \in Requests : request[r].at = "saved"

\* The last saved answer has not come to the script yet.
Pending == Saved \/ MessageQueued

\* A call that has a message to store, or has stored it, has it.
CallInv == \A r \in Requests :
  request[r].at \in {"found", "saving", "saved"} => request[r].answer \in Answer

\* One call at most is at work, and goes on only when no callback is pending.
Alone == /\ \A q, r \in Requests : request[q] # Idle /\ request[r] # Idle => q = r
         /\ Len(queue) <= 1
         /\ queue # << >> => \A r \in turn : request[r] = Idle

\* What the call at work and the pending callback know of the answers.
Known ==
  /\ \A r \in Requests : request[r].at = "saved" =>
       answers # << >> /\ answers[Len(answers)] = request[r].answer
  /\ \A r \in Requests : request[r].at = "read" => request[r].history = answers
  /\ MessageQueued => /\ \A r \in Requests : request[r].at \in {"idle", "reading", "read"}
                      /\ answers # << >>
                      /\ answers[Len(answers)] = Head(queue).answer
  /\ queue # << >> /\ Head(queue).type = "init" =>
       Head(queue).history = IF Saved THEN Before(answers) ELSE answers

\* The script stands at the question that follows the answers it has had.
Placed ==
  /\ step \in Questions =>
       Len(answers) = Place(step) + (IF Pending THEN 1 ELSE 0)
  /\ step = "await_domain" => answers[2] # "yes"
  /\ step = "closed" => Ended(answers)

CleanInv == Clean => Alone /\ Known /\ Placed

\* What was said by such a session is backed by the answers for good.
EndInv ==
  ~endedRaced => /\ lastWord \/ completed => Ended(answers)
                 /\ emitted = "finalAccepted" => Accepted(answers)

ScriptInv == TypeOK /\ CallInv /\ CleanInv /\ EndInv
-----------------------------------------------------------------------------
(* The script. *)

LEMMA HandleInitResult ==
  ASSUME NEW h \in Seq(Answer)
  PROVE  /\ handleInit(h).step \in Questions \cup {"closed"}
         /\ handleInit(h).says \in Utterance
         /\ handleInit(h).step \in Questions => Len(h) = Place(handleInit(h).step)
         /\ handleInit(h).step = "await_domain" => h[2] # "yes"
         /\ handleInit(h).step = "closed" => Ended(h)
         /\ handleInit(h).says = "finalAccepted" =>
              Accepted(h) /\ handleInit(h).step = "closed"
<1>1. CASE Len(h) = 2 /\ h[2] = "yes"
  BY <1>1 DEF handleInit, Accepted, Ended, Questions, Utterance
<1>2. CASE Len(h) >= 5
  BY <1>2 DEF handleInit, Accepted, Ended, Questions, Utterance
<1>3. CASE Len(h) \in 0..4 /\ ~(Len(h) = 2 /\ h[2] = "yes")
  <2>1. CASE Len(h) = 0
    BY <1>3, <2>1 DEF handleInit, Opening, Place, Questions, Utterance
  <2>2. CASE Len(h) = 1
    BY <1>3, <2>2 DEF handleInit, Opening, Place, Questions, Utterance
  <2>3. CASE Len(h) = 2
    BY <1>3, <2>3 DEF handleInit, Opening, Place, Questions, Utterance
  <2>4. CASE Len(h) = 3
    BY <1>3, <2>4 DEF handleInit, Opening, Place, Questions, Utterance
  <2>5. CASE Len(h) = 4
    BY <1>3, <2>5 DEF handleInit, Opening, Place, Questions, Utterance
  <2>6. QED
    BY <1>3, <2>1, <2>2, <2>3, <2>4, <2>5
<1>4. Len(h) \in Nat
  OBVIOUS
<1>5. \A n \in Nat : n >= 5 \/ n \in 0..4
  OBVIOUS
<1>6. QED
  BY <1>1, <1>2, <1>3, <1>4, <1>5

LEMMA HandleClientMessageResult ==
  ASSUME NEW s \in Questions, NEW a \in Answer
  PROVE  /\ handleClientMessage(s, a).step \in Questions \cup {"closed"}
         /\ handleClientMessage(s, a).says \in Utterance
         /\ handleClientMessage(s, a).step \in Questions =>
              Place(handleClientMessage(s, a).step) = Place(s) + 1
         /\ handleClientMessage(s, a).step = "await_domain" =>
              Place(s) = 1 /\ a # "yes"
         /\ handleClientMessage(s, a).step = "closed" =>
              (Place(s) = 1 /\ a = "yes") \/ Place(s) = 4
         /\ handleClientMessage(s, a).says = "finalAccepted" =>
              /\ Place(s) = 1 /\ a = "yes"
              /\ handleClientMessage(s, a).step = "closed"
<1> USE DEF handleClientMessage, Opening, Place, Questions, Utterance
<1>1. CASE s = "await_initial_text"
  BY <1>1
<1>2. CASE s = "await_yes_no"
  BY <1>2
<1>3. CASE s = "await_domain"
  BY <1>3
<1>4. CASE s = "await_difficulty"
  BY <1>4
<1>5. CASE s = "await_dataset_size"
  BY <1>5
<1>6. QED
  BY <1>1, <1>2, <1>3, <1>4, <1>5

\* One more answer.
LEMMA AnswerAppended ==
  ASSUME NEW h \in Seq(Answer), NEW a \in Answer
  PROVE  /\ Append(h, a) \in Seq(Answer)
         /\ Append(h, a) # << >>
         /\ Len(Append(h, a)) = Len(h) + 1
         /\ Append(h, a)[Len(Append(h, a))] = a
         /\ Before(Append(h, a)) = h
         /\ Len(h) >= 2 => Append(h, a)[2] = h[2]
         /\ Ended(h) => Ended(Append(h, a))
         /\ Accepted(h) => Accepted(Append(h, a))
<1>1. /\ Append(h, a) \in Seq(Answer)
      /\ Append(h, a) # << >>
      /\ Len(Append(h, a)) = Len(h) + 1
      /\ Append(h, a)[Len(Append(h, a))] = a
      /\ Len(h) >= 2 => Append(h, a)[2] = h[2]
  OBVIOUS
<1>2. Before(Append(h, a)) = h
  BY DEF Before
<1>3. QED
  BY <1>1, <1>2 DEF Ended, Accepted

\* The answers before the last one.
LEMMA BeforeProperties ==
  ASSUME NEW h \in Seq(Answer), h # << >>
  PROVE  /\ Before(h) \in Seq(Answer)
         /\ Len(h) = Len(Before(h)) + 1
         /\ Len(Before(h)) >= 2 => Before(h)[2] = h[2]
         /\ Ended(Before(h)) => Ended(h)
         /\ Accepted(Before(h)) => Accepted(h)
<1>1. /\ Before(h) \in Seq(Answer)
      /\ Len(h) = Len(Before(h)) + 1
      /\ Len(Before(h)) >= 2 => Before(h)[2] = h[2]
  <2>1. Len(h) \in Nat /\ Len(h) >= 1
    OBVIOUS
  <2>2. \A i \in 1..(Len(h) - 1) : h[i] \in Answer
    BY <2>1
  <2>3. ASSUME NEW n \in Nat, n = Len(h) - 1
        PROVE  /\ SubSeq(h, 1, n) \in Seq(Answer)
               /\ Len(SubSeq(h, 1, n)) = n
               /\ \A i \in 1..n : SubSeq(h, 1, n)[i] = h[i]
    BY <2>2, <2>3
  <2>4. PICK n \in Nat : n = Len(h) - 1
    BY <2>1
  <2>5. Before(h) = SubSeq(h, 1, n)
    BY <2>4 DEF Before
  <2>6. n >= 2 => SubSeq(h, 1, n)[2] = h[2]
    BY <2>3, <2>4
  <2>7. SubSeq(h, 1, n) \in Seq(Answer) /\ Len(SubSeq(h, 1, n)) = n
    BY <2>3, <2>4
  <2>8. Len(h) = n + 1
    BY <2>1, <2>4
  <2>9. QED
    BY <2>5, <2>6, <2>7, <2>8
<1>2. QED
  BY <1>1 DEF Ended, Accepted

\* The queue is empty or has one payload.
LEMMA QueueOfOne ==
  ASSUME NEW q \in Seq(Payload), Len(q) <= 1, q # << >>
  PROVE  Head(q) \in Payload /\ Tail(q) = << >>
OBVIOUS

LEMMA QueuedFirst ==
  ASSUME NEW p \in Payload
  PROVE  /\ Append(<< >>, p) \in Seq(Payload)
         /\ Append(<< >>, p) # << >>
         /\ Len(Append(<< >>, p)) = 1
         /\ Head(Append(<< >>, p)) = p
OBVIOUS

LEMMA PayloadKinds ==
  /\ \A p \in Payload :
       /\ p.type = "init" => p.history \in Seq(Answer)
       /\ p.type = "message" => p.answer \in Answer
       /\ p.type \in {"init", "message"}
  /\ \A h \in Seq(Answer) : [type |-> "init", history |-> h] \in Payload
  /\ \A a \in Answer : [type |-> "message", answer |-> a] \in Payload
BY DEF Payload

\* Where a step may stand that has a question or has ended.
LEMMA QuestionSteps ==
  /\ Questions \cup {"closed"} \subseteq Step
  /\ "closed" \notin Questions /\ "none" \notin Questions
  /\ "await_init" \notin Questions
  /\ Step = Questions \cup {"none", "await_init", "closed"}
  /\ \A s \in Questions : Place(s) \in 0..4
  /\ Place("await_domain") = 2
BY DEF Questions, Step, Place
-----------------------------------------------------------------------------
(* The calls. *)

\* A step of call r, whatever becomes of it.
Moves(r) == /\ request' \in [Requests -> Request]
            /\ \A q \in Requests \ {r} : request'[q] = request[q]

LEMMA CallMoves ==
  ASSUME TypeOK, NEW r \in Requests, NEW v \in Request,
         request' = [request EXCEPT ![r] = v]
  PROVE  Moves(r) /\ request'[r] = v
BY DEF TypeOK, Moves

LEMMA IdleIsRequest ==
  Idle \in Request /\ Idle.at = "idle" /\ Idle.answer = "nothing"
<1>1. << >> \in Seq(Answer)
  OBVIOUS
<1>2. QED
  BY <1>1 DEF Idle, Request

LEMMA GotoMoves ==
  ASSUME TypeOK, NEW r \in Requests, NEW at, Goto(r, at),
         at \in {"found", "reading", "read", "saving", "saved"}
  PROVE  /\ Moves(r)
         /\ request'[r].at = at
         /\ request'[r].answer = request[r].answer
<1> DEFINE v == [request[r] EXCEPT !.at = at]
<1>1. request \in [Requests -> Request] /\ request[r] \in Request
  BY DEF TypeOK
<1>2. v \in Request /\ v.at = at /\ v.answer = request[r].answer
  BY <1>1 DEF Request
<1>3. request' = [request EXCEPT ![r] = v]
  BY <1>1 DEF Goto
<1> HIDE DEF v
<1>4. QED
  BY <1>2, <1>3, CallMoves

LEMMA FinishMoves ==
  ASSUME TypeOK, NEW r \in Requests, Finish(r)
  PROVE  Moves(r) /\ request'[r] = Idle
BY CallMoves, IdleIsRequest DEF Finish

\* The other calls, when r is the one at work.
LEMMA OthersIdle ==
  ASSUME ScriptInv, Clean, NEW r \in Requests, request[r] # Idle
  PROVE  /\ \A q \in Requests \ {r} : request[q] = Idle
         /\ queue # << >> => r \notin turn
         /\ Len(queue) <= 1
BY Zenon DEF ScriptInv, CleanInv, Alone

\* A step of a call that neither stores nor sends anything: the session goes on
\* as it was, or is a new one with nothing left from before it.
LEMMA QuietStep ==
  ASSUME ScriptInv, NEW r \in Requests, Moves(r),
         UNCHANGED <<queue, answers, completed, lastWord, emitted, endedRaced>>,
         turn' \subseteq turn, step' \in Step, raced' \in BOOLEAN,
         request'[r].at # "saved",
         request'[r].at \in {"found", "saving"} => request'[r].answer \in Answer,
         request'[r].at = "read" => request'[r].history = answers,
         Clean' =>
           /\ request[r].at # "saved"
           /\ \A q \in Requests \ {r} : request[q] = Idle
           /\ queue # << >> => r \notin turn' \/ request'[r] = Idle
           /\ MessageQueued => request'[r].at \in {"idle", "reading", "read"}
           /\ \/ Clean /\ step' = step
              \/ step' = "await_init" /\ queue = << >>
  PROVE  ScriptInv'
<1> USE DEF ScriptInv
<1>1. TypeOK'
  <2>1. turn' \subseteq Requests /\ request' \in [Requests -> Request]
    BY DEF TypeOK, Moves
  <2>2. queue' \in Seq(Payload) /\ answers' \in Seq(Answer)
        /\ emitted' \in Utterance \cup {"nothing"}
    BY DEF TypeOK
  <2>3. completed' \in BOOLEAN /\ lastWord' \in BOOLEAN /\ endedRaced' \in BOOLEAN
    BY DEF TypeOK
  <2>4. QED
    BY <2>1, <2>2, <2>3 DEF TypeOK
<1>2. CallInv'
  BY DEF CallInv, Moves
<1>3. EndInv'
  BY Zenon DEF EndInv
<1>4. ASSUME Clean' PROVE Alone' /\ Known' /\ Placed'
  <2> USE <1>4
  <2>1. \A q \in Requests \ {r} : request'[q] = Idle /\ request'[q].at = "idle"
    BY IdleIsRequest DEF Moves
  <2>2. Len(queue') <= 1
    <3>1. Clean => Len(queue) <= 1
      BY DEF CleanInv, Alone
    <3>2. queue = << >> => Len(queue) <= 1
      OBVIOUS
    <3>3. QED
      BY <3>1, <3>2
  <2>3. Alone'
    <3>1. \A q, p \in Requests : request'[q] # Idle /\ request'[p] # Idle => q = p
      BY <2>1
    <3>2. turn' \subseteq Requests
      BY <1>1 DEF TypeOK
    <3>3. queue' # << >> => \A q \in turn' : request'[q] = Idle
      BY <2>1, <3>2
    <3>4. QED
      BY <2>2, <3>1, <3>3 DEF Alone
  <2>4. ~Saved /\ ~Saved'
    BY <2>1, IdleIsRequest DEF Saved
  <2>5. MessageQueued' <=> MessageQueued
    BY DEF MessageQueued
  <2>6. CASE Clean /\ step' = step
    <3>1. Known /\ Placed
      BY <2>6 DEF CleanInv
    <3>2. Known'
      BY <2>1, <2>4, <2>5, <3>1 DEF Known
    <3>3. Placed'
      BY <2>4, <2>5, <2>6, <3>1 DEF Placed, Pending
    <3>4. QED
      BY <2>3, <3>2, <3>3
  <2>7. CASE step' = "await_init" /\ queue = << >>
    <3>1. ~MessageQueued'
      BY <2>5, <2>7 DEF MessageQueued
    <3>2. Known'
      BY <2>1, <2>4, <2>7, <3>1 DEF Known
    <3>3. Placed'
      BY <2>7, QuestionSteps DEF Placed
    <3>4. QED
      BY <2>3, <3>2, <3>3
  <2>8. QED
    BY <2>6, <2>7
<1>5. QED
  BY <1>1, <1>2, <1>3, <1>4 DEF CleanInv

\* What connect leaves: a session with overlapping calls, or r is alone in the
\* session there was, or in a new one with nothing left from before.
LEMMA ConnectEffect ==
  ASSUME TypeOK, NEW r \in Requests, connect(r)
  PROVE  /\ step' \in Step /\ raced' \in BOOLEAN /\ endedRaced' = endedRaced
         /\ Clean' => /\ \A q \in Requests \ {r} : request[q] = Idle
                      /\ \/ Clean /\ step' = step
                         \/ step' = "await_init" /\ queue = << >> /\ step = "none"
<1>1. step \in Step /\ step' \in Step /\ step' # "none"
  BY QuestionSteps DEF TypeOK, connect
<1>2. raced' \in BOOLEAN
  <2>1. raced \in BOOLEAN
    BY DEF TypeOK
  <2>2. (IF step = "none" THEN queue # << >> ELSE raced) \in BOOLEAN
    BY <2>1
  <2>3. QED
    BY <2>2, Zenon DEF connect
<1>3. ASSUME ~raced' PROVE AtWork \ {r} = {} /\ ~(IF step = "none" THEN queue # << >> ELSE raced)
  BY <1>3, Zenon DEF connect
<1>4. ASSUME AtWork \ {r} = {} PROVE \A q \in Requests \ {r} : request[q] = Idle
  BY <1>4 DEF AtWork
<1>5. QED
  BY <1>1, <1>2, <1>3, <1>4 DEF connect, Clean

LEMMA StartChatKeeps ==
  ASSUME ScriptInv, NEW r \in Requests, startChat(r) PROVE ScriptInv'
<1>1. TypeOK
  BY DEF ScriptInv
<1>2. /\ Moves(r) /\ request'[r].at = "reading"
  BY <1>1, GotoMoves DEF startChat
<1>3. /\ step' \in Step /\ raced' \in BOOLEAN /\ endedRaced' = endedRaced
      /\ Clean' => /\ \A q \in Requests \ {r} : request[q] = Idle
                   /\ \/ Clean /\ step' = step
                      \/ step' = "await_init" /\ queue = << >> /\ step = "none"
  BY <1>1, ConnectEffect DEF startChat
<1>4. turn' \subseteq turn /\ r \notin turn' /\ request[r].at # "saved"
      /\ UNCHANGED <<queue, answers, completed, lastWord, emitted>>
  BY IdleIsRequest DEF startChat, GoesOn, database
<1>5. QED
  BY <1>2, <1>3, <1>4, QuietStep

LEMMA SendUserMessageKeeps ==
  ASSUME ScriptInv, NEW r \in Requests, NEW a \in Answer, sendUserMessage(r, a)
  PROVE  ScriptInv'
<1>1. TypeOK /\ raced \in BOOLEAN
  BY DEF ScriptInv, TypeOK
<1> DEFINE v == [Idle EXCEPT !.at = "found", !.answer = a]
<1>2. v \in Request /\ v.at = "found" /\ v.answer = a
  BY IdleIsRequest DEF Request, Idle
<1>3. request' = [request EXCEPT ![r] = v]
  BY DEF sendUserMessage
<1> HIDE DEF v
<1>4. Moves(r) /\ request'[r].at = "found" /\ request'[r].answer = a
  BY <1>1, <1>2, <1>3, CallMoves
<1>5. /\ UNCHANGED <<step, queue, answers, completed, turn, lastWord, emitted, endedRaced>>
      /\ queue = << >> /\ request[r].at # "saved"
      /\ raced' = (raced \/ AtWork # {})
  BY IdleIsRequest DEF sendUserMessage, database
<1>6. raced' \in BOOLEAN /\ (~raced' => ~raced /\ AtWork = {})
  BY <1>1, <1>5, Zenon
<1>7. Clean' => Clean /\ \A q \in Requests \ {r} : request[q] = Idle
  BY <1>5, <1>6 DEF Clean, AtWork
<1>8. turn' \subseteq turn /\ step' \in Step /\ ~MessageQueued
  BY <1>1, <1>5 DEF TypeOK, MessageQueued
<1>9. QED
  BY <1>4, <1>5, <1>6, <1>7, <1>8, QuietStep

LEMMA SessionFoundKeeps ==
  ASSUME ScriptInv, NEW r \in Requests, sessionFound(r) PROVE ScriptInv'
<1>1. TypeOK
  BY DEF ScriptInv
<1>2. Moves(r) /\ request'[r].answer = request[r].answer
      /\ request'[r].at = IF step = "none" THEN "reading" ELSE "saving"
  BY <1>1, GotoMoves DEF sessionFound
<1>3. /\ step' \in Step /\ raced' \in BOOLEAN /\ endedRaced' = endedRaced
      /\ Clean' => /\ \A q \in Requests \ {r} : request[q] = Idle
                   /\ \/ Clean /\ step' = step
                      \/ step' = "await_init" /\ queue = << >> /\ step = "none"
  BY <1>1, ConnectEffect DEF sessionFound
<1>4. turn' \subseteq turn /\ r \notin turn'
      /\ request[r].at = "found" /\ request[r] # Idle
      /\ (queue = << >> \/ r \in turn)
      /\ UNCHANGED <<queue, answers, completed, lastWord, emitted>>
  BY IdleIsRequest DEF sessionFound, GoesOn, database
<1>5. request[r].answer \in Answer
  BY <1>4 DEF ScriptInv, CallInv
<1>6. Clean => queue = << >>
  BY <1>4, OthersIdle
<1>7. Clean' /\ MessageQueued => FALSE
  BY <1>3, <1>6 DEF MessageQueued
<1>8. QED
  BY <1>2, <1>3, <1>4, <1>5, <1>7, QuietStep

LEMMA HistoryReadKeeps ==
  ASSUME ScriptInv, NEW r \in Requests, historyRead(r) PROVE ScriptInv'
<1>1. TypeOK /\ request[r] \in Request /\ answers \in Seq(Answer)
      /\ request \in [Requests -> Request]
  BY DEF ScriptInv, TypeOK
<1> DEFINE v == [request[r] EXCEPT !.at = "read", !.history = answers]
<1>2. v \in Request /\ v.at = "read" /\ v.history = answers
  BY <1>1 DEF Request
<1>3. request' = [request EXCEPT ![r] = v]
  BY <1>1 DEF historyRead
<1> HIDE DEF v
<1>4. Moves(r) /\ request'[r].at = "read" /\ request'[r].history = answers
  BY <1>1, <1>2, <1>3, CallMoves
<1>5. /\ UNCHANGED <<step, queue, answers, completed, turn, lastWord, emitted,
                     raced, endedRaced>>
      /\ request[r].at = "reading" /\ request[r] # Idle
  BY IdleIsRequest DEF historyRead, database, races
<1>6. turn' \subseteq turn /\ step' \in Step /\ raced' \in BOOLEAN
  BY <1>1, <1>5 DEF TypeOK
<1>7. Clean' => Clean /\ (\A q \in Requests \ {r} : request[q] = Idle)
                /\ (queue # << >> => r \notin turn')
  BY <1>5, OthersIdle DEF Clean
<1>8. QED
  BY <1>4, <1>5, <1>6, <1>7, QuietStep

LEMMA DatabaseFailsKeeps ==
  ASSUME ScriptInv, NEW r \in Requests, databaseFails(r) PROVE ScriptInv'
<1>1. TypeOK
  BY DEF ScriptInv
<1>2. Moves(r) /\ request'[r] = Idle /\ request'[r].at = "idle"
  BY <1>1, FinishMoves, IdleIsRequest DEF databaseFails
<1>3. /\ UNCHANGED <<step, queue, answers, completed, turn, lastWord, emitted,
                     raced, endedRaced>>
      /\ request[r].at \in {"reading", "saving"} /\ request[r] # Idle
  BY IdleIsRequest DEF databaseFails, database, races
<1>4. turn' \subseteq turn /\ step' \in Step /\ raced' \in BOOLEAN
  BY <1>1, <1>3 DEF TypeOK
<1>5. Clean' => Clean /\ \A q \in Requests \ {r} : request[q] = Idle
  BY <1>3, OthersIdle DEF Clean
<1>6. QED
  BY <1>2, <1>3, <1>4, <1>5, QuietStep
-----------------------------------------------------------------------------
(* What is stored and sent. *)

\* What a call sends is queued, unless nobody listens.
LEMMA SendEffect ==
  ASSUME TypeOK, NEW r \in Requests, NEW p \in Payload, Sends(r, p)
  PROVE  /\ queue' \in Seq(Payload)
         /\ turn' \subseteq Requests
         /\ queue = << >> =>
              /\ Len(queue') <= 1
              /\ queue' # << >> => Head(queue') = p /\ r \notin turn'
              /\ queue' = << >> <=> step \in {"none", "closed"}
<1>1. queue \in Seq(Payload) /\ turn \subseteq Requests
  BY DEF TypeOK
<1>2. queue' \in Seq(Payload)
  BY <1>1 DEF Sends, send
<1>3. turn' \subseteq Requests
  BY <1>1 DEF Sends
<1>4. ASSUME queue = << >>
      PROVE  /\ Len(queue') <= 1
             /\ queue' # << >> => Head(queue') = p /\ r \notin turn'
             /\ queue' = << >> <=> step \in {"none", "closed"}
  <2>1. queue' = send(p)
    BY DEF Sends
  <2>2. CASE step \in {"none", "closed"}
    BY <1>4, <2>1, <2>2 DEF send
  <2>3. CASE step \notin {"none", "closed"}
    <3>1. queue' = Append(<< >>, p)
      BY <1>4, <2>1, <2>3 DEF send
    <3>2. queue' # << >> /\ Len(queue') = 1 /\ Head(queue') = p
      BY <3>1, QueuedFirst
    <3>3. r \notin turn'
      BY <1>4, <3>2 DEF Sends
    <3>4. QED
      BY <2>3, <3>2, <3>3
  <2>4. QED
    BY <2>2, <2>3
<1>5. QED
  BY <1>2, <1>3, <1>4

\* The other types, when a call stores or sends.
LEMMA SendTypes ==
  ASSUME TypeOK, NEW r \in Requests, Moves(r),
         UNCHANGED <<step, completed, lastWord, emitted, raced, endedRaced>>,
         queue' \in Seq(Payload), answers' \in Seq(Answer), turn' \subseteq Requests
  PROVE  TypeOK'
<1>1. request' \in [Requests -> Request]
  BY DEF Moves
<1>2. step' \in Step /\ emitted' \in Utterance \cup {"nothing"}
  BY DEF TypeOK
<1>3. completed' \in BOOLEAN /\ lastWord' \in BOOLEAN /\ raced' \in BOOLEAN
      /\ endedRaced' \in BOOLEAN
  BY DEF TypeOK
<1>4. QED
  BY <1>1, <1>2, <1>3 DEF TypeOK

\* One call at most, still.
LEMMA AloneAgain ==
  ASSUME NEW r \in Requests, \A q \in Requests \ {r} : request'[q] = Idle,
         turn' \subseteq Requests, Len(queue') <= 1,
         queue' # << >> => r \notin turn' \/ request'[r] = Idle
  PROVE  Alone'
<1>1. \A q, p \in Requests : request'[q] # Idle /\ request'[p] # Idle => q = p
  OBVIOUS
<1>2. queue' # << >> => \A q \in turn' : request'[q] = Idle
  OBVIOUS
<1>3. QED
  BY <1>1, <1>2 DEF Alone

LEMMA InitSentKeeps ==
  ASSUME ScriptInv, NEW r \in Requests, initSent(r) PROVE ScriptInv'
<1> USE DEF ScriptInv
<1> DEFINE p == [type |-> "init", history |-> request[r].history]
<1>1. /\ request[r] \in Request /\ request[r].history \in Seq(Answer)
      /\ request \in [Requests -> Request] /\ answers \in Seq(Answer)
  BY DEF TypeOK, Request
<1>2. p \in Payload /\ p.type = "init" /\ p.history = request[r].history
  BY <1>1, PayloadKinds
<1>3. Sends(r, p) /\ request[r].at = "read" /\ request[r] # Idle
      /\ UNCHANGED <<step, answers, completed, lastWord, emitted, raced, endedRaced>>
  BY IdleIsRequest DEF initSent, database, races
<1> HIDE DEF p
<1>4. /\ queue' \in Seq(Payload) /\ turn' \subseteq Requests
      /\ queue = << >> =>
           /\ Len(queue') <= 1
           /\ queue' # << >> => Head(queue') = p /\ r \notin turn'
  BY <1>2, <1>3, SendEffect
<1>5. /\ Moves(r) /\ request'[r].at \in {"idle", "saving"}
      /\ request'[r].at = "saving" => request'[r].answer \in Answer
  <2>1. CASE request[r].answer = "nothing"
    BY <2>1, FinishMoves, IdleIsRequest DEF initSent
  <2>2. CASE request[r].answer # "nothing"
    <3> DEFINE v == [request[r] EXCEPT !.at = "saving", !.history = << >>]
    <3>1. << >> \in Seq(Answer)
      OBVIOUS
    <3>2. v \in Request /\ v.at = "saving" /\ v.answer = request[r].answer
      BY <1>1, <3>1 DEF Request
    <3>3. request' = [request EXCEPT ![r] = v]
      BY <1>1, <2>2 DEF initSent
    <3> HIDE DEF v
    <3>4. Moves(r) /\ request'[r] = v
      BY <3>2, <3>3, CallMoves
    <3>5. request[r].answer \in Answer
      BY <1>1, <2>2 DEF Request
    <3>6. QED
      BY <3>2, <3>4, <3>5
  <2>3. QED
    BY <2>1, <2>2
<1>6. TypeOK'
  BY <1>1, <1>3, <1>4, <1>5, SendTypes
<1>7. CallInv'
  BY <1>5 DEF CallInv, Moves
<1>8. EndInv'
  BY <1>3, Zenon DEF EndInv
<1>9. ASSUME Clean' PROVE Alone' /\ Known' /\ Placed'
  <2>1. Clean
    BY <1>3, <1>9 DEF Clean
  <2>2. /\ \A q \in Requests \ {r} : request'[q] = Idle /\ request'[q].at = "idle"
        /\ \A q \in Requests \ {r} : request[q].at = "idle"
    BY <1>3, <1>5, <2>1, OthersIdle, IdleIsRequest DEF Moves
  <2>3. queue = << >>
    BY <1>3, <2>1, OthersIdle DEF initSent, Sends
  <2>4. /\ ~Saved /\ ~Saved'
        /\ \A q \in Requests : request'[q].at \notin {"saved", "read"}
    BY <1>3, <1>5, <2>2 DEF Saved
  <2>5. Known /\ Placed
    BY <2>1 DEF CleanInv
  <2>6. ~MessageQueued /\ ~MessageQueued'
    BY <1>2, <1>4, <2>3 DEF MessageQueued
  <2>7. p.history = answers
    BY <1>2, <1>3, <2>5 DEF Known
  <2>8. Alone'
    BY <1>4, <2>2, <2>3, AloneAgain
  <2>9. Known'
    BY <1>3, <1>4, <2>3, <2>4, <2>6, <2>7 DEF Known
  <2>10. Placed'
    BY <1>3, <2>4, <2>5, <2>6 DEF Placed, Pending
  <2>11. QED
    BY <2>8, <2>9, <2>10
<1>10. QED
  BY <1>6, <1>7, <1>8, <1>9 DEF CleanInv

LEMMA MessageSavedKeeps ==
  ASSUME ScriptInv, NEW r \in Requests, messageSaved(r) PROVE ScriptInv'
<1> USE DEF ScriptInv
<1> DEFINE a == request[r].answer
<1>1. /\ request[r].at = "saving" /\ a \in Answer /\ answers \in Seq(Answer)
      /\ request[r] # Idle
  BY IdleIsRequest DEF messageSaved, CallInv, TypeOK
<1>2. /\ answers' = Append(answers, a)
      /\ Moves(r) /\ request'[r].at = "saved" /\ request'[r].answer = a
  BY GotoMoves DEF messageSaved
<1>3. UNCHANGED <<step, queue, completed, turn, lastWord, emitted, raced, endedRaced>>
  BY DEF messageSaved, races
<1> HIDE DEF a
<1>4. /\ answers' \in Seq(Answer) /\ answers' # << >>
      /\ Len(answers') = Len(answers) + 1
      /\ answers'[Len(answers')] = a
      /\ Before(answers') = answers
      /\ Len(answers) >= 2 => answers'[2] = answers[2]
      /\ Ended(answers) => Ended(answers')
      /\ Accepted(answers) => Accepted(answers')
  BY <1>1, <1>2, AnswerAppended
<1>5. TypeOK'
  <2>1. queue' \in Seq(Payload) /\ turn' \subseteq Requests
    BY <1>3 DEF TypeOK
  <2>2. QED
    BY <1>2, <1>3, <1>4, <2>1, SendTypes
<1>6. CallInv'
  BY <1>1, <1>2 DEF CallInv, Moves
<1>7. EndInv'
  BY <1>3, <1>4, Zenon DEF EndInv
<1>8. ASSUME Clean' PROVE Alone' /\ Known' /\ Placed'
  <2>1. Clean
    BY <1>3, <1>8 DEF Clean
  <2>2. /\ \A q \in Requests \ {r} : request'[q] = Idle /\ request'[q].at = "idle"
        /\ \A q \in Requests \ {r} : request[q].at = "idle"
        /\ queue # << >> => r \notin turn
        /\ Len(queue) <= 1
    BY <1>1, <1>2, <2>1, OthersIdle, IdleIsRequest DEF Moves
  <2>3. Known /\ Placed
    BY <2>1 DEF CleanInv
  <2>4. ~MessageQueued /\ ~MessageQueued'
    BY <1>1, <1>3, <2>3 DEF Known, MessageQueued
  <2>5. ~Saved /\ Saved'
    BY <1>1, <1>2, <2>2 DEF Saved
  <2>6. ~Pending /\ Pending'
    BY <2>4, <2>5 DEF Pending
  <2>7. Alone'
    <3>1. turn' \subseteq Requests
      BY <1>5 DEF TypeOK
    <3>2. QED
      BY <1>3, <2>2, <3>1, AloneAgain
  <2>8. Known'
    <3>1. \A q \in Requests : request'[q].at = "saved" => q = r
      BY <2>2
    <3>2. \A q \in Requests : request'[q].at # "read"
      BY <1>2, <2>2
    <3>3. queue' # << >> /\ Head(queue').type = "init" =>
            Head(queue').history = Before(answers')
      BY <1>3, <1>4, <2>3, <2>5 DEF Known
    <3>4. QED
      BY <1>2, <1>4, <2>4, <2>5, <3>1, <3>2, <3>3 DEF Known
  <2>9. Placed'
    <3>1. step \in Questions => Len(answers) = Place(step) /\ Place(step) \in 0..4
      BY <2>3, <2>6, QuestionSteps DEF Placed
    <3>2. step \in Questions => Len(answers') = Place(step) + 1
      BY <1>4, <3>1
    <3>3. step = "await_domain" => Len(answers) >= 2
      BY <3>1, QuestionSteps DEF Questions
    <3>4. step = "await_domain" => answers'[2] # "yes"
      BY <1>4, <2>3, <3>3 DEF Placed
    <3>5. step = "closed" => Ended(answers')
      BY <1>4, <2>3 DEF Placed
    <3>6. QED
      BY <1>3, <2>6, <3>2, <3>4, <3>5 DEF Placed
  <2>10. QED
    BY <2>7, <2>8, <2>9
<1>9. QED
  BY <1>5, <1>6, <1>7, <1>8 DEF CleanInv

LEMMA MessageSentKeeps ==
  ASSUME ScriptInv, NEW r \in Requests, messageSent(r) PROVE ScriptInv'
<1> USE DEF ScriptInv
<1> DEFINE p == [type |-> "message", answer |-> request[r].answer]
<1>1. /\ request[r].at = "saved" /\ Sends(r, p) /\ request[r] # Idle
      /\ UNCHANGED <<step, answers, completed, lastWord, emitted, raced, endedRaced>>
  BY IdleIsRequest DEF messageSent, database, races
<1>2. request[r].answer \in Answer /\ answers \in Seq(Answer)
  BY <1>1 DEF CallInv, TypeOK
<1>3. p \in Payload /\ p.type = "message" /\ p.answer = request[r].answer
  BY <1>2, PayloadKinds
<1> HIDE DEF p
<1>4. /\ queue' \in Seq(Payload) /\ turn' \subseteq Requests
      /\ queue = << >> =>
           /\ Len(queue') <= 1
           /\ queue' # << >> => Head(queue') = p /\ r \notin turn'
           /\ queue' = << >> <=> step \in {"none", "closed"}
  BY <1>1, <1>3, SendEffect
<1>5. Moves(r) /\ request'[r] = Idle /\ request'[r].at = "idle"
  BY FinishMoves, IdleIsRequest DEF messageSent
<1>6. TypeOK'
  BY <1>1, <1>2, <1>4, <1>5, SendTypes
<1>7. CallInv'
  BY <1>5 DEF CallInv, Moves
<1>8. EndInv'
  BY <1>1, Zenon DEF EndInv
<1>9. ASSUME Clean' PROVE Alone' /\ Known' /\ Placed'
  <2>1. Clean
    BY <1>1, <1>9 DEF Clean
  <2>2. \A q \in Requests : request'[q] = Idle /\ request'[q].at = "idle"
    BY <1>1, <1>5, <2>1, OthersIdle, IdleIsRequest DEF Moves
  <2>3. queue = << >>
    BY <1>1, <2>1, OthersIdle DEF messageSent, Sends
  <2>4. Known /\ Placed
    BY <2>1 DEF CleanInv
  <2>5. answers # << >> /\ answers[Len(answers)] = p.answer
    BY <1>1, <1>3, <2>4 DEF Known
  <2>6. Alone'
    BY <1>4, <2>2, <2>3, AloneAgain
  <2>7. Known'
    <3>1. queue' # << >> => Head(queue').type = "message" /\ Head(queue').answer = p.answer
      BY <1>3, <1>4, <2>3
    <3>2. QED
      BY <1>1, <2>2, <2>5, <3>1 DEF Known, MessageQueued
  <2>8. Placed'
    <3>1. Pending
      BY <1>1 DEF Pending, Saved
    <3>2. step \in Questions => Pending'
      BY <1>3, <1>4, <2>3, QuestionSteps DEF Pending, MessageQueued
    <3>3. QED
      BY <1>1, <2>4, <3>1, <3>2 DEF Placed
  <2>9. QED
    BY <2>6, <2>7, <2>8
<1>10. QED
  BY <1>6, <1>7, <1>8, <1>9 DEF CleanInv
-----------------------------------------------------------------------------
(* The script's callback, the last word's handler and the session's end. *)

\* The next callback: what is queued is handled.
LEMMA HandleKeeps == ASSUME ScriptInv, handle PROVE ScriptInv'
<1> USE DEF ScriptInv
<1> DEFINE p == Head(queue)
           Enter(r) == /\ step' = r.step
                       /\ emitted' = r.says
                       /\ lastWord' = (lastWord \/ r.step = "closed")
                       /\ endedRaced' = (endedRaced \/ (raced /\ r.step = "closed"))
<1>1. queue # << >> /\ queue \in Seq(Payload) /\ queue' = Tail(queue)
      /\ turn' = {} /\ UNCHANGED <<answers, completed, request, raced>>
  BY DEF handle, TypeOK, database
<1>2. p \in Payload /\ queue' \in Seq(Payload)
  BY <1>1
<1>3. answers \in Seq(Answer) /\ Len(answers) \in Nat
  BY DEF TypeOK
<1>4. CallInv'
  BY <1>1 DEF CallInv
\* What follows when the script enters a step it may be in.
<1>5. ASSUME NEW v, Enter(v), v.step \in Questions \cup {"closed"}, v.says \in Utterance
      PROVE  TypeOK'
  <2>1. step' \in Step /\ emitted' \in Utterance \cup {"nothing"}
    BY <1>5, QuestionSteps
  <2>2. lastWord' \in BOOLEAN /\ endedRaced' \in BOOLEAN
    BY <1>5, Zenon DEF TypeOK
  <2>3. request' \in [Requests -> Request] /\ turn' \subseteq Requests
        /\ answers' \in Seq(Answer)
    BY <1>1 DEF TypeOK
  <2>4. completed' \in BOOLEAN /\ raced' \in BOOLEAN
    BY <1>1 DEF TypeOK
  <2>5. QED
    BY <1>2, <2>1, <2>2, <2>3, <2>4 DEF TypeOK
<1>6. ASSUME NEW v, Enter(v), v.step = "closed" => raced \/ Ended(answers),
             v.says = "finalAccepted" => v.step = "closed" /\ (raced \/ Accepted(answers))
      PROVE  EndInv'
  <2>1. SUFFICES ASSUME ~endedRaced'
                 PROVE  /\ lastWord' \/ completed' => Ended(answers')
                        /\ emitted' = "finalAccepted" => Accepted(answers')
    BY DEF EndInv
  <2>2. ~endedRaced /\ ~(raced /\ v.step = "closed")
    BY <1>6, <2>1, Zenon
  <2>3. lastWord' => lastWord \/ v.step = "closed"
    BY <1>6, Zenon
  <2>4. lastWord \/ completed => Ended(answers)
    BY <2>2, Zenon DEF EndInv
  <2>5. lastWord' \/ completed' => Ended(answers')
    BY <1>1, <1>6, <2>2, <2>3, <2>4, Zenon
  <2>6. emitted' = "finalAccepted" => Accepted(answers')
    BY <1>1, <1>6, <2>2, Zenon
  <2>7. QED
    BY <2>5, <2>6
\* In a clean session the queue is empty now.
<1>7. ASSUME Clean
      PROVE  /\ Alone /\ Known /\ Placed /\ queue' = << >> /\ Alone' /\ Known'
             /\ ~MessageQueued' /\ (Saved' <=> Saved)
  <2>1. Alone /\ Known /\ Placed
    BY <1>7 DEF CleanInv
  <2>2. queue' = << >>
    BY <1>1, <2>1, QueueOfOne DEF Alone
  <2>3. Alone'
    BY <1>1, <2>1, <2>2 DEF Alone
  <2>4. ~MessageQueued' /\ (Saved' <=> Saved)
    BY <1>1, <2>2 DEF MessageQueued, Saved
  <2>5. Known'
    BY <1>1, <2>1, <2>2, <2>4 DEF Known
  <2>6. QED
    BY <2>1, <2>2, <2>3, <2>4, <2>5
<1>8. CASE step \notin {"none", "closed"} /\ p.type = "init" /\ Enter(handleInit(p.history))
  <2> DEFINE h == p.history
             v == handleInit(h)
  <2>1. h \in Seq(Answer)
    BY <1>2, <1>8, PayloadKinds
  <2>2. Enter(v)
    BY <1>8
  <2>3. ASSUME Clean
        PROVE  /\ Ended(h) => Ended(answers)
               /\ Accepted(h) => Accepted(answers)
               /\ Len(answers) = Len(h) + (IF Saved THEN 1 ELSE 0)
               /\ Len(h) >= 2 => h[2] = answers[2]
    <3>1. h = IF Saved THEN Before(answers) ELSE answers
      BY <1>1, <1>7, <1>8, <2>3 DEF Known
    <3>2. CASE Saved
      <4>1. answers # << >>
        BY <1>7, <2>3, <3>2 DEF Known, Saved
      <4>2. QED
        BY <1>3, <3>1, <3>2, <4>1, BeforeProperties
    <3>3. CASE ~Saved
      BY <1>3, <3>1, <3>3
    <3>4. QED
      BY <3>2, <3>3
  <2> HIDE DEF h
  <2>4. /\ v.step \in Questions \cup {"closed"}
        /\ v.says \in Utterance
        /\ v.step \in Questions => Len(h) = Place(v.step)
        /\ v.step = "await_domain" => h[2] # "yes"
        /\ v.step = "closed" => Ended(h)
        /\ v.says = "finalAccepted" => Accepted(h) /\ v.step = "closed"
    BY <2>1, HandleInitResult
  <2> HIDE DEF v
  <2>5. TypeOK'
    BY <1>5, <2>2, <2>4
  <2>6. raced \/ Clean
    BY <1>8 DEF Clean
  <2>7. EndInv'
    BY <1>6, <2>2, <2>3, <2>4, <2>6
  <2>8. ASSUME Clean' PROVE Alone' /\ Known' /\ Placed'
    <3>1. Clean /\ step' = v.step
      BY <1>1, <1>8, <2>2, <2>8 DEF Clean
    <3>2. Pending' <=> Saved
      BY <1>7, <3>1 DEF Pending
    <3>3. step' \in Questions =>
            Len(answers) = Place(step') + (IF Saved THEN 1 ELSE 0)
      BY <2>3, <2>4, <3>1
    <3>4. step' = "await_domain" => answers[2] # "yes"
      <4>1. step' = "await_domain" => Len(h) = 2
        BY <2>4, <3>1, QuestionSteps DEF Questions
      <4>2. step' = "await_domain" => h[2] # "yes"
        BY <2>4, <3>1
      <4>3. Len(h) = 2 => h[2] = answers[2]
        BY <2>3, <3>1
      <4>4. QED
        BY <4>1, <4>2, <4>3
    <3>5. step' = "closed" => Ended(answers)
      BY <2>3, <2>4, <3>1
    <3>6. Placed'
      BY <1>1, <3>2, <3>3, <3>4, <3>5 DEF Placed
    <3>7. QED
      BY <1>7, <3>1, <3>6
  <2>9. QED
    BY <1>4, <2>5, <2>7, <2>8 DEF CleanInv
<1>9. CASE step \notin {"none", "closed", "await_init"} /\ p.type = "message"
           /\ Enter(handleClientMessage(step, p.answer))
  <2> DEFINE a == p.answer
             v == handleClientMessage(step, a)
  <2>1. a \in Answer /\ step \in Questions
    BY <1>2, <1>9, PayloadKinds, QuestionSteps DEF TypeOK
  <2>2. Enter(v)
    BY <1>9
  <2>3. MessageQueued
    BY <1>1, <1>9 DEF MessageQueued
  <2>4. ASSUME Clean
        PROVE  ~Saved /\ a = answers[Len(answers)] /\ Len(answers) = Place(step) + 1
    <3>1. ~Saved /\ a = answers[Len(answers)]
      BY <1>7, <2>3, <2>4 DEF Known, Saved
    <3>2. Len(answers) = Place(step) + 1
      BY <1>7, <2>1, <2>3, <2>4 DEF Placed, Pending
    <3>3. QED
      BY <3>1, <3>2
  <2> HIDE DEF a
  <2>5. /\ v.step \in Questions \cup {"closed"}
        /\ v.says \in Utterance
        /\ v.step \in Questions => Place(v.step) = Place(step) + 1
        /\ v.step = "await_domain" => Place(step) = 1 /\ a # "yes"
        /\ v.step = "closed" => (Place(step) = 1 /\ a = "yes") \/ Place(step) = 4
        /\ v.says = "finalAccepted" =>
             Place(step) = 1 /\ a = "yes" /\ v.step = "closed"
    BY <2>1, HandleClientMessageResult
  <2> HIDE DEF v
  <2>6. TypeOK'
    BY <1>5, <2>2, <2>5
  <2>7. raced \/ Clean
    BY <1>9 DEF Clean
  <2>8. Clean => /\ v.step = "closed" => Ended(answers)
                 /\ v.says = "finalAccepted" => Accepted(answers)
    BY <2>4, <2>5 DEF Ended, Accepted
  <2>9. EndInv'
    BY <1>6, <2>2, <2>5, <2>7, <2>8
  <2>10. ASSUME Clean' PROVE Alone' /\ Known' /\ Placed'
    <3>1. Clean /\ step' = v.step
      BY <1>1, <1>9, <2>2, <2>10 DEF Clean
    <3>2. ~Pending'
      BY <1>7, <2>4, <3>1 DEF Pending
    <3>3. step' \in Questions => Len(answers) = Place(step')
      BY <2>4, <2>5, <3>1
    <3>4. step' = "await_domain" => answers[2] # "yes"
      <4>1. step' = "await_domain" => Place(step) = 1 /\ a # "yes"
        BY <2>5, <3>1
      <4>2. Place(step) = 1 => Len(answers) = 2
        BY <2>4, <3>1
      <4>3. a = answers[Len(answers)]
        BY <2>4, <3>1
      <4>4. QED
        BY <4>1, <4>2, <4>3
    <3>5. \A s \in Questions : Place(s) + 0 = Place(s)
      BY QuestionSteps
    <3>6. Placed'
      BY <1>1, <2>8, <3>1, <3>2, <3>3, <3>4, <3>5 DEF Placed
    <3>7. QED
      BY <1>7, <3>1, <3>6
  <2>11. QED
    BY <1>4, <2>6, <2>9, <2>10 DEF CleanInv
<1>10. CASE /\ step \in {"none", "closed"} \/ step = "await_init"
            /\ UNCHANGED <<step, emitted, lastWord, endedRaced>>
  <2>1. TypeOK'
    <3>1. step' \in Step /\ emitted' \in Utterance \cup {"nothing"}
      BY <1>10 DEF TypeOK
    <3>2. lastWord' \in BOOLEAN /\ endedRaced' \in BOOLEAN
          /\ completed' \in BOOLEAN /\ raced' \in BOOLEAN
      BY <1>1, <1>10 DEF TypeOK
    <3>3. request' \in [Requests -> Request] /\ turn' \subseteq Requests
          /\ answers' \in Seq(Answer)
      BY <1>1 DEF TypeOK
    <3>4. QED
      BY <1>2, <3>1, <3>2, <3>3 DEF TypeOK
  <2>2. EndInv'
    BY <1>1, <1>10, Zenon DEF EndInv
  <2>3. ASSUME Clean' PROVE Alone' /\ Known' /\ Placed'
    <3>1. Clean
      BY <1>1, <1>10, <2>3 DEF Clean
    <3>2. Placed'
      BY <1>1, <1>7, <1>10, <3>1, QuestionSteps DEF Placed
    <3>3. QED
      BY <1>7, <3>1, <3>2
  <2>4. QED
    BY <1>4, <2>1, <2>2, <2>3 DEF CleanInv
<1>11. QED
  BY <1>8, <1>9, <1>10 DEF handle

LEMMA LastWordKeeps ==
  ASSUME ScriptInv, lastWordSaved \/ lastWordLost PROVE ScriptInv'
<1> USE DEF ScriptInv
<1>1. /\ lastWord = TRUE /\ lastWord' = FALSE
      /\ UNCHANGED <<queue, answers, request, turn, emitted, raced, endedRaced>>
      /\ step' \in {step, "none"} /\ completed' \in {completed, TRUE}
  BY DEF lastWordSaved, lastWordLost, TypeOK, database, races
<1>2. ~endedRaced => Ended(answers)
  BY <1>1, Zenon DEF EndInv
<1>3. TypeOK'
  BY <1>1, QuestionSteps DEF TypeOK
<1>4. CallInv'
  BY <1>1 DEF CallInv
<1>5. EndInv'
  BY <1>1, <1>2, Zenon DEF EndInv
<1>6. ASSUME Clean' PROVE Alone' /\ Known' /\ Placed'
  <2>1. Clean /\ step' = step
    BY <1>1, <1>6 DEF Clean
  <2>2. Alone /\ Known /\ Placed
    BY <2>1 DEF CleanInv
  <2>3. Alone' /\ Known'
    BY <1>1, <2>2 DEF Alone, Known, MessageQueued, Saved
  <2>4. Placed'
    BY <1>1, <2>1, <2>2 DEF Placed, Pending, MessageQueued, Saved
  <2>5. QED
    BY <2>3, <2>4
<1>7. QED
  BY <1>3, <1>4, <1>5, <1>6 DEF CleanInv

LEMMA CloseKeeps == ASSUME ScriptInv, close \/ Crash PROVE ScriptInv'
<1> USE DEF ScriptInv
<1>1. /\ step' = "none" /\ UNCHANGED <<answers, completed, emitted, raced, endedRaced>>
      /\ lastWord' \in {lastWord, FALSE}
      /\ \/ UNCHANGED <<queue, request, turn>>
         \/ queue' = << >> /\ request' = [r \in Requests |-> Idle] /\ turn' = {}
  BY DEF close, Crash, database, races
<1>2. TypeOK'
  <2>1. << >> \in Seq(Payload)
    OBVIOUS
  <2>2. queue' \in Seq(Payload) /\ request' \in [Requests -> Request]
        /\ turn' \subseteq Requests
    BY <1>1, <2>1, IdleIsRequest DEF TypeOK
  <2>3. step' \in Step
    BY <1>1, QuestionSteps
  <2>4. lastWord' \in BOOLEAN /\ completed' \in BOOLEAN /\ raced' \in BOOLEAN
        /\ endedRaced' \in BOOLEAN
    BY <1>1 DEF TypeOK
  <2>5. answers' \in Seq(Answer) /\ emitted' \in Utterance \cup {"nothing"}
    BY <1>1 DEF TypeOK
  <2>6. QED
    BY <2>2, <2>3, <2>4, <2>5 DEF TypeOK
<1>3. CallInv'
  BY <1>1, IdleIsRequest DEF CallInv
<1>4. EndInv'
  <2>1. lastWord' => lastWord
    BY <1>1, Zenon
  <2>2. QED
    BY <1>1, <2>1, Zenon DEF EndInv
<1>5. ~Clean'
  BY <1>1 DEF Clean
<1>6. QED
  BY <1>2, <1>3, <1>4, <1>5 DEF CleanInv
-----------------------------------------------------------------------------
LEMMA ScriptInvAlways == Spec => []ScriptInv
<1>1. ASSUME Init PROVE ScriptInv
  <2> USE <1>1 DEF Init
  <2>1. TypeOK
    <3>1. queue \in Seq(Payload) /\ answers \in Seq(Answer)
      OBVIOUS
    <3>2. request \in [Requests -> Request]
      BY IdleIsRequest
    <3>3. QED
      BY <3>1, <3>2, QuestionSteps DEF TypeOK
  <2>2. CallInv
    BY IdleIsRequest DEF CallInv
  <2>3. ~Clean
    BY DEF Clean
  <2>4. EndInv
    BY DEF EndInv
  <2>5. QED
    BY <2>1, <2>2, <2>3, <2>4 DEF ScriptInv, CleanInv
<1>2. ASSUME ScriptInv, [Next]_vars PROVE ScriptInv'
  <2>1. CASE UNCHANGED vars
    <3>1. TypeOK'
      BY <1>2, <2>1 DEF vars, ScriptInv, TypeOK
    <3>2. CallInv'
      BY <1>2, <2>1 DEF vars, ScriptInv, CallInv
    <3>3. CleanInv'
      BY <1>2, <2>1 DEF vars, ScriptInv, CleanInv, Clean, Alone, Known, Placed,
                        Pending, Saved, MessageQueued
    <3>4. EndInv'
      BY <1>2, <2>1, Zenon DEF vars, ScriptInv, EndInv
    <3>5. QED
      BY <3>1, <3>2, <3>3, <3>4 DEF ScriptInv
  <2>2. CASE \E r \in Requests :
               \/ startChat(r) \/ (\E a \in Answer : sendUserMessage(r, a))
               \/ sessionFound(r) \/ historyRead(r) \/ initSent(r)
               \/ messageSaved(r) \/ messageSent(r) \/ databaseFails(r)
    BY <1>2, <2>2, StartChatKeeps, SendUserMessageKeeps, SessionFoundKeeps,
       HistoryReadKeeps, InitSentKeeps, MessageSavedKeeps, MessageSentKeeps,
       DatabaseFailsKeeps
  <2>3. QED
    BY <1>2, <2>1, <2>2, HandleKeeps, LastWordKeeps, CloseKeeps DEF Next
<1>3. QED
  BY <1>1, <1>2, PTL DEF Spec

\* The script, its queue and the service's calls have their types.
THEOREM TypeCorrect == Spec => []TypeOK
BY ScriptInvAlways, PTL DEF ScriptInv

\* The benchmark is accepted only by a user whose second answer is yes, however
\* often the script was restored and whatever calls overlapped before, as long
\* as no session in which calls overlapped has ended the script.
THEOREM AcceptedMeansYesUnlessRacedAlways == Spec => []AcceptedMeansYesUnlessRaced
<1>1. ScriptInv => AcceptedMeansYesUnlessRaced
  BY DEF ScriptInv, EndInv, Accepted, AcceptedMeansYesUnlessRaced
<1>2. QED
  BY <1>1, ScriptInvAlways, PTL

\* When the script has come to its end handleInit knows it, unless answers
\* were saved after it.
LEMMA EndedMeansClosed ==
  ASSUME NEW h \in Seq(Answer), Ended(h), ~(Len(h) > 2 /\ h[2] = "yes")
  PROVE  handleInit(h).step = "closed"
<1>1. Len(h) \in Nat
  OBVIOUS
<1>2. CASE Len(h) >= 5
  BY <1>2 DEF handleInit
<1>3. CASE ~(Len(h) >= 5)
  <2>1. Len(h) >= 2 /\ h[2] = "yes"
    BY <1>3 DEF Ended, Accepted
  <2>2. ~(Len(h) > 2)
    BY <2>1
  <2>3. Len(h) = 2
    <3>1. \A n \in Nat : n >= 2 /\ ~(n > 2) => n = 2
      OBVIOUS
    <3>2. QED
      BY <1>1, <2>1, <2>2, <3>1
  <2>4. QED
    BY <2>1, <2>3 DEF handleInit
<1>4. QED
  BY <1>2, <1>3

\* A conversation is completed only when the answers end the script, unless a
\* session in which calls overlapped has ended it.
THEOREM CompletedMeansEndedUnlessRacedAlways ==
  Spec => []CompletedMeansEndedUnlessRaced
<1>1. ScriptInv => CompletedMeansEndedUnlessRaced
  BY EndedMeansClosed
     DEF ScriptInv, TypeOK, EndInv, CompletedMeansEndedUnlessRaced, Surplus
<1>2. QED
  BY <1>1, ScriptInvAlways, PTL

\* The script restored from the saved answers stands where the live one does in
\* every session in which no two calls were at work at once, whatever calls
\* overlapped in the sessions before it.
THEOREM RestoreMatchesLiveUnlessRacedAlways ==
  Spec => []RestoreMatchesLiveUnlessRaced
<1>1. ASSUME ScriptInv, queue = << >>, AtWork = {},
             step \notin {"none", "await_init"}, ~Surplus, ~raced
      PROVE  step = handleInit(answers).step
  <2> USE <1>1 DEF ScriptInv
  <2>1. answers \in Seq(Answer) /\ Len(answers) \in Nat
    BY DEF TypeOK
  <2>2. Placed
    BY DEF CleanInv, Clean
  <2>3. CASE step = "closed"
    BY <2>1, <2>2, <2>3, EndedMeansClosed DEF Placed, Surplus
  <2>4. CASE step \in Questions
    <3>1. ~Pending
      <4>1. \A r \in Requests : request[r].at = "idle"
        BY IdleIsRequest DEF AtWork
      <4>2. QED
        BY <4>1 DEF Pending, Saved, MessageQueued
    <3>2. Len(answers) = Place(step)
      BY <2>2, <2>4, <3>1, QuestionSteps DEF Placed
    <3>3. Place(step) = 2 => answers[2] # "yes"
      BY <2>2, <2>4 DEF Placed, Place, Questions
    <3>4. QED
      <4> USE <2>4, <3>2, <3>3 DEF Place, Questions, handleInit
      <4>1. CASE step = "await_initial_text"
        BY <4>1
      <4>2. CASE step = "await_yes_no"
        BY <4>2
      <4>3. CASE step = "await_domain"
        BY <4>3
      <4>4. CASE step = "await_difficulty"
        BY <4>4
      <4>5. CASE step = "await_dataset_size"
        BY <4>5
      <4>6. QED
        BY <4>1, <4>2, <4>3, <4>4, <4>5
  <2>5. QED
    BY <2>3, <2>4, QuestionSteps DEF TypeOK
<1>2. ScriptInv => RestoreMatchesLiveUnlessRaced
  BY <1>1 DEF RestoreMatchesLiveUnlessRaced
<1>3. QED
  BY <1>2, ScriptInvAlways, PTL
=============================================================================
