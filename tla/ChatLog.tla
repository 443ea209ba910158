------------------------------ MODULE ChatLog ------------------------------
(***************************************************************************)
(* What the chat promises about its log (src/conversations, service and    *)
(* repository; Conversation and ConversationMessage of the schema).  A     *)
(* conversation is created once, its messages are only appended, and it is *)
(* completed once the last word is there, for good.  The log comes first:  *)
(* a client is shown, and an agent told, only what is in it.  Who attends  *)
(* may vanish at any moment, for any number of conversations at once; what *)
(* was told is forgotten then, what was saved is not.                      *)
(***************************************************************************)
EXTENDS Naturals, Sequences

CONSTANT Convs

VARIABLES status,    \* "absent", "active" or "completed"
          messages,  \* the saved messages of each conversation, in order
          shown,     \* numbers of the messages some client was shown
          attended,  \* the conversations an agent attends
          told       \* what the agent that attends was told

logVars == <<status, messages, shown, attended, told>>

Saved(c) == {messages[c][i] : i \in DOMAIN messages[c]}
Numbers(c) == {m.id : m \in Saved(c)}

\* An agent is told a prefix of the log by its length, a message by its number.
InLog(c, p) == IF p.type = "init" THEN p.n <= Len(messages[c])
                                  ELSE p.n \in Numbers(c)

Init == /\ status = [c \in Convs |-> "absent"]
        /\ messages = [c \in Convs |-> << >>]
        /\ shown = {}
        /\ attended = {}
        /\ told = [c \in Convs |-> {}]

Create(c) == /\ status[c] = "absent"
             /\ status' = [status EXCEPT ![c] = "active"]
             /\ UNCHANGED <<messages, shown, attended, told>>

\* A message may still come in after the last word.
Save(c) == /\ status[c] # "absent"
           /\ \E i \in DOMAIN messages'[c] :
                messages' = [messages EXCEPT ![c] = Append(@, messages'[c][i])]
           /\ UNCHANGED <<status, shown, attended, told>>

Complete(c) == /\ \E m \in Saved(c) : m.isFinal
               /\ status' = [status EXCEPT ![c] = "completed"]
               /\ UNCHANGED <<messages, shown, attended, told>>

Show(c) == /\ \E n \in Numbers(c) : shown' = shown \cup {n}
           /\ UNCHANGED <<status, messages, attended, told>>

Attend(c) == /\ status[c] # "absent"
             /\ attended' = attended \cup {c}
             /\ UNCHANGED <<status, messages, shown, told>>

Tell(c) == /\ c \in attended
           /\ \E p \in told'[c] :
                /\ InLog(c, p)
                /\ told' = [told EXCEPT ![c] = @ \cup {p}]
           /\ UNCHANGED <<status, messages, shown, attended>>

Leave == /\ UNCHANGED <<status, messages, shown>>
         /\ attended' \subseteq attended
         /\ told' = [c \in Convs |-> IF c \in attended' THEN told[c] ELSE {}]

Next == \/ Leave
        \/ \E c \in Convs : \/ Create(c) \/ Save(c) \/ Complete(c)
                            \/ Show(c) \/ Attend(c) \/ Tell(c)

Spec == Init /\ [][Next]_logVars
=============================================================================
