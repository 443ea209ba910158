---------------------------- MODULE AgentChannel ----------------------------
(***************************************************************************)
(* What a caller of IAgentService may count on, for one conversationId     *)
(* (src/conversations/agent/agent.service.interface.ts): connect, onMessage,*)
(* send and close.  Between a connect and the close that ends it the agent *)
(* is written exactly the accepted payloads, each once, in the order of    *)
(* the send calls; after the close nothing more is written and no callback *)
(* runs.  The time of writing is left open: a payload may wait.            *)
(***************************************************************************)
EXTENDS Naturals, Sequences

CONSTANT Payloads       \* what send may be given

VARIABLES isOpen,       \* a connect that no close has ended
          accepted,     \* the payloads send took, since the last connect
          written,      \* the payloads written to the agent, since then
          heard         \* the number of callback invocations, since then

channelVars == <<isOpen, accepted, written, heard>>

Init == /\ isOpen = FALSE
        /\ accepted = << >>
        /\ written = << >>
        /\ heard = 0

Connect == /\ ~isOpen
           /\ isOpen' = TRUE
           /\ accepted' = << >>
           /\ written' = << >>
           /\ heard' = 0

\* A payload is accepted and waits its turn.
Accept == /\ isOpen
          /\ \E p \in Payloads : accepted' = Append(accepted, p)
          /\ UNCHANGED <<isOpen, written, heard>>

\* A payload is accepted and written at once: only when none is waiting.
WriteThrough == /\ isOpen
                /\ written = accepted
                /\ \E p \in Payloads : accepted' = Append(accepted, p)
                /\ written' = accepted'
                /\ UNCHANGED <<isOpen, heard>>

\* Everything that waits is written.
Flush == /\ isOpen
         /\ written # accepted
         /\ written' = accepted
         /\ UNCHANGED <<isOpen, accepted, heard>>

\* The callbacks run for one message of the agent.
Hear == /\ isOpen
        /\ heard' \in Nat
        /\ heard' > heard
        /\ UNCHANGED <<isOpen, accepted, written>>

Close == /\ isOpen
         /\ isOpen' = FALSE
         /\ UNCHANGED <<accepted, written, heard>>

Next == Connect \/ Accept \/ WriteThrough \/ Flush \/ Hear \/ Close

Spec == Init /\ [][Next]_channelVars
=============================================================================
