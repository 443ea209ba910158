----------------------------- MODULE MCAgentWs -----------------------------
(***************************************************************************)
(* AgentWs on a small instance: two socket identities (the current one and *)
(* one that an earlier session left closing), two payloads, three attempts.*)
(***************************************************************************)
EXTENDS AgentWs
=============================================================================
