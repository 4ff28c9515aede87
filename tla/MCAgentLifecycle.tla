-------------------------- MODULE MCAgentLifecycle --------------------------
(* A small instance of AgentLifecycle for TLC. *)
EXTENDS AgentLifecycle, TLC

CONSTANTS k1, k2, web

MCAddress ==
    [c \in Conn |-> [client |-> [ip |-> "host", port |-> c],
                     server |-> [ip |-> "host", port |-> web]]]

MCMap == Process

Connections == Permutations(Conn)
=============================================================================
