---------------------------- MODULE MCManagement ----------------------------
(***************************************************************************)
(* Management for TLC: two sessions of one host, whose forwards share ids    *)
(* and, if one is paused, ports.                                             *)
(***************************************************************************)
EXTENDS Management, TLC

CONSTANTS s1, s2

MCTarget == s1 :> "host" @@ s2 :> "host"

MCAddresses == s1 :> {"a1"} @@ s2 :> {"a1", "a2"}

MCStarts ==
    {s1 :> <<11, 12>> @@ s2 :> <<11>>}

MCInvocations ==
    {[op |-> "list", name |-> ""], [op |-> "close all", name |-> ""],
     [op |-> "forward", name |-> "host"]}
      \cup {[op |-> "close", name |-> n] : n \in {1, 11}}
=============================================================================
