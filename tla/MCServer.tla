------------------------------- MODULE MCServer -------------------------------
(* TLC instances of Server. *)
EXTENDS Server

\* Two files: one leaves storage to the environment and the command line, and asks for it then;
\* the other asks for it, goes without it where it must, and leaves the tables to others.
MCStorages ==
    {[enabled |-> FALSE, allowWithout |-> FALSE, autoMigrate |-> TRUE],
     [enabled |-> TRUE, allowWithout |-> TRUE, autoMigrate |-> FALSE]}
==============================================================================
