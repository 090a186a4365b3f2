---------------------------- MODULE MCConfigReload ----------------------------
(* TLC instances of ConfigReload. *)
EXTENDS ConfigReload, TLC

\* "empty" is what a file holds between the truncation and the writing of an edit; "short"
\* leaves a string null; "manual" turns hot reload off; "highPort" and "torn" throw.
MCDocument == {"empty", "short", "manual", "highPort", "torn"}

MCUnparsable == {"torn"}

Number(n) == [kind |-> "number", value |-> n]

MCEntries ==
    [d \in MCDocument |->
        CASE d = "short"    -> [jwt_secret |-> [kind |-> "null", value |-> ""],
                                port |-> Number(9000), check_interval_ms |-> Number(0)]
          [] d = "manual"   -> [enabled |-> [kind |-> "flag", value |-> FALSE]]
          [] d = "highPort" -> [port |-> Number(65536)]
          [] OTHER          -> << >>]
==============================================================================
