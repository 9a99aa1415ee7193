---------------------------- MODULE MCConnectHistory ---------------------------
(* ConnectHistory with the smallest counts the configuration allows, for TLC.       *)
EXTENDS ConnectHistory

Counts(attempts, failures, churn, controls) ==
    [c \in Codes |->
        CASE c = "repeated_connection_attempts" -> attempts
          [] c = "repeated_link_failures" -> failures
          [] c = "connection_churn" -> churn
          [] c = "frequent_controls" -> controls]
Notices == Counts(3, 3, 4, 6)
Warnings == Counts(4, 4, 5, 8)
===============================================================================
