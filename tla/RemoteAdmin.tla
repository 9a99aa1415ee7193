------------------------------ MODULE RemoteAdmin ------------------------------
(* remote_admin.py: the policy read from /etc/bluenode, the sessions, and the      *)
(* limit on login attempts.  Every operator is one region under the lock of        *)
(* RemoteAdmin; AdminRadio interleaves them.  Tokens, hashes and the audit file     *)
(* are left out: a token is the number of the session, 0 is no cookie.              *)
EXTENDS Integers, Sequences, FiniteSets, Functions

CONSTANTS
    Clients,          \* client_key: the addresses that log in
    Window,           \* login_window_seconds
    MaxAttempts,      \* max_login_attempts
    MaxLoginClients,  \* MAX_LOGIN_CLIENTS
    MaxSessions,      \* MAX_SESSIONS
    SessionSeconds    \* session_seconds

ASSUME RemoteAdminAssumption ==
    {Window, MaxAttempts, MaxLoginClients, MaxSessions, SessionSeconds} \subseteq Nat \ {0}

VARIABLES
    now,        \* clock
    settings,   \* the intent marker and the configuration file
    sessions,   \* the sessions by token
    attempts    \* login_attempts; no attempts is no entry

Intents == {"missing", "configured", "damaged"}
Files == {"missing", "off", "on", "damaged"}
AllSettings == [intent : Intents, file : Files, listen : BOOLEAN]

-------------------------------------------------------------------------------
(* _safe_config: a policy that cannot be read is an error, never the local mode.   *)
Policy ==
    LET marked == settings.intent = "configured"
        state ==
            CASE settings.intent = "damaged" -> "CONFIG_ERROR"
              [] settings.intent # "damaged" /\ settings.file = "off" -> "DISABLED"
              [] settings.intent # "damaged" /\ settings.file = "missing" ->
                     IF marked THEN "CONFIG_ERROR" ELSE "DISABLED"
              [] settings.intent # "damaged" /\ settings.file = "on" ->
                     IF marked THEN "ENABLED" ELSE "CONFIG_ERROR"
              [] OTHER -> "CONFIG_ERROR"
    IN  [state |-> state, listen |-> state = "ENABLED" /\ settings.listen]
Enabled(policy) == policy.state = "ENABLED"

\* _purge
Purged == Restrict(sessions, {t \in DOMAIN sessions : sessions[t].expires > now})
Forget(table, key) == Restrict(table, DOMAIN table \ {key})
With(table, key, entry) == [k \in DOMAIN table \cup {key} |-> IF k = key THEN entry ELSE table[k]]

\* authenticate: whether the token names a session made under this policy.
Authentic(token, policy) ==
    /\ Enabled(policy)
    /\ token \in DOMAIN Purged
    /\ sessions[token].policy = policy

\* authenticate: the sessions it leaves; one of another policy is dropped, a
\* disabled policy drops them all.
Authenticated(token, policy) ==
    CASE ~Enabled(policy) -> << >>
      [] Enabled(policy) /\ token = 0 -> sessions
      [] Enabled(policy) /\ token # 0 ->
             IF Authentic(token, policy) THEN Purged ELSE Forget(Purged, token)

\* has_permission reads the policy itself.
Permitted(token) == Authentic(token, Policy) /\ Policy.listen

-------------------------------------------------------------------------------
(* login: the table of the attempts, pruned from its old end, and the attempt that is  *)
(* reserved before the password is verified.  The time is the one the login read       *)
(* before it took the lock.                                                            *)
Expired(client, time) ==
    {i \in DOMAIN attempts[client] : \A j \in 1..i : attempts[client][j] <= time - Window}
Recent(client, time) ==
    SubSeq(attempts[client], Cardinality(Expired(client, time)) + 1, Len(attempts[client]))

\* Mutant: the number of failures is compared after one more is allowed.
AdmitOneMore(client, time) == Len(Recent(client, time)) <= MaxAttempts

MayAttempt(client, time) ==
    /\ \/ Recent(client, time) # << >>
       \/ Cardinality({c \in Clients : Recent(c, time) # << >>}) < MaxLoginClients
    /\ Len(Recent(client, time)) < MaxAttempts

Reserved(client, time) ==
    [c \in Clients |-> IF c = client /\ MayAttempt(c, time) THEN Append(Recent(c, time), time)
                                                          ELSE Recent(c, time)]

\* The session of a login that began at the time given, if there is room for it.
HasRoom == Cardinality(DOMAIN Purged) < MaxSessions
WithSession(token, began, policy) ==
    IF HasRoom THEN With(Purged, token, [expires |-> began + SessionSeconds, policy |-> policy])
    ELSE Purged
===============================================================================
