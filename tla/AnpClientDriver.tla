-------------------------- MODULE AnpClientDriver --------------------------
(***************************************************************************)
(* driver-anp-client: the connection to an ANP peer, which several callers *)
(* may set up or renew at the same time, and the sends that rest on it.    *)
(* Each successful transport.connect begins a session; `peer` and          *)
(* `negotiated` are known by the session they come from. The driver's      *)
(* locks are held for single reads and writes, never across them.          *)
(***************************************************************************)
EXTENDS Naturals, FiniteSets

CONSTANTS
  Caller,        \* those who call connect, send_invoke and send_cancel
  MaxSessions    \* bound: sessions begun

VARIABLES
  state,         \* AnpClientState
  peer,          \* the session of the verified peer, 0 for None
  capabilities,  \* the session whose capabilities are known, 0 for None
  negotiated,    \* the session whose profile is negotiated, 0 for None
  expired,       \* sessions whose profile has run out
  sessions,      \* sessions begun
  at,            \* [Caller -> where in connect or send it is]
  holds,         \* [Caller -> the session it works on]
  sends          \* (session, was its profile negotiated?) of the sends so far

anpVars == <<state, peer, capabilities, negotiated, expired, sessions, at, holds, sends>>

Init ==
  /\ state = "Disconnected" /\ peer = 0 /\ capabilities = 0 /\ negotiated = 0
  /\ expired = {} /\ sessions = 0
  /\ at = [c \in Caller |-> "idle"] /\ holds = [c \in Caller |-> 0]
  /\ sends = {}

-----------------------------------------------------------------------------
(* state.rs                                                                *)

\* Mutant: a connection may be renewed in any state.
LegalAnywhere(from, to) == TRUE

\* transition
Legal(from, to) ==
  \/ from = "Disconnected"     /\ to = "Connecting"
  \/ from = "Connecting"       /\ to \in {"IdentityVerified", "Failed"}
  \/ from = "IdentityVerified" /\ to \in {"Negotiating", "MessagingOnly", "Failed"}
  \/ from = "Negotiating"      /\ to \in {"TaskProfileReady", "MessagingOnly", "Failed"}
  \/ from = "TaskProfileReady" /\ to \in {"Connecting", "MessagingOnly", "Failed"}
  \/ from = "MessagingOnly"    /\ to \in {"Connecting", "Failed"}
  \/ from = "Failed"           /\ to = "Disconnected"

\* apply_transition on behalf of c: an illegal one ends its call with an error.
Apply(c, to, next) ==
  IF Legal(state, to)
  THEN state' = to /\ at' = [at EXCEPT ![c] = next]
  ELSE at' = [at EXCEPT ![c] = "idle"] /\ UNCHANGED state

-----------------------------------------------------------------------------
(* connect                                                                 *)

ConnectCall(c) ==
  /\ at[c] = "idle"
  /\ Apply(c, "Connecting", "connecting")
  /\ UNCHANGED <<peer, capabilities, negotiated, expired, sessions, holds,
                 sends>>

ConnectFails(c) ==
  /\ at[c] = "connecting"
  /\ Apply(c, "Failed", "idle")
  /\ UNCHANGED <<peer, capabilities, negotiated, expired, sessions, holds,
                 sends>>

\* The peer is verified; the state says so before `peer` does.
Verified(c) ==
  /\ at[c] = "connecting" /\ sessions < MaxSessions
  /\ sessions' = sessions + 1
  /\ holds' = [holds EXCEPT ![c] = sessions + 1]
  /\ Apply(c, "IdentityVerified", "verified")
  /\ UNCHANGED <<peer, capabilities, negotiated, expired, sends>>

StorePeer(c) ==
  /\ at[c] = "verified"
  /\ peer' = holds[c]
  /\ at' = [at EXCEPT ![c] = "asking"]
  /\ UNCHANGED <<state, capabilities, negotiated, expired, sessions, holds,
                 sends>>

\* transport.capabilities: its error leaves connect, and the state as it is.
Capabilities(c) ==
  /\ at[c] = "asking"
  /\ \/ capabilities' = holds[c] /\ Apply(c, "Negotiating", "negotiating")
     \/ at' = [at EXCEPT ![c] = "idle"] /\ UNCHANGED <<state, capabilities>>
  /\ UNCHANGED <<peer, negotiated, expired, sessions, holds, sends>>

\* transport.negotiate: the result is stored, then the state.
Negotiated(c) ==
  /\ at[c] = "negotiating"
  /\ \/ negotiated' = holds[c]  /\ at' = [at EXCEPT ![c] = "agreed"]
     \/ negotiated' = 0         /\ at' = [at EXCEPT ![c] = "declined"]
     \/ UNCHANGED negotiated    /\ at' = [at EXCEPT ![c] = "broken"]
  /\ UNCHANGED <<state, peer, capabilities, expired, sessions, holds, sends>>

Outcome(c) ==
  /\ at[c] \in {"agreed", "declined", "broken"}
  /\ Apply(c, CASE at[c] = "agreed"   -> "TaskProfileReady"
                [] at[c] = "declined" -> "MessagingOnly"
                [] at[c] = "broken"   -> "Failed", "idle")
  /\ UNCHANGED <<peer, capabilities, negotiated, expired, sessions, holds,
                 sends>>

-----------------------------------------------------------------------------
(* send_invoke, send_cancel                                                *)

\* valid_until of a session's profile passes.
Expire ==
  /\ \E s \in 1..sessions \ expired : expired' = expired \cup {s}
  /\ UNCHANGED <<state, peer, capabilities, negotiated, sessions, at, holds,
                 sends>>

\* require_task_profile: three reads, the first of the state.
CheckState(c) ==
  /\ at[c] = "idle" /\ state = "TaskProfileReady"
  /\ at' = [at EXCEPT ![c] = "ready"]
  /\ UNCHANGED <<state, peer, capabilities, negotiated, expired, sessions,
                 holds, sends>>

CheckProfile(c) ==
  /\ at[c] = "ready"
  /\ at' = [at EXCEPT ![c] = IF negotiated # 0 /\ negotiated \notin expired
                             THEN "checked" ELSE "idle"]
  /\ UNCHANGED <<state, peer, capabilities, negotiated, expired, sessions,
                 holds, sends>>

\* peer_checked, then transport.send to that peer.
Send(c) ==
  /\ at[c] = "checked"
  /\ sends' = sends \cup {<<peer, negotiated = peer>>}
  /\ at' = [at EXCEPT ![c] = "idle"]
  /\ UNCHANGED <<state, peer, capabilities, negotiated, expired, sessions,
                 holds>>

Next ==
  \/ \E c \in Caller :
       \/ ConnectCall(c) \/ ConnectFails(c) \/ Verified(c) \/ StorePeer(c)
       \/ Capabilities(c) \/ Negotiated(c) \/ Outcome(c)
       \/ CheckState(c) \/ CheckProfile(c) \/ Send(c)
  \/ Expire

Spec == Init /\ [][Next]_anpVars
-----------------------------------------------------------------------------
(* Properties                                                              *)

\* In TaskProfileReady the stored profile, the stored peer and its
\* capabilities are of one session, however many callers connect: the state
\* machine lets only one of them through to the end.
ReadyIsOneSession ==
  state = "TaskProfileReady"
    => peer # 0 /\ negotiated = peer /\ capabilities = peer
=============================================================================
