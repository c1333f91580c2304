----------------------------- MODULE DurableMap -----------------------------
(***************************************************************************)
(* What the non-volatile storage promises to firmware, without memory,     *)
(* temporary files and images: a map that outlives the process.  A call    *)
(* that changes it takes effect at one moment between its begin and its    *)
(* return, or has no effect and is refused; only one change at a time      *)
(* waits to be reported; a restart forgets the calls and nothing else.     *)
(* Nvs is shown to implement this, as long as no store is destroyed under  *)
(* a call.                                                                 *)
(***************************************************************************)
CONSTANTS Clients, Keys, Values, None

VARIABLES
  stored,         \* the value of each key, or None
  acked,          \* what the firmware was told of it
  request         \* request[c]: the change client c has asked for

durableVars == <<stored, acked, request>>

NoRequest == [stage |-> "none", key |-> None, value |-> None]

DurableInit ==
  /\ stored = [k \in Keys |-> None] /\ acked = [k \in Keys |-> None]
  /\ request = [c \in Clients |-> NoRequest]

Ask(c, k, v) ==
  /\ request[c] = NoRequest
  /\ request' = [request EXCEPT ![c] = [stage |-> "asked", key |-> k, value |-> v]]
  /\ UNCHANGED <<stored, acked>>

(* The change takes effect, when the one before has been reported. *)
Store(c) ==
  /\ request[c].stage = "asked"
  /\ \A d \in Clients : request[d].stage # "stored"
  /\ stored' = [stored EXCEPT ![request[c].key] = request[c].value]
  /\ request' = [request EXCEPT ![c].stage = "stored"]
  /\ UNCHANGED acked

Report(c) ==
  /\ request[c].stage = "stored"
  /\ acked' = [acked EXCEPT ![request[c].key] = request[c].value]
  /\ request' = [request EXCEPT ![c] = NoRequest]
  /\ UNCHANGED stored

Refuse(c) ==
  /\ request[c].stage = "asked"
  /\ request' = [request EXCEPT ![c] = NoRequest]
  /\ UNCHANGED <<stored, acked>>

(* The firmware starts again from what it finds. *)
Restart ==
  /\ request' = [c \in Clients |-> NoRequest]
  /\ acked' = stored
  /\ UNCHANGED stored

DurableNext ==
  \/ \E c \in Clients, k \in Keys, v \in Values \cup {None} : Ask(c, k, v)
  \/ \E c \in Clients : Store(c) \/ Report(c) \/ Refuse(c)
  \/ Restart

DurableSpec == DurableInit /\ [][DurableNext]_durableVars
=============================================================================
