--------------------------- MODULE SharedTransport ---------------------------
(***************************************************************************)
(* What the two tasks and the one MQTT transport owe each other, with no   *)
(* sockets, contexts, certificates or flags.  A task claims a transport    *)
(* that is idle, is connected, and leaves it idle.  The claim does not     *)
(* keep the other task out: a transport that is being connected is idle    *)
(* too.  But the jobs task never claims while the main task is inside, so  *)
(* only the main task can make the transport shared.                       *)
(***************************************************************************)
CONSTANTS Main, Jobs   \* the two tasks

VARIABLES
  state,   \* idle, or running for whoever connected last
  phase,   \* per task: out, connecting or connected
  shared   \* both tasks have been inside since the last claim of one alone

vars == <<state, phase, shared>>

Tasks == {Main, Jobs}
Inside(c) == phase[c] # "out"

TypeOK ==
  /\ state \in {"idle", "running"}
  /\ phase \in [Tasks -> {"out", "connecting", "connected"}]
  /\ shared \in BOOLEAN

Init ==
  /\ state = "idle"
  /\ phase = [c \in Tasks |-> "out"]
  /\ shared = FALSE

Claim(c) ==
  /\ state = "idle" /\ ~ Inside(c)
  /\ c = Jobs => ~ Inside(Main)
  /\ phase' = [phase EXCEPT ![c] = "connecting"]
  /\ shared' = \E d \in Tasks : d # c /\ Inside(d)
  /\ UNCHANGED state

Establish(c) ==
  /\ phase[c] = "connecting"
  /\ phase' = [phase EXCEPT ![c] = "connected"]
  /\ state' = "running"
  /\ UNCHANGED shared

Leave(c) ==
  /\ Inside(c)
  /\ phase' = [phase EXCEPT ![c] = "out"]
  /\ state' = "idle"
  /\ UNCHANGED shared

\* The power is cut.
Reset == state' = "idle" /\ phase' = [c \in Tasks |-> "out"] /\ shared' = FALSE

Next == Reset \/ \E c \in Tasks : Claim(c) \/ Establish(c) \/ Leave(c)

Spec == Init /\ [][Next]_vars
=============================================================================
