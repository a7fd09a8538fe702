-------------------------- MODULE CertificateRenewal --------------------------
(***************************************************************************)
(* What a renewal of the device certificate promises, with no tasks,       *)
(* messages, flags or flash sectors.  The service makes certificates and   *)
(* registers them; the device takes one over, gives its old one up only    *)
(* when the new one is registered, and then saves that one and no other.   *)
(***************************************************************************)
EXTENDS Naturals

CONSTANT NoCert   \* in place of a certificate; the certificates are 1, 2, ...

VARIABLES
  made,        \* how many certificates the service has made
  registered,  \* those whose thing is registered
  next,        \* the one the device has taken over last
  cert         \* the one it keeps

vars == <<made, registered, next, cert>>

Made == 1..made

TypeOK ==
  /\ made \in Nat /\ registered \subseteq Made
  /\ next \in Made \cup {NoCert} /\ cert \in registered \cup {NoCert}

Init == TypeOK /\ next = NoCert

\* The service makes a certificate, or the device takes one over or forgets it.
Take ==
  /\ made' \in {made, made + 1}
  /\ next' \in {next, NoCert} \cup Made'
  /\ UNCHANGED <<registered, cert>>

Registers(c) == c \in Made /\ registered' = registered \cup {c}

Register == (\E c \in Made : Registers(c)) /\ UNCHANGED <<made, next, cert>>

GiveUp ==
  /\ Registers(next)
  /\ cert' = NoCert
  /\ UNCHANGED <<made, next>>

Save ==
  /\ cert = NoCert
  /\ next \in registered
  /\ cert' = next
  /\ UNCHANGED <<made, registered, next>>

Next == Take \/ Register \/ GiveUp \/ Save

Spec == Init /\ [][Next]_vars
=============================================================================
