------------------------------ MODULE IdleTask ------------------------------
(***************************************************************************)
(* The idle task, app/tasks/idle_task.c, and dhcp_process of ethernet.c:   *)
(* one loop that follows the link, obtains an address and renews its lease.*)
(* All its times are differences of get_time_ms, time_us_32() / 1000, in   *)
(* 32 bits: the clock starts again after 2^32 microseconds, so the         *)
(* difference across that point is short of 2^32 by almost nothing.        *)
(*                                                                         *)
(* The tasks have one priority and no time slices: between two polls some  *)
(* other task may hold the processor.  `age' and `spent' measure real time *)
(* in the unit of the clock.  DHCP_run answers as it likes; in particular  *)
(* DHCP_FAILED may never come, since the tick behind it is called from a   *)
(* timer callback that returns no value.  The static address is left out:  *)
(* nothing sets any other mode than NETINFO_DHCP.                          *)
(***************************************************************************)
EXTENDS Integers

CONSTANTS
  Wrap,         \* the number of values of get_time_ms
  Word,         \* 2^32, what the differences and products are reduced by
  PerSecond,    \* units of the clock in a second
  Leases,       \* lease times a server gives, in seconds
  DhcpTimeout,  \* DHCP_RETRY_TIMEOUT_MS
  MaxRetries,   \* DHCP_RETRY_COUNT
  FailDelay,    \* the delay after DHCP_FAILED
  MaxHold,      \* longest time between two polls
  MaxAge,       \* bound on the age that is kept track of
  MaxDrops      \* bound on the polls that find the link down

\* dhcpLeaseTimeS * 1000, in 32 bits.
Deadline(l) == (l * PerSecond) % Word

\* The last line leaves out leases of 49.66 to 49.71 days, and their
\* like modulo 2^32 ms, whose end the clock can never show.
ASSUME IdleAssumption ==
  /\ Wrap \in Nat /\ Word \in Nat /\ PerSecond \in Nat \ {0}
  /\ DhcpTimeout \in Nat /\ MaxRetries \in Nat /\ FailDelay \in Nat
  /\ MaxHold \in Nat \ {0} /\ MaxAge \in Nat /\ MaxDrops \in Nat
  /\ DhcpTimeout + FailDelay + MaxHold < Wrap
  /\ DhcpTimeout + Wrap < Word
  /\ Wrap <= MaxAge
  /\ Leases \subseteq Nat /\ Leases # {}
  /\ \A l \in Leases : Deadline(l) <= Word - Wrap

VARIABLES
  pc,        \* the task's loop, or the one in dhcp_process
  now,       \* what get_time_ms gives
  linkUp,    \* isWizChipLinkUp
  done,      \* isDhcpDone
  refresh,   \* refreshDhcpTimeStamp
  lease,     \* getDHCPLeasetime()
  start,     \* startTimeStamp
  retries,   \* dhcpRetryCnt
  age,       \* history: time since the lease was given
  spent,     \* history: time since the attempt began
  drops

vars == <<pc, now, linkUp, done, refresh, lease, start, retries, age, spent, drops>>

Time == 0..(Wrap - 1)

TypeOK ==
  /\ pc \in {"loop", "dhcp"}
  /\ now \in Time /\ refresh \in Time /\ start \in Time
  /\ linkUp \in BOOLEAN /\ done \in BOOLEAN
  /\ lease \in Leases
  /\ retries \in 0..(MaxRetries + 1)
  /\ age \in 0..MaxAge /\ spent \in Nat
  /\ drops \in 0..MaxDrops

-----------------------------------------------------------------------------
(* The clock.                                                              *)

\* The value of get_time_ms d units later.
Later(d) == (now + d) % Wrap

Elapsed(at, since) == (at - since) % Word

Older(d) == IF age + d <= MaxAge THEN age + d ELSE MaxAge

\* Mutant: a signed difference.
LeaseOverMutant(at) == at - refresh > lease * PerSecond

LeaseOver(at) == Elapsed(at, refresh) > Deadline(lease)

\* Mutant: a signed difference.
TimedOutMutant(at) == at - start > DhcpTimeout

\* Mutant: the time-out is in another unit.
TimedOutEarlyMutant(at) == Elapsed(at, start) > DhcpTimeout \div 1000

TimedOut(at) == Elapsed(at, start) > DhcpTimeout

-----------------------------------------------------------------------------
(* The loop of idle_task.                                                  *)

LinkDown(d) ==
  /\ pc = "loop"
  /\ drops < MaxDrops /\ drops' = drops + 1
  /\ now' = Later(d)
  /\ linkUp' = FALSE /\ done' = FALSE
  /\ age' = 0 /\ spent' = 0
  /\ UNCHANGED <<pc, refresh, lease, start, retries>>

\* The lease is good, by the clock.
Keep(d) ==
  /\ pc = "loop" /\ done
  /\ ~ LeaseOver(Later(d))
  /\ now' = Later(d)
  /\ linkUp' = TRUE
  /\ age' = Older(d) /\ spent' = 0
  /\ UNCHANGED <<pc, done, refresh, lease, start, retries, drops>>

\* No address yet, or DHCP_stop after the lease: dhcp_process begins.
Begin(d) ==
  /\ pc = "loop"
  /\ done => LeaseOver(Later(d))
  /\ pc' = "dhcp"
  /\ now' = Later(d)
  /\ linkUp' = TRUE /\ done' = FALSE
  /\ start' = Later(d) /\ retries' = 0
  /\ age' = 0 /\ spent' = 0
  /\ UNCHANGED <<refresh, lease, drops>>

-----------------------------------------------------------------------------
(* dhcp_process: one poll after each delay.                                *)

Polls(d) ==
  /\ pc = "dhcp"
  /\ now' = Later(d)
  /\ spent' = spent + d

NoLink(d) ==
  /\ Polls(d)
  /\ drops < MaxDrops /\ drops' = drops + 1
  /\ pc' = "loop"
  /\ UNCHANGED <<linkUp, done, refresh, lease, start, retries, age>>

TimesOut(d) ==
  /\ Polls(d)
  /\ TimedOut(Later(d))
  /\ pc' = "loop"
  /\ UNCHANGED <<linkUp, done, refresh, lease, start, retries, age, drops>>

\* Mutant: the failures are not counted against the limit.
RetriedMutant == FALSE

Retried == retries > MaxRetries

\* Tested after DHCP_run, whose answer is then dropped.
GivesUp(d) ==
  /\ Polls(d)
  /\ ~ TimedOut(Later(d)) /\ Retried
  /\ pc' = "loop"
  /\ UNCHANGED <<linkUp, done, refresh, lease, start, retries, age, drops>>

Runs(d) == ~ TimedOut(Later(d)) /\ ~ Retried

NoAnswer(d) ==
  /\ Polls(d) /\ Runs(d)
  /\ UNCHANGED <<pc, linkUp, done, refresh, lease, start, retries, age, drops>>

\* DHCP_FAILED: DHCP_stop, and another delay.
Failed(d) ==
  /\ pc = "dhcp" /\ Runs(d)
  /\ now' = Later(d + FailDelay)
  /\ spent' = spent + d + FailDelay
  /\ retries' = retries + 1
  /\ UNCHANGED <<pc, linkUp, done, refresh, lease, start, age, drops>>

\* wizchip_dhcp_assign: the library has a lease, and the address is applied.
Assigned == lease' \in Leases /\ age' = 0

\* DHCP_IP_LEASED.
Leased(d) ==
  /\ Polls(d) /\ Runs(d)
  /\ pc' = "loop"
  /\ done' = TRUE
  /\ refresh' = Later(d)
  /\ Assigned
  /\ UNCHANGED <<linkUp, start, retries, drops>>

-----------------------------------------------------------------------------

\* clearAppFlags, and a library that has no lease yet.
Init ==
  /\ pc = "loop" /\ now = 0
  /\ linkUp = FALSE /\ done = FALSE
  /\ refresh = 0 /\ lease \in Leases
  /\ start = 0 /\ retries = 0
  /\ age = 0 /\ spent = 0 /\ drops = 0

Loop(d) == LinkDown(d) \/ Keep(d) \/ Begin(d)

Attempt(d) ==
  NoLink(d) \/ TimesOut(d) \/ GivesUp(d) \/ NoAnswer(d) \/ Failed(d) \/ Leased(d)

Next == \E d \in 1..MaxHold : Loop(d) \/ Attempt(d)

Spec == Init /\ [][Next]_vars

\* Every loop has a blocking delay, and a DHCP server that is asked again and
\* again answers at last.
FairSpec ==
  /\ Spec
  /\ WF_vars(Next)
  /\ SF_vars(\E d \in 1..MaxHold : Leased(d))

-----------------------------------------------------------------------------
(* Properties.                                                             *)

\* The address is not used beyond its lease, over the wrap of the clock and
\* the overflow of the product, but for one case: a lease about as long as
\* the clock's period or longer, given so soon after the wrap that no poll
\* of the next period came earlier.  Then the difference starts again.
LeaseIsKept ==
  done /\ age > lease * PerSecond =>
    /\ age >= Wrap
    /\ lease * PerSecond >= Wrap - MaxHold
    /\ refresh < MaxHold

\* An attempt ends in time wherever the wrap of the clock falls in it: the
\* difference that has wrapped ends it early, never late.
AttemptIsBounded == spent <= DhcpTimeout + FailDelay + MaxHold

\* The device has an address again after every attempt that failed and every
\* link that dropped.
AddressComesBack == []<>done

\* What the trace of the renewal says, "DHCP Lease time is over.".
RenewsWhenOver ==
  [][done /\ ~ done' /\ linkUp' =>
       age + ((now' - now) % Wrap) > lease * PerSecond]_vars
=============================================================================
