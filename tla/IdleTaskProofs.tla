--------------------------- MODULE IdleTaskProofs ---------------------------
(***************************************************************************)
(* Proofs about IdleTask, for every period and width of the clock, every   *)
(* set of leases and every time another task may hold the processor.       *)
(***************************************************************************)
EXTENDS IdleTask, TLAPS

(* While the lease is good by the clock, the clock has not been seen below *)
(* the time of the lease; the age is the difference until it is lapped.    *)
LeaseInv ==
  done =>
    /\ pc = "loop"
    /\ refresh <= now
    /\ now - refresh <= Deadline(lease)
    /\ age < Wrap => age = now - refresh
    /\ age >= Wrap => lease * PerSecond >= Wrap - MaxHold /\ refresh < MaxHold

(* An attempt that goes on has not wrapped since its last poll, unless in  *)
(* the delay after a failure.                                              *)
AttemptInv ==
  /\ AttemptIsBounded
  /\ pc = "dhcp" =>
       /\ spent <= DhcpTimeout + FailDelay
       /\ now = start + spent \/ now = start + spent - Wrap

-----------------------------------------------------------------------------
(* The constants, and remainders.                                          *)

(* The sizes of the constants, without the lease times.                    *)
LEMMA Sizes ==
  /\ Wrap \in Nat /\ Word \in Nat /\ Wrap > 0 /\ Word > 0
  /\ DhcpTimeout \in Nat /\ MaxRetries \in Nat /\ FailDelay \in Nat
  /\ MaxHold \in Nat /\ MaxHold > 0 /\ MaxAge \in Nat /\ MaxDrops \in Nat
  /\ DhcpTimeout + FailDelay + MaxHold < Wrap
  /\ DhcpTimeout + Wrap < Word
  /\ Wrap <= MaxAge
BY IdleAssumption

LEMMA ModBelow ==
  ASSUME NEW n \in Int, n > 0, NEW x \in Int, 0 <= x, x < n
  PROVE  x % n = x
OBVIOUS

LEMMA ModAbove ==
  ASSUME NEW n \in Int, n > 0, NEW x \in Int, n <= x, x < n + n
  PROVE  x % n = x - n
OBVIOUS

LEMMA ModNegative ==
  ASSUME NEW n \in Int, n > 0, NEW x \in Int, -n <= x, x < 0
  PROVE  x % n = x + n
OBVIOUS

LEMMA ModLess ==
  ASSUME NEW n \in Int, n > 0, NEW x \in Int, 0 <= x
  PROVE  x % n \in Nat /\ x % n <= x
OBVIOUS

LEMMA LaterIs ==
  ASSUME TypeOK, NEW d \in 0..Wrap
  PROVE  /\ Later(d) \in Time
         /\ now + d < Wrap => Later(d) = now + d
         /\ now + d >= Wrap => Later(d) = now + d - Wrap
<1>1. now \in Int /\ 0 <= now /\ now < Wrap
  BY Sizes DEF TypeOK, Time
<1>2. CASE now + d < Wrap
  <2>1. Later(d) = now + d
    BY <1>1, <1>2, Sizes, ModBelow DEF Later
  <2> QED
    BY <1>1, <1>2, <2>1, Sizes DEF Time
<1>3. CASE now + d >= Wrap
  <2>1. Later(d) = now + d - Wrap
    BY <1>1, <1>3, Sizes, ModAbove DEF Later
  <2> QED
    BY <1>1, <1>3, <2>1, Sizes DEF Time
<1> QED
  BY <1>1, <1>2, <1>3, Sizes

LEMMA ElapsedIs ==
  ASSUME NEW at \in Time, NEW since \in Time
  PROVE  /\ Elapsed(at, since) \in Int
         /\ at >= since => Elapsed(at, since) = at - since
         /\ at < since => Elapsed(at, since) = at - since + Word
<1>1. /\ at \in Int /\ 0 <= at /\ at < Wrap
      /\ since \in Int /\ 0 <= since /\ since < Wrap
  BY Sizes DEF Time
<1>2. CASE at >= since
  BY <1>1, <1>2, Sizes, ModBelow DEF Elapsed
<1>3. CASE at < since
  BY <1>1, <1>3, Sizes, ModNegative DEF Elapsed
<1> QED
  BY <1>1, <1>2, <1>3

LEMMA DeadlineIs ==
  ASSUME NEW l \in Leases
  PROVE  /\ l * PerSecond \in Nat
         /\ Deadline(l) \in Nat
         /\ Deadline(l) <= l * PerSecond
         /\ Deadline(l) <= Word - Wrap
<1>1. l \in Nat /\ PerSecond \in Nat
  BY IdleAssumption
<1>2. l * PerSecond \in Nat
  BY <1>1
<1>3. Deadline(l) \in Nat /\ Deadline(l) <= l * PerSecond
  BY <1>2, Sizes, ModLess DEF Deadline
<1>4. Deadline(l) <= Word - Wrap
  BY IdleAssumption
<1> QED
  BY <1>2, <1>3, <1>4

-----------------------------------------------------------------------------
(* Type correctness.                                                       *)

LEMMA ZeroIs ==
  /\ 0 \in Time /\ 0 \in Nat /\ 0 \in 0..MaxAge
  /\ 0 \in 0..(MaxRetries + 1) /\ 0 \in 0..MaxDrops
BY Sizes DEF Time

LEMMA HoldIs ==
  ASSUME NEW d \in 1..MaxHold
  PROVE  d \in 0..Wrap /\ d + FailDelay \in 0..Wrap /\ d < Wrap
BY Sizes

LEMMA OlderIs ==
  ASSUME TypeOK, NEW d \in 1..MaxHold
  PROVE  Older(d) \in 0..MaxAge
BY Sizes DEF TypeOK, Older

LEMMA TypeStep ==
  ASSUME TypeOK, [Next]_vars
  PROVE  TypeOK'
<1> USE Sizes
<1>1. CASE UNCHANGED vars
  BY <1>1 DEF TypeOK, vars, Time
<1>2. ASSUME NEW d \in 1..MaxHold, Loop(d) \/ Attempt(d)
      PROVE  TypeOK'
  <2>1. Later(d) \in Time /\ Later(d + FailDelay) \in Time
    BY HoldIs, LaterIs
  <2>2. CASE LinkDown(d)
    <3>1. drops' \in 0..MaxDrops
      BY <2>2 DEF TypeOK, LinkDown
    <3> QED
      BY <2>1, <2>2, <3>1, ZeroIs DEF TypeOK, LinkDown
  <2>3. CASE Keep(d)
    BY <2>1, <2>3, OlderIs DEF TypeOK, Keep
  <2>4. CASE Begin(d)
    BY <2>1, <2>4, ZeroIs DEF TypeOK, Begin
  <2>5. CASE NoLink(d)
    BY <2>1, <2>5 DEF TypeOK, NoLink, Polls
  <2>6. CASE TimesOut(d)
    BY <2>1, <2>6 DEF TypeOK, TimesOut, Polls
  <2>7. CASE GivesUp(d)
    BY <2>1, <2>7 DEF TypeOK, GivesUp, Polls
  <2>8. CASE NoAnswer(d)
    BY <2>1, <2>8 DEF TypeOK, NoAnswer, Polls
  <2>9. CASE Failed(d)
    BY <2>1, <2>9 DEF TypeOK, Failed, Runs, Retried
  <2>10. CASE Leased(d)
    BY <2>1, <2>10 DEF TypeOK, Leased, Assigned, Polls
  <2> QED
    BY <1>2, <2>2, <2>3, <2>4, <2>5, <2>6, <2>7, <2>8, <2>9, <2>10 DEF Loop, Attempt
<1> QED
  BY <1>1, <1>2 DEF Next

LEMMA TypeInit == Init => TypeOK
BY ZeroIs DEF Init, TypeOK

(* Every variable of the idle task keeps its type; in particular dhcp_process *)
(* never counts more than one failure beyond its limit.                    *)
THEOREM IdleTypes == Spec => []TypeOK
BY TypeInit, TypeStep, PTL DEF Spec

-----------------------------------------------------------------------------
(* The lease.                                                              *)

LEMMA KeepStep ==
  ASSUME TypeOK, LeaseInv, NEW d \in 1..MaxHold, Keep(d)
  PROVE  LeaseInv'
<1> DEFINE product == Deadline(lease)
<1>1. /\ done /\ pc' = pc /\ refresh' = refresh /\ lease' = lease
      /\ now' = Later(d) /\ age' = Older(d)
      /\ Elapsed(Later(d), refresh) <= product
  <2>1. Elapsed(Later(d), refresh) \in Int /\ product \in Nat
    BY ElapsedIs, LaterIs, HoldIs, DeadlineIs DEF TypeOK
  <2> QED
    BY <2>1 DEF Keep, LeaseOver
<1>2. /\ now \in Time /\ refresh \in Time /\ now' \in Time
      /\ age \in 0..MaxAge /\ d < Wrap /\ product \in Nat
      /\ lease * PerSecond \in Nat
      /\ product <= lease * PerSecond /\ product <= Word - Wrap
  BY <1>1, LaterIs, HoldIs, DeadlineIs DEF TypeOK
<1>3. age' = IF age + d <= MaxAge THEN age + d ELSE MaxAge
  BY <1>1 DEF Older
<1>4. refresh <= now'
  <2>1. now' < refresh => Elapsed(now', refresh) > Word - Wrap
    BY <1>2, ElapsedIs, Sizes DEF Time
  <2> QED
    BY <1>1, <1>2, <2>1, ElapsedIs, Sizes DEF Time
<1>5. now' - refresh <= product
  BY <1>1, <1>2, <1>4, ElapsedIs
<1>6. /\ refresh <= now /\ now - refresh <= product
      /\ age < Wrap => age = now - refresh
      /\ age >= Wrap => lease * PerSecond >= Wrap - MaxHold /\ refresh < MaxHold
  BY <1>1 DEF LeaseInv
<1>7. CASE now + d < Wrap
  <2>1. now' = now + d
    BY <1>1, <1>7, LaterIs, HoldIs
  <2>2. age' < Wrap => age' = now' - refresh
    BY <1>2, <1>3, <1>6, <2>1, Sizes DEF Time
  <2>3. age' >= Wrap => age >= Wrap
    BY <1>2, <1>3, <1>6, <1>7, <2>1, Sizes DEF Time
  <2> QED
    BY <1>1, <1>4, <1>5, <1>6, <2>2, <2>3 DEF LeaseInv
<1>8. CASE now + d >= Wrap
  <2>1. now' = now + d - Wrap
    BY <1>1, <1>8, LaterIs, HoldIs
  <2>2. refresh < MaxHold /\ now - refresh >= Wrap - MaxHold
    BY <1>2, <1>4, <2>1, Sizes DEF Time
  <2>3. lease * PerSecond >= Wrap - MaxHold
    BY <1>2, <1>6, <2>2, Sizes DEF Time
  <2>4. age' >= Wrap
    BY <1>2, <1>3, <1>4, <1>6, <2>1, Sizes DEF Time
  <2>5. ~ (age' < Wrap)
    BY <1>2, <1>3, <2>4, Sizes
  <2> QED
    BY <1>1, <1>4, <1>5, <2>2, <2>3, <2>5 DEF LeaseInv
<1> QED
  BY <1>2, <1>7, <1>8, Sizes DEF Time

LEMMA LeaseStep ==
  ASSUME TypeOK, LeaseInv, [Next]_vars
  PROVE  LeaseInv'
<1>1. CASE UNCHANGED vars
  BY <1>1 DEF LeaseInv, vars
<1>2. ASSUME NEW d \in 1..MaxHold, Loop(d) \/ Attempt(d)
      PROVE  LeaseInv'
  <2>1. CASE LinkDown(d)
    BY <2>1 DEF LeaseInv, LinkDown
  <2>2. CASE Keep(d)
    BY <2>2, KeepStep
  <2>3. CASE Begin(d)
    BY <2>3 DEF LeaseInv, Begin
  <2>4. CASE Leased(d)
    <3>1. pc' = "loop" /\ now' = Later(d) /\ refresh' = now' /\ age' = 0
      BY <2>4 DEF Leased, Assigned, Polls
    <3>2. now' \in Time /\ lease' \in Leases
      BY <2>4, <3>1, LaterIs, HoldIs DEF Leased, Assigned
    <3>3. Deadline(lease') \in Nat
      BY <3>2, DeadlineIs
    <3> QED
      BY <3>1, <3>2, <3>3, Sizes DEF LeaseInv, Time
  <2>5. CASE NoLink(d) \/ TimesOut(d) \/ GivesUp(d) \/ NoAnswer(d) \/ Failed(d)
    <3>1. pc = "dhcp" /\ done' = done
      BY <2>5 DEF NoLink, TimesOut, GivesUp, NoAnswer, Failed, Polls
    <3> QED
      BY <3>1 DEF LeaseInv
  <2> QED
    BY <1>2, <2>1, <2>2, <2>3, <2>4, <2>5 DEF Loop, Attempt
<1> QED
  BY <1>1, <1>2 DEF Next

LEMMA LeaseHolds ==
  ASSUME TypeOK, LeaseInv
  PROVE  LeaseIsKept
<1>1. /\ age \in 0..MaxAge /\ now \in Time /\ refresh \in Time
      /\ lease * PerSecond \in Nat /\ Deadline(lease) \in Nat
      /\ Deadline(lease) <= lease * PerSecond
  BY DeadlineIs DEF TypeOK
<1> QED
  BY <1>1, Sizes DEF LeaseInv, LeaseIsKept, Time

(* Over every wrap of the clock and every overflow of the product, the     *)
(* address is not used beyond its lease but in the one case named.         *)
THEOREM LeaseKept == Spec => []LeaseIsKept
<1>1. Init => LeaseInv
  BY DEF Init, LeaseInv
<1> QED
  BY <1>1, IdleTypes, LeaseStep, LeaseHolds, PTL DEF Spec

-----------------------------------------------------------------------------
(* The length of an attempt.                                               *)

LEMMA PollInTime ==
  ASSUME TypeOK, AttemptInv, NEW d \in 1..MaxHold, pc = "dhcp", ~ TimedOut(Later(d))
  PROVE  spent + d <= DhcpTimeout /\ Later(d) = start + spent + d
<1>1. /\ now \in Time /\ start \in Time /\ spent \in Nat /\ Later(d) \in Time
      /\ d < Wrap /\ spent + d < Wrap
  BY LaterIs, HoldIs, Sizes DEF TypeOK, AttemptInv
<1>2. Elapsed(Later(d), start) <= DhcpTimeout
  BY <1>1, ElapsedIs, Sizes DEF TimedOut, Time
<1>3. Later(d) >= start
  <2>1. Later(d) < start => Elapsed(Later(d), start) > DhcpTimeout
    BY <1>1, ElapsedIs, Sizes DEF Time
  <2> QED
    BY <1>1, <1>2, <2>1, ElapsedIs, Sizes DEF Time
<1>4. Later(d) - start <= DhcpTimeout
  BY <1>1, <1>2, <1>3, ElapsedIs
<1>5. Later(d) = start + spent + d \/ Later(d) = start + spent + d - Wrap
  BY <1>1, LaterIs, HoldIs, Sizes DEF AttemptInv, Time
<1> QED
  BY <1>1, <1>3, <1>4, <1>5, Sizes DEF Time

LEMMA AttemptStep ==
  ASSUME TypeOK, AttemptInv, [Next]_vars
  PROVE  AttemptInv'
<1> USE Sizes
<1>1. CASE UNCHANGED vars
  BY <1>1 DEF AttemptInv, AttemptIsBounded, vars
<1>2. ASSUME NEW d \in 1..MaxHold, Loop(d) \/ Attempt(d)
      PROVE  AttemptInv'
  <2>1. now \in Time /\ start \in Time /\ spent \in Nat /\ Later(d) \in Time
    BY LaterIs, HoldIs DEF TypeOK
  <2>2. CASE LinkDown(d) \/ Keep(d)
    BY <2>2 DEF AttemptInv, AttemptIsBounded, LinkDown, Keep
  <2>3. CASE Begin(d)
    BY <2>1, <2>3 DEF AttemptInv, AttemptIsBounded, Begin, Time
  <2>4. CASE NoLink(d) \/ TimesOut(d) \/ GivesUp(d) \/ Leased(d)
    <3>1. pc = "dhcp" /\ pc' = "loop" /\ spent' = spent + d
      BY <2>4 DEF NoLink, TimesOut, GivesUp, Leased, Assigned, Polls
    <3> QED
      BY <2>1, <3>1 DEF AttemptInv, AttemptIsBounded
  <2>5. CASE NoAnswer(d)
    <3>1. /\ pc = "dhcp" /\ ~ TimedOut(Later(d)) /\ start' = start
          /\ now' = Later(d) /\ spent' = spent + d
      BY <2>5 DEF NoAnswer, Polls, Runs
    <3>2. spent + d <= DhcpTimeout /\ Later(d) = start + spent + d
      BY <3>1, PollInTime
    <3>3. spent' <= DhcpTimeout /\ now' = start' + spent'
      BY <2>1, <3>1, <3>2 DEF Time
    <3>4. spent' <= DhcpTimeout + FailDelay
      BY <2>1, <3>1, <3>3
    <3> QED
      BY <2>1, <3>1, <3>3, <3>4 DEF AttemptInv, AttemptIsBounded
  <2>6. CASE Failed(d)
    <3>1. /\ pc = "dhcp" /\ ~ TimedOut(Later(d)) /\ start' = start
          /\ now' = Later(d + FailDelay) /\ spent' = spent + d + FailDelay
      BY <2>6 DEF Failed, Runs
    <3>2. spent + d <= DhcpTimeout /\ Later(d) = start + spent + d
      BY <3>1, PollInTime
    <3>3. now + d = Later(d) \/ now + d = Later(d) + Wrap
      BY <2>1, LaterIs, HoldIs DEF Time
    <3>4. now + d = Later(d)
      BY <2>1, <3>1, <3>2, <3>3 DEF AttemptInv, Time
    <3>5. \/ now' = start + spent + d + FailDelay
          \/ now' = start + spent + d + FailDelay - Wrap
      <4>1. /\ now + (d + FailDelay) < Wrap => now' = now + (d + FailDelay)
            /\ now + (d + FailDelay) >= Wrap => now' = now + (d + FailDelay) - Wrap
        BY <3>1, LaterIs, HoldIs
      <4> QED
        BY <2>1, <3>2, <3>4, <4>1 DEF Time
    <3>6. now' = start' + spent' \/ now' = start' + spent' - Wrap
      BY <2>1, <3>1, <3>5 DEF Time
    <3>7. spent' <= DhcpTimeout + FailDelay
      BY <2>1, <3>1, <3>2
    <3> QED
      BY <2>1, <3>1, <3>6, <3>7 DEF AttemptInv, AttemptIsBounded
  <2> QED
    BY <1>2, <2>2, <2>3, <2>4, <2>5, <2>6 DEF Loop, Attempt
<1> QED
  BY <1>1, <1>2 DEF Next

(* An attempt ends within its time-out, one failure's delay and one hold,  *)
(* wherever the clock wraps.                                               *)
THEOREM AttemptBounded == Spec => []AttemptIsBounded
<1>1. Init => AttemptInv
  BY Sizes DEF Init, AttemptInv, AttemptIsBounded
<1>2. AttemptInv => AttemptIsBounded
  BY DEF AttemptInv
<1> QED
  BY <1>1, <1>2, IdleTypes, AttemptStep, PTL DEF Spec

-----------------------------------------------------------------------------
(* An address is given up too early for two reasons only: the clock has    *)
(* started again since the lease was given, or the product of the lease    *)
(* time does not fit its word.  RenewsWhenOver fails in no other way.      *)
EarlyOnlyByWrap ==
  [][done /\ ~ done' /\ linkUp' =>
       \/ age + ((now' - now) % Wrap) > lease * PerSecond
       \/ now' < refresh
       \/ lease * PerSecond >= Word]_vars

LEMMA EarlyStep ==
  ASSUME TypeOK, LeaseInv, done, NEW d \in 1..MaxHold, Begin(d)
  PROVE  \/ age + ((now' - now) % Wrap) > lease * PerSecond
         \/ now' < refresh
         \/ lease * PerSecond >= Word
<1> SUFFICES ASSUME now' >= refresh, lease * PerSecond < Word
             PROVE  age + ((now' - now) % Wrap) > lease * PerSecond
  <2>1. now' \in Time /\ refresh \in Time /\ lease * PerSecond \in Nat
    BY LaterIs, HoldIs, DeadlineIs DEF TypeOK, Begin
  <2> QED BY <2>1, Sizes DEF Time
<1>1. /\ now \in Time /\ refresh \in Time /\ now' \in Time /\ now' = Later(d)
      /\ age \in Nat /\ d \in Nat /\ d < Wrap /\ lease * PerSecond \in Nat
  BY LaterIs, HoldIs, DeadlineIs, Sizes DEF TypeOK, Begin
<1>2. (now' - now) % Wrap = d
  <2>1. CASE now + d < Wrap
    <3>1. now' - now = d
      BY <1>1, <2>1, LaterIs, HoldIs DEF Time
    <3> QED BY <1>1, <3>1, ModBelow, Sizes
  <2>2. CASE now + d >= Wrap
    <3>1. now' - now = d - Wrap
      BY <1>1, <2>2, LaterIs, HoldIs, Sizes DEF Time
    <3>2. d - Wrap \in Int /\ -Wrap <= d - Wrap /\ d - Wrap < 0 /\ (d - Wrap) + Wrap = d
      BY <1>1, Sizes
    <3> QED BY <3>1, <3>2, ModNegative, Sizes
  <2> QED BY <1>1, <2>1, <2>2, Sizes DEF Time
<1>3. Deadline(lease) = lease * PerSecond
  BY <1>1, ModBelow, Sizes DEF Deadline
<1>4. now' - refresh > lease * PerSecond
  BY <1>1, <1>3, ElapsedIs DEF Begin, LeaseOver
<1>5. age + d >= now' - refresh
  <2>1. CASE age < Wrap
    <3>1. age = now - refresh
      BY <2>1 DEF LeaseInv
    <3>2. now' = now + d \/ now' = now + d - Wrap
      BY <1>1, LaterIs, HoldIs, Sizes DEF Time
    <3> QED BY <1>1, <3>1, <3>2, Sizes DEF Time
  <2>2. CASE age >= Wrap
    BY <1>1, <2>2, Sizes DEF Time
  <2> QED BY <1>1, <2>1, <2>2, Sizes
<1>6. age + d > lease * PerSecond
  BY <1>1, <1>4, <1>5, Sizes DEF Time
<1> QED BY <1>2, <1>6

(* While the clock has not started again, and for leases whose length in   *)
(* milliseconds fits 32 bits, an address is renewed only when its time is  *)
(* over: the behaviour the trace of the renewal announces.                 *)
THEOREM RenewsEarlyOnlyByWrap == Spec => EarlyOnlyByWrap
<1>1. Init => LeaseInv
  BY DEF Init, LeaseInv
<1>2. TypeOK /\ LeaseInv /\ [Next]_vars
        => [done /\ ~ done' /\ linkUp' =>
              \/ age + ((now' - now) % Wrap) > lease * PerSecond
              \/ now' < refresh
              \/ lease * PerSecond >= Word]_vars
  <2> SUFFICES ASSUME TypeOK, LeaseInv, Next, done, ~ done', linkUp'
               PROVE  \/ age + ((now' - now) % Wrap) > lease * PerSecond
                      \/ now' < refresh
                      \/ lease * PerSecond >= Word
    OBVIOUS
  <2>1. PICK d \in 1..MaxHold : Loop(d) \/ Attempt(d)
    BY DEF Next
  <2>2. ~ Attempt(d)
    BY DEF LeaseInv, Attempt, NoLink, TimesOut, GivesUp, NoAnswer, Failed, Leased, Polls
  <2>3. Begin(d)
    BY <2>1, <2>2 DEF Loop, LinkDown, Keep
  <2> QED BY <2>3, EarlyStep
<1> QED BY <1>1, <1>2, IdleTypes, LeaseStep, PTL DEF Spec, EarlyOnlyByWrap
=============================================================================
