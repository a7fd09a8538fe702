----------------------- MODULE FleetProvisioningProofs -----------------------
(***************************************************************************)
(* Proofs about FleetProvisioning, for any number of certificates, slow    *)
(* answers and losses.                                                     *)
(***************************************************************************)
EXTENDS FleetProvisioning, SequenceTheorems, TLAPS

(* TypeOK is not inductive: a certificate that is under way, or that is to *)
(* be registered, must be one that the service has made, and there must be *)
(* a token once the answer with it was read.                               *)
Asked(n) == {m \in Message : m.cert \in 0..n}
Accepted(n) == {m \in Message : m.cert \in 1..n}

Tokens ==
  /\ req \in Seq(WithToken)
  /\ "create" \in flags => token # NoCert

MadeInv ==
  /\ req \in Seq(Asked(made)) /\ rep \in Seq(Accepted(made))
  /\ stray = 0 => Tokens

(* As long as no answer was stray at most one message is under way, and it *)
(* belongs to the exchange the device waits for.                           *)
Phase(t) ==
  /\ Len(req) + Len(rep) <= 1
  /\ req # <<>> => Head(req).topic = t
  /\ rep # <<>> => Head(rep).topic = t
  /\ t \in flags => req = <<>> /\ rep = <<>>

PhaseInv ==
  /\ token = info
  /\ pc \in {"waitRegister", "save"} => info # NoCert
  /\ pc \in {"down", "done"} => rep = <<>>
  /\ pc = "waitCreate" => Phase("create") /\ "register" \notin flags
  /\ pc = "waitRegister" =>
       /\ Phase("register")
       /\ req # <<>> => Head(req).cert = info
       /\ rep # <<>> \/ "register" \in flags => info \in registered
  /\ pc = "save" => req = <<>> /\ rep = <<>> /\ info \in registered

-----------------------------------------------------------------------------
(* Queues: what stays when a message is taken or added, and when more      *)
(* messages become possible.                                               *)
LEMMA QueueType ==
  ASSUME NEW S, NEW q \in Seq(S)
  PROVE  /\ \A m \in S : Append(q, m) \in Seq(S)
         /\ q # <<>> => Head(q) \in S /\ Tail(q) \in Seq(S)
OBVIOUS

LEMMA QueueGrows ==
  ASSUME NEW S, NEW T, S \subseteq T, NEW q \in Seq(S)
  PROVE  q \in Seq(T)
OBVIOUS

LEMMA ShortQueue ==
  ASSUME NEW S, NEW q \in Seq(S), Len(q) <= 1
  PROVE  /\ q # <<>> => Tail(q) = <<>> /\ Len(q) = 1
         /\ \A m \in S : /\ Append(<<>>, m) # <<>>
                         /\ Head(Append(<<>>, m)) = m
                         /\ Len(Append(<<>>, m)) = 1
<1>1. ASSUME q # <<>>
      PROVE  Tail(q) = <<>> /\ Len(q) = 1
  <2>1. Len(q) = 1
    <3>1. Len(q) \in Nat \ {0}
      BY <1>1, EmptySeq
    <3>2. \A n \in Nat \ {0} : n <= 1 => n = 1
      OBVIOUS
    <3>3. Len(q) <= 1
      OBVIOUS
    <3> QED BY <3>1, <3>2, <3>3
  <2>2. Len(Tail(q)) = 0 /\ Tail(q) \in Seq(S)
    BY <1>1, <2>1, HeadTailProperties
  <2>3. Tail(q) # <<>> => Len(Tail(q)) \in Nat \ {0}
    BY <2>2, EmptySeq
  <2> QED BY <2>1, <2>2, <2>3
<1>2. ASSUME NEW m \in S
      PROVE  /\ Append(<<>>, m) # <<>>
             /\ Head(Append(<<>>, m)) = m
             /\ Len(Append(<<>>, m)) = 1
  <2>1. <<>> \in Seq(S) /\ Len(<<>>) = 0
    BY EmptySeq
  <2>2. /\ Append(<<>>, m) # <<>>
        /\ Len(Append(<<>>, m)) = 1
        /\ Append(<<>>, m)[1] = m
    BY <2>1, AppendProperties
  <2> QED BY <2>2
<1> QED BY <1>1, <1>2

LEMMA EmptyQueue ==
  /\ Len(<<>>) = 0
  /\ \A S : <<>> \in Seq(S)
  /\ \A S : \A q \in Seq(S) : Len(q) \in Nat /\ (Len(q) = 0 => q = <<>>)
OBVIOUS

(* The two kinds of messages, which only become more.                      *)
LEMMA MessagesGrow ==
  ASSUME TypeOK
  PROVE  /\ Asked(made) \subseteq Asked(made + 1)
         /\ Accepted(made) \subseteq Accepted(made + 1)
         /\ Asked(made) \subseteq Message
         /\ Accepted(made) \subseteq Message
BY DEF TypeOK, Asked, Accepted

LEMMA MessageType ==
  ASSUME TypeOK
  PROVE  /\ Msg("create", NoCert) \in Asked(made)
         /\ \A c \in 0..made : Msg("register", c) \in Asked(made)
         /\ \A n \in 0..MaxCerts : \A t \in Topic : \A c \in 1..n : Msg(t, c) \in Accepted(n)
BY ProvisioningAssumption DEF TypeOK, Asked, Accepted, Msg, Message, Certs, Topic, NoCert

-----------------------------------------------------------------------------
Typed == TypeOK /\ MadeInv

LEMMA AnswerType ==
  ASSUME Typed, NEW n \in 0..MaxCerts, rep \in Seq(Accepted(n)),
         NEW t \in Topic, NEW c \in 1..n, Answer(t, c)
  PROVE  rep' \in Seq(Accepted(n))
<1>1. Msg(t, c) \in Accepted(n)
  BY MessageType DEF Typed
<1> QED BY <1>1, QueueType DEF Answer

(* An answer read to the end brings a token, and every request to register *)
(* is made after such an answer.                                           *)
LEMMA TokensKept ==
  ASSUME Typed, Next
  PROVE  stray' = 0 => Tokens'
<1> SUFFICES ASSUME stray' = 0 PROVE Tokens'
  OBVIOUS
<1>1. stray = 0 /\ ~ ServeAgain
  BY DEF Typed, TypeOK, Next, Serve, ServeAgain, Lose, PowerCut, Renew, DeviceStep,
         Start, Deliver, Created, Parsed, Registered, SaveCert, RegisterThing,
         Finish, Timeout, MissedCloses, faults
<1>2. /\ req \in Seq(WithToken) /\ <<>> \in Seq(WithToken)
      /\ req # <<>> => Tail(req) \in Seq(WithToken)
      /\ \A m \in WithToken : Append(req, m) \in Seq(WithToken)
      /\ "create" \in flags => token # NoCert
  BY <1>1, QueueType, EmptyQueue DEF Typed, MadeInv, Tokens
<1>3. CASE Serve \/ Lose \/ PowerCut \/ Renew
  BY <1>2, <1>3 DEF Serve, Lose, LoseRequest, LoseAnswer, BreakLink, PowerCut, Renew,
                    channel, device, record, Tokens
<1>4. CASE Start
  <2>1. Msg("create", NoCert) \in WithToken
    BY DEF Msg, WithToken, Message, Topic, NoCert
  <2> QED BY <1>2, <1>4, <2>1 DEF Start, Tokens
<1>5. CASE Deliver
  <2>1. CASE Created
    <3>1. token' = Head(rep).cert /\ Head(rep).cert # NoCert
      BY <1>1, <1>5, <2>1, QueueType
         DEF Deliver, Created, Parsed, Typed, TypeOK, MadeInv, Accepted, NoCert
    <3> QED BY <1>2, <1>5, <3>1 DEF Deliver, Tokens
  <2>2. CASE Registered
    BY <1>2, <1>5, <2>2 DEF Deliver, Registered, record, Tokens
  <2> QED BY <1>5, <2>1, <2>2 DEF Deliver
<1>6. CASE RegisterThing
  <2>1. token \in Certs /\ "create" \notin flags' /\ token' = token
    BY <1>2, <1>6, ProvisioningAssumption
       DEF RegisterThing, record, Typed, TypeOK, Certs, NoCert
  <2>2. Msg("register", token) \in WithToken
    BY <2>1 DEF Msg, WithToken, Message, Topic, Certs, NoCert
  <2> QED BY <1>2, <1>6, <2>1, <2>2 DEF RegisterThing, Close, Tokens
<1>7. CASE SaveCert \/ Finish \/ Timeout
  BY <1>2, <1>7 DEF SaveCert, Finish, Timeout, MissedCloses, channel, record, Tokens
<1> QED BY <1>1, <1>3, <1>4, <1>5, <1>6, <1>7 DEF Next, DeviceStep

LEMMA ServeType ==
  ASSUME Typed, Serve \/ ServeAgain
  PROVE  Typed'
<1>0. stray' = 0 => Tokens' /\ req' \in Seq(WithToken)
  BY TokensKept DEF Next, Tokens
<1>1. req # <<>> /\ Head(req) \in Asked(made) /\ Tail(req) \in Seq(Asked(made))
  BY QueueType DEF Typed, MadeInv, Serve, ServeAgain
<1>2. req' \in {req, Tail(req)} /\ UNCHANGED <<link, device>>
  BY DEF Serve, ServeAgain
<1>3. slow' \in 0..MaxSlow /\ lost' \in 0..MaxLost /\ stray' \in 0..MaxStray
  BY ProvisioningAssumption DEF Serve, ServeAgain, Typed, TypeOK, faults
<1>4. req' \in Seq(Asked(made))
  BY <1>1, <1>2 DEF Typed, MadeInv
<1>5. CASE CreateCert
  <2>1. made' = made + 1 /\ made' \in 0..MaxCerts /\ registered' = registered
        /\ made \in Nat /\ Answer("create", made + 1)
    BY <1>5, ProvisioningAssumption DEF CreateCert, Typed, TypeOK
  <2>2. req' \in Seq(Asked(made')) /\ rep \in Seq(Accepted(made'))
    BY <1>4, <2>1, MessagesGrow, QueueGrows DEF Typed, MadeInv
  <2>3. rep' \in Seq(Accepted(made'))
    <3>1. made + 1 \in 1..made' /\ "create" \in Topic
      BY <2>1 DEF Topic
    <3> QED BY <2>1, <2>2, <3>1, AnswerType
  <2>4. registered' \subseteq 1..made' /\ info' \in 0..made' /\ token' \in 0..made'
        /\ cert' \in 0..made'
    BY <1>2, <2>1 DEF Typed, TypeOK, device, record
  <2>5. Asked(made') \subseteq Message /\ Accepted(made') \subseteq Message
    BY DEF Asked, Accepted
  <2> QED BY <1>0, <1>2, <1>3, <2>1, <2>2, <2>3, <2>4, <2>5, QueueGrows
          DEF Typed, TypeOK, MadeInv, device
<1>6. CASE Provision
  <2>1. made' = made /\ Head(req).cert \in 0..made
    BY <1>1, <1>6 DEF Provision, Asked
  <2>2. rep' \in Seq(Accepted(made)) /\ registered' \subseteq 1..made
    <3>1. CASE Head(req).cert # NoCert
      <4>1. Head(req).cert \in 1..made /\ Answer("register", Head(req).cert)
            /\ registered' = registered \cup {Head(req).cert}
        BY <1>6, <2>1, <3>1 DEF Provision, Typed, TypeOK, NoCert
      <4> QED BY <4>1, AnswerType DEF Typed, TypeOK, MadeInv, Topic
    <3>2. CASE Head(req).cert = NoCert
      BY <1>6, <3>2 DEF Provision, Typed, TypeOK, MadeInv
    <3> QED BY <3>1, <3>2
  <2>3. Asked(made) \subseteq Message /\ Accepted(made) \subseteq Message
    BY DEF Asked, Accepted
  <2> QED BY <1>0, <1>2, <1>3, <1>4, <2>1, <2>2, <2>3, QueueGrows
          DEF Typed, TypeOK, MadeInv, device, record
<1> QED BY <1>5, <1>6 DEF Serve, ServeAgain

LEMMA FaultType ==
  ASSUME Typed, Lose \/ PowerCut \/ Renew
  PROVE  Typed'
<1>0. stray' = 0 => Tokens' /\ req' \in Seq(WithToken)
  BY TokensKept DEF Next, Tokens
<1>1. lost' \in 0..MaxLost
  BY ProvisioningAssumption DEF Lose, PowerCut, Renew, Typed, TypeOK
<1>2. Asked(made) \subseteq Message /\ Accepted(made) \subseteq Message
  BY DEF Asked, Accepted
<1>3. CASE Lose
  <2>1. /\ req' \in Seq(Asked(made)) /\ rep' \in Seq(Accepted(made))
        /\ link' \in {"idle", "up", "broken"}
    BY <1>3, QueueType, EmptyQueue
       DEF Lose, LoseRequest, LoseAnswer, BreakLink, Typed, TypeOK, MadeInv
  <2> QED BY <1>0, <1>1, <1>2, <1>3, <2>1, QueueGrows
          DEF Lose, Typed, TypeOK, MadeInv, service, device, record
<1>4. CASE PowerCut
  <2>1. rep' \in Seq(Accepted(made))
    BY <1>4, EmptyQueue DEF PowerCut, Close
  <2> QED BY <1>0, <1>1, <1>2, <1>4, <2>1, QueueGrows
          DEF PowerCut, Close, Typed, TypeOK, MadeInv, service, NoCert
<1>5. CASE Renew
  BY <1>0, <1>1, <1>5 DEF Renew, Typed, TypeOK, MadeInv, service, channel, record
<1> QED BY <1>3, <1>4, <1>5

LEMMA DeviceType ==
  ASSUME Typed, DeviceStep
  PROVE  Typed'
<1>1. stray' = 0 => Tokens' /\ req' \in Seq(WithToken)
  BY TokensKept DEF Next, Tokens
<1>2. Asked(made) \subseteq Message /\ Accepted(made) \subseteq Message
  BY DEF Asked, Accepted
<1>3. <<>> \in Seq(Accepted(made))
  BY EmptyQueue
<1>4. CASE Start
  <2>1. req' \in Seq(Asked(made))
    BY <1>4, MessageType, QueueType DEF Start, Typed, MadeInv
  <2>2. stray' \in 0..MaxStray
    BY <1>4, ProvisioningAssumption DEF Start, Typed, TypeOK
  <2> QED BY <1>1, <1>2, <1>4, <2>1, <2>2, QueueGrows
          DEF Start, Typed, TypeOK, MadeInv, service, record
<1>5. CASE Deliver
  <2>1. Head(rep).cert \in 1..made /\ rep' \in Seq(Accepted(made))
    BY <1>5, QueueType DEF Deliver, Typed, MadeInv, Accepted
  <2>2. CASE Created
    <3>1. stray' \in 0..MaxStray /\ info' \in 0..made /\ token' \in 0..made
      BY <2>1, <2>2, ProvisioningAssumption DEF Created, Parsed, Typed, TypeOK
    <3> QED BY <1>1, <1>2, <1>5, <2>1, <2>2, <3>1, QueueGrows
            DEF Deliver, Created, Typed, TypeOK, MadeInv, service, Topic
  <2>3. CASE Registered
    BY <1>1, <1>2, <1>5, <2>1, <2>3, QueueGrows
       DEF Deliver, Registered, Typed, TypeOK, MadeInv, service, record, Topic, NoCert
  <2> QED BY <1>5, <2>2, <2>3 DEF Deliver
<1>6. CASE SaveCert
  BY <1>1, <1>6 DEF SaveCert, Typed, TypeOK, MadeInv, service, channel, record, faults
<1>7. CASE RegisterThing
  <2>1. /\ req' \in Seq(Asked(made)) /\ rep' \in Seq(Accepted(made))
        /\ link' \in {"idle", "up", "broken"}
        /\ pc' \in {"waitRegister", "down"}
    BY <1>3, <1>7, MessageType, QueueType
       DEF RegisterThing, Close, Typed, TypeOK, MadeInv
  <2> QED BY <1>1, <1>2, <1>7, <2>1, QueueGrows
          DEF RegisterThing, Typed, TypeOK, MadeInv, service, record, faults
<1>8. CASE Finish
  BY <1>1, <1>2, <1>3, <1>8, QueueGrows
     DEF Finish, Close, Typed, TypeOK, MadeInv, service, record, faults
<1>9. ASSUME NEW t \in Topic, MissedCloses(t)
      PROVE  Typed'
  <2>1. slow' \in 0..MaxSlow
    BY <1>9, ProvisioningAssumption DEF MissedCloses, Missed, Typed, TypeOK
  <2> QED BY <1>1, <1>2, <1>3, <1>9, <2>1, QueueGrows
          DEF MissedCloses, Close, Typed, TypeOK, MadeInv, service, record
<1> QED BY <1>4, <1>5, <1>6, <1>7, <1>8, <1>9 DEF DeviceStep, Timeout, Topic

LEMMA TypedInvariant == Spec => []Typed
<1>1. Init => Typed
  BY ProvisioningAssumption, EmptyQueue DEF Init, Typed, TypeOK, MadeInv, Tokens, NoCert
<1>2. Typed /\ [Next]_vars => Typed'
  <2>1. Typed /\ Next => Typed'
    BY ServeType, FaultType, DeviceType DEF Next
  <2>2. Typed /\ UNCHANGED vars => Typed'
    BY DEF Typed, TypeOK, MadeInv, Tokens, vars, service, channel, device, record, faults
  <2> QED BY <2>1, <2>2
<1> QED BY <1>1, <1>2, PTL DEF Spec

(* Type correctness: what is saved, registered or under way is always a    *)
(* certificate the service has made.                                       *)
THEOREM TypeCorrect == Spec => []TypeOK
<1>1. Typed => TypeOK
  BY DEF Typed
<1> QED BY <1>1, TypedInvariant, PTL

-----------------------------------------------------------------------------
(* One message at a time: taking the only one leaves nothing, and an answer*)
(* to it is then the only one.                                             *)
LEMMA OneMessage ==
  ASSUME Typed, NEW t, Phase(t)
  PROVE  /\ req # <<>> => Tail(req) = <<>> /\ rep = <<>>
         /\ rep # <<>> => Tail(rep) = <<>> /\ req = <<>>
<1>1. req \in Seq(Message) /\ rep \in Seq(Message)
  BY DEF Typed, TypeOK
<1>2. /\ Len(req) \in Nat /\ (Len(req) = 0 => req = <<>>)
      /\ Len(rep) \in Nat /\ (Len(rep) = 0 => rep = <<>>)
  BY <1>1, EmptyQueue
<1>3. Len(req) <= 1 /\ Len(rep) <= 1
  BY <1>2 DEF Phase
<1>4. /\ req # <<>> => Tail(req) = <<>> /\ Len(req) = 1
      /\ rep # <<>> => Tail(rep) = <<>> /\ Len(rep) = 1
  BY <1>1, <1>3, ShortQueue
<1> QED BY <1>2, <1>4 DEF Phase

LEMMA OneAppended ==
  ASSUME NEW t \in Topic, NEW c \in Certs \cup {NoCert}
  PROVE  LET q == Append(<<>>, Msg(t, c))
         IN  q # <<>> /\ Len(q) = 1 /\ Head(q).topic = t /\ Head(q).cert = c
<1>1. Msg(t, c) \in Message /\ Msg(t, c).topic = t /\ Msg(t, c).cert = c
  BY DEF Msg, Message
<1>2. <<>> \in Seq(Message) /\ Len(<<>>) <= 1
  BY EmptyQueue
<1>3. DEFINE q == Append(<<>>, Msg(t, c))
<1>4. q # <<>> /\ Head(q) = Msg(t, c) /\ Len(q) = 1
  BY <1>1, <1>2, ShortQueue
<1> QED BY <1>1, <1>4

LEMMA ServePhase ==
  ASSUME Typed, PhaseInv, Serve
  PROVE  PhaseInv'
<1>1. req # <<>> /\ req' = Tail(req)
      /\ UNCHANGED <<link, pc, info, token, flags, cert>>
  BY DEF Serve, device, record
<1>2. CASE pc \in {"down", "done"}
  <2>1. rep' = rep
    BY <1>2 DEF Serve, CreateCert, Provision, Answer, Hears
  <2> QED BY <1>1, <1>2, <2>1 DEF PhaseInv
<1>3. CASE pc = "waitCreate"
  <2>1. Phase("create") /\ req' = <<>> /\ rep = <<>> /\ "create" \notin flags
    BY <1>1, <1>3, OneMessage DEF PhaseInv, Phase
  <2>2. made + 1 \in Certs \cup {NoCert}
        /\ (rep' = <<>> \/ rep' = Append(<<>>, Msg("create", made + 1)))
    BY <1>1, <2>1, ProvisioningAssumption
       DEF Serve, CreateCert, Provision, Phase, Answer, Typed, TypeOK, Certs
  <2>3. Phase("create")'
    <3>1. /\ Len(rep') \in 0..1
          /\ rep' # <<>> => Head(rep').topic = "create"
      BY <2>2, OneAppended, EmptyQueue DEF Topic
    <3>2. Len(req') = 0 /\ req' = <<>> /\ "create" \notin flags'
      BY <1>1, <2>1, EmptyQueue
    <3>3. Len(req') + Len(rep') <= 1
      <4>1. Len(req') = 0 /\ Len(rep') \in 0..1
        BY <3>1, <3>2
      <4> QED BY <4>1
    <3> QED BY <3>1, <3>2, <3>3 DEF Phase
  <2> QED BY <1>1, <1>3, <2>3 DEF PhaseInv
<1>4. CASE pc = "waitRegister"
  <2>1. /\ Phase("register") /\ req' = <<>> /\ rep = <<>> /\ "register" \notin flags
        /\ Head(req).topic = "register" /\ Head(req).cert = info /\ info # NoCert
    BY <1>1, <1>4, OneMessage DEF PhaseInv, Phase
  <2>2. Provision
    BY <2>1 DEF Serve, CreateCert
  <2>3. info' \in registered'
    BY <1>1, <2>1, <2>2 DEF Provision
  <2>4. info \in Certs \cup {NoCert}
        /\ (rep' = <<>> \/ rep' = Append(<<>>, Msg("register", info)))
    BY <2>1, <2>2, ProvisioningAssumption
       DEF Provision, Answer, Typed, TypeOK, Certs, NoCert
  <2>5. Phase("register")'
    <3>1. /\ Len(rep') \in 0..1
          /\ rep' # <<>> => Head(rep').topic = "register"
      BY <2>4, OneAppended, EmptyQueue DEF Topic
    <3>2. Len(req') = 0 /\ req' = <<>> /\ "register" \notin flags'
      BY <1>1, <2>1, EmptyQueue
    <3>3. Len(req') + Len(rep') <= 1
      <4>1. Len(req') = 0 /\ Len(rep') \in 0..1
        BY <3>1, <3>2
      <4> QED BY <4>1
    <3> QED BY <3>1, <3>2, <3>3 DEF Phase
  <2> QED BY <1>1, <1>4, <2>1, <2>3, <2>5 DEF PhaseInv
<1>5. CASE pc = "save"
  BY <1>1, <1>5 DEF PhaseInv
<1> QED BY <1>2, <1>3, <1>4, <1>5 DEF Typed, TypeOK

LEMMA FaultPhase ==
  ASSUME Typed, PhaseInv, Lose \/ PowerCut \/ Renew
  PROVE  PhaseInv'
<1>1. CASE Lose
  <2>1. /\ UNCHANGED <<pc, info, token, flags, cert, made, registered>>
        /\ req' \in {req, Tail(req), <<>>} /\ rep' \in {rep, Tail(rep), <<>>}
        /\ req' = Tail(req) => req # <<>> \/ req' = req
        /\ req = <<>> => req' = <<>>
        /\ rep = <<>> => rep' = <<>>
    BY <1>1 DEF Lose, LoseRequest, LoseAnswer, BreakLink, service, device, record
  <2>2. ASSUME NEW t, Phase(t)
        PROVE  req' \in {req, <<>>} /\ rep' \in {rep, <<>>}
    BY <2>1, <2>2, OneMessage
  <2>3. ASSUME NEW t, Phase(t)
        PROVE  Phase(t)'
    <3>1. Len(req) \in Nat /\ Len(rep) \in Nat
      BY EmptyQueue DEF Typed, TypeOK
    <3> QED BY <2>1, <2>2, <2>3, <3>1, EmptyQueue DEF Phase
  <2> QED BY <2>1, <2>2, <2>3 DEF PhaseInv
<1>2. CASE PowerCut
  BY <1>2 DEF PowerCut, Close, PhaseInv
<1>3. CASE Renew
  BY <1>3 DEF Renew, channel, service, record, PhaseInv
<1> QED BY <1>1, <1>2, <1>3

LEMMA DevicePhase ==
  ASSUME Typed, PhaseInv, DeviceStep, stray = 0, stray' = 0
  PROVE  PhaseInv'
<1>1. CASE Start
  <2>1. req = <<>> /\ rep = <<>> /\ flags' = {} /\ pc' = "waitCreate"
        /\ req' = Append(<<>>, Msg("create", NoCert)) /\ rep' = <<>>
    BY <1>1 DEF Start, Typed, TypeOK, PhaseInv
  <2>2. Phase("create")'
    BY <2>1, OneAppended, EmptyQueue DEF Phase, Topic
  <2> QED BY <1>1, <2>1, <2>2 DEF Start, record, PhaseInv
<1>2. CASE Deliver
  <2>1. CASE Created
    <3>1. pc = "waitCreate" /\ Phase("create")
      BY <1>2, <2>1 DEF Created, Deliver, PhaseInv, Phase
    <3>2. req' = <<>> /\ rep' = <<>> /\ pc' = "waitCreate"
      BY <1>2, <2>1, <3>1, OneMessage DEF Deliver, Created
    <3>3. Phase("create")'
      BY <3>2, EmptyQueue DEF Phase
    <3>4. "register" \notin flags'
      BY <2>1, <3>1 DEF Created, PhaseInv
    <3>5. token' = info'
      BY <2>1 DEF Created, Parsed
    <3> QED BY <3>2, <3>3, <3>4, <3>5 DEF PhaseInv
  <2>2. CASE Registered
    <3>1. /\ Phase("register") /\ info \in registered
          /\ req' = <<>> /\ rep' = <<>> /\ pc' = "save"
      BY <1>2, <2>2, OneMessage DEF Deliver, Registered, PhaseInv
    <3> QED BY <1>2, <2>2, <3>1 DEF Deliver, Registered, PhaseInv, service, record
  <2> QED BY <1>2, <2>1, <2>2 DEF Deliver
<1>3. CASE SaveCert
  <2>1. /\ req' = <<>> /\ rep' = <<>> /\ pc' = "waitRegister"
        /\ info' \in registered'
    BY <1>3 DEF SaveCert, PhaseInv, service, channel, record
  <2>2. Phase("register")'
    BY <2>1, EmptyQueue DEF Phase
  <2> QED BY <1>3, <2>1, <2>2 DEF SaveCert, record, PhaseInv
<1>4. CASE RegisterThing
  <2>1. req = <<>> /\ rep = <<>> /\ "register" \notin flags'
        /\ info \in Certs \cup {NoCert} /\ token = info /\ info # NoCert
    BY <1>4, ProvisioningAssumption
       DEF RegisterThing, PhaseInv, Phase, Typed, TypeOK, MadeInv, Tokens, Certs, NoCert
  <2>2. CASE pc' = "down"
    BY <1>4, <2>2 DEF RegisterThing, Close, PhaseInv, record
  <2>3. CASE pc' = "waitRegister"
    <3>1. /\ req' \in {<<>>, Append(<<>>, Msg("register", info))} /\ rep' = <<>>
          /\ info' = info /\ token' = token /\ registered' = registered
      <4>1. /\ req' = IF link = "up" THEN Append(req, Msg("register", info)) ELSE req
            /\ rep' = rep
        BY <1>4, <2>1, <2>3 DEF RegisterThing
      <4>2. info' = info /\ token' = token /\ registered' = registered
        BY <1>4 DEF RegisterThing, service, record
      <4> QED BY <2>1, <4>1, <4>2
    <3>2. Phase("register")' /\ (req' # <<>> => Head(req').cert = info')
      <4>1. \/ req' = <<>>
            \/ req' # <<>> /\ Len(req') = 1 /\ Head(req').topic = "register"
               /\ Head(req').cert = info
        BY <2>1, <3>1, OneAppended DEF Topic
      <4>2. Len(req') + Len(rep') <= 1
        <5>1. Len(<<>>) = 0
          BY EmptyQueue
        <5>2. Len(rep') = 0
          BY <3>1, <5>1
        <5>3. CASE req' = <<>>
          BY <5>1, <5>2, <5>3
        <5>4. CASE Len(req') = 1
          BY <5>2, <5>4
        <5> QED BY <4>1, <5>3, <5>4
      <4> QED BY <2>1, <3>1, <4>1, <4>2 DEF Phase
    <3> QED BY <2>1, <2>3, <3>1, <3>2 DEF PhaseInv
  <2> QED BY <1>4, <2>2, <2>3 DEF RegisterThing
<1>5. CASE Finish
  BY <1>5 DEF Finish, Close, PhaseInv, record
<1>6. CASE Timeout
  BY <1>6 DEF Timeout, MissedCloses, Close, PhaseInv, record
<1> QED BY <1>1, <1>2, <1>3, <1>4, <1>5, <1>6 DEF DeviceStep

Inv == Typed /\ (stray = 0 => PhaseInv)

LEMMA PhaseInvariant == Spec => []Inv
<1>1. Init => Inv
  <2>1. Init => Typed
    BY ProvisioningAssumption, EmptyQueue DEF Init, Typed, TypeOK, MadeInv, Tokens, NoCert
  <2> QED BY <2>1 DEF Init, Inv, PhaseInv
<1>2. Inv /\ [Next]_vars => Inv'
  <2>1. ASSUME Inv, Next
        PROVE  Inv'
    <3>1. Typed'
      BY <2>1, ServeType, FaultType, DeviceType DEF Inv, Next
    <3>2. ASSUME stray' = 0
          PROVE  PhaseInv'
      <4>1. stray = 0 /\ ~ ServeAgain
        BY <2>1, <3>2 DEF Inv, Typed, TypeOK, Next, Serve, ServeAgain, Lose, PowerCut,
                          Renew, DeviceStep, Start, Deliver, Created, Parsed, Registered,
                          SaveCert, RegisterThing, Finish, Timeout, MissedCloses, faults
      <4> QED BY <2>1, <3>2, <4>1, ServePhase, FaultPhase, DevicePhase DEF Inv, Next
    <3> QED BY <3>1, <3>2 DEF Inv
  <2>2. Inv /\ UNCHANGED vars => Inv'
    BY DEF Inv, Typed, TypeOK, MadeInv, Tokens, PhaseInv, Phase,
           vars, service, channel, device, record, faults
  <2> QED BY <2>1, <2>2
<1> QED BY <1>1, <1>2, PTL DEF Spec

(* As long as every answer belongs to the request the device is waiting    *)
(* for, the certificate in flash is only ever replaced by a registered one:*)
(* no number of lost or slow messages, broken connections, power cuts and  *)
(* renewals makes the save at the register acceptance meet another record. *)
THEOREM OnlyRegisteredReplaces == Spec => ReplacedByRegistered
<1>1. Inv /\ [Next]_vars => [cert' # cert /\ stray = 0 => info \in registered]_cert
  <2> SUFFICES ASSUME Inv, PhaseInv, Next, cert' # cert
               PROVE  info \in registered
    BY DEF Inv, vars, device
  <2>1. Registered \/ SaveCert
    BY DEF Next, DeviceStep, Serve, ServeAgain, Lose, PowerCut, Renew, Start, Deliver,
           Created, RegisterThing, Finish, Timeout, MissedCloses, device
  <2>2. CASE SaveCert
    BY <2>2 DEF SaveCert, PhaseInv
  <2>3. CASE Registered
    <3>1. Deliver
      BY <2>3 DEF Registered, Next, DeviceStep, Serve, ServeAgain, Lose, PowerCut, Renew,
                  Start, SaveCert, RegisterThing, Finish, Timeout, MissedCloses, device
    <3> QED BY <2>3, <3>1 DEF Deliver, Registered, PhaseInv
  <2> QED BY <2>1, <2>2, <2>3
<1> QED BY <1>1, PhaseInvariant, PTL DEF Spec, ReplacedByRegistered
-----------------------------------------------------------------------------
(* A whole renewal, as CertificateRenewal says it.                         *)

(* Between the erase and the save the sector is empty.                     *)
SaveInv == pc = "save" => cert = NoCert

LEMMA SaveHolds == Spec => []SaveInv
<1>1. Init => SaveInv
  BY DEF Init, SaveInv
<1>2. SaveInv /\ [Next]_vars => SaveInv'
  <2> SUFFICES ASSUME SaveInv, [Next]_vars PROVE SaveInv'
    OBVIOUS
  <2> USE DEF SaveInv
  <2>1. CASE Serve \/ ServeAgain \/ Lose \/ PowerCut \/ Renew
    BY <2>1 DEF Serve, ServeAgain, Lose, PowerCut, Renew, device
  <2>2. CASE Deliver
    BY <2>2 DEF Deliver, Created, Registered
  <2>3. CASE Start \/ SaveCert \/ RegisterThing \/ Finish \/ Timeout
    BY <2>3 DEF Start, SaveCert, RegisterThing, Finish, Timeout, MissedCloses
  <2>4. CASE UNCHANGED vars
    BY <2>4 DEF vars, device
  <2> QED BY <2>1, <2>2, <2>3, <2>4 DEF Next, DeviceStep
<1> QED BY <1>1, <1>2, PTL DEF Spec

(* Without a stray answer there was none before, and none is given twice.  *)
LEMMA NoStrayYet ==
  ASSUME Inv, Next, stray' = 0
  PROVE  stray = 0 /\ PhaseInv /\ ~ ServeAgain
<1>1. stray = 0 /\ ~ ServeAgain
  BY DEF Inv, Typed, TypeOK, Next, Serve, ServeAgain, Lose, PowerCut, Renew,
         DeviceStep, Start, Deliver, Created, Parsed, Registered, SaveCert,
         RegisterThing, Finish, Timeout, MissedCloses, faults
<1> QED BY <1>1 DEF Inv

(* The service makes and registers.                                        *)
LEMMA ServeRenews ==
  ASSUME Typed, Serve
  PROVE  [CR!Next]_(CR!vars)
<1>1. UNCHANGED <<info, cert>>
  BY DEF Serve, device, record
<1>2. CASE CreateCert
  <2>1. made' = made + 1 /\ registered' = registered /\ info' = info
    BY <1>1, <1>2 DEF CreateCert
  <2> QED BY <1>1, <2>1 DEF CR!Take, CR!Next
<1>3. CASE Provision
  <2>1. Head(req) \in Asked(made)
    BY QueueType DEF Typed, MadeInv, Serve
  <2>2. CASE Head(req).cert # NoCert
    <3>1. /\ Head(req).cert \in 1..made
          /\ registered' = registered \cup {Head(req).cert} /\ made' = made
      BY <1>3, <2>1, <2>2 DEF Provision, Asked, Typed, TypeOK, NoCert
    <3> QED BY <1>1, <3>1 DEF CR!Register, CR!Registers, CR!Made, CR!Next
  <2>3. CASE Head(req).cert = NoCert
    BY <1>1, <1>3, <2>3 DEF Provision, CR!vars
  <2> QED BY <2>2, <2>3
<1> QED BY <1>2, <1>3 DEF Serve

(* The callback takes a certificate over, or gives the old one up.         *)
LEMMA DeliverRenews ==
  ASSUME Typed, PhaseInv, Deliver, stray = 0, stray' = 0
  PROVE  CR!Next
<1>1. /\ Head(rep).cert \in 1..made /\ UNCHANGED <<made, registered>>
  BY QueueType DEF Deliver, Typed, MadeInv, Accepted, service
<1>2. CASE Created
  <2>1. info' \in 1..made' /\ cert' = cert
    BY <1>1, <1>2 DEF Created, Parsed
  <2> QED BY <1>1, <2>1 DEF CR!Take, CR!Made, CR!Next
<1>3. CASE Registered
  <2>1. info \in registered /\ info \in 1..made
    BY <1>3 DEF Deliver, Registered, PhaseInv, Typed, TypeOK
  <2>2. cert' = NoCert /\ info' = info /\ registered' = registered \cup {info}
    BY <1>1, <1>3, <2>1 DEF Registered, record
  <2> QED BY <1>1, <2>1, <2>2 DEF CR!GiveUp, CR!Registers, CR!Made, CR!Next
<1> QED BY <1>2, <1>3 DEF Deliver

LEMMA NextRenews ==
  ASSUME Inv, SaveInv, [Next]_vars, stray' = 0, ~ UNCHANGED CR!vars
  PROVE  CR!Next
<1>1. Next /\ Typed /\ PhaseInv /\ stray = 0 /\ ~ ServeAgain
  BY NoStrayYet DEF vars, service, device, record, CR!vars, Inv
<1>2. CASE Serve
  BY <1>1, <1>2, ServeRenews
<1>3. CASE Deliver
  BY <1>1, <1>3, DeliverRenews
<1>4. CASE SaveCert
  <2>1. cert = NoCert /\ info \in registered /\ cert' = info
        /\ UNCHANGED <<made, registered, info>>
    BY <1>1, <1>4 DEF SaveCert, SaveInv, PhaseInv, service, record
  <2> QED BY <2>1 DEF CR!Save, CR!Next
<1>5. CASE PowerCut
  <2>1. info' = NoCert /\ UNCHANGED <<made, registered, cert>>
    BY <1>5 DEF PowerCut, service
  <2> QED BY <2>1 DEF CR!Take, CR!Next
<1>6. CASE Lose \/ Renew \/ Start \/ RegisterThing \/ Finish \/ Timeout
  BY <1>6 DEF Lose, Renew, Start, RegisterThing, Finish, Timeout, MissedCloses,
              service, device, record, CR!vars
<1> QED BY <1>1, <1>2, <1>3, <1>4, <1>5, <1>6 DEF Next, DeviceStep

(* Two exchanges, their flags, a callback and a flash sector are one       *)
(* renewal, whatever is lost, slow, broken or cut, until an answer comes   *)
(* for a request of an earlier attempt.                                    *)
THEOREM RenewalInOrder == Spec => RenewsInOrder
<1>1. Init => CR!Init
  BY DEF Init, CR!Init, CR!TypeOK, CR!Made, NoCert
<1>2. Inv /\ SaveInv /\ [Next]_vars => [stray' = 0 => CR!Next]_(CR!vars)
  BY NextRenews
<1> QED BY <1>1, <1>2, PhaseInvariant, SaveHolds, PTL DEF Spec, RenewsInOrder

(* Until then the certificate in flash is a registered one: a thing once   *)
(* registered stays so, and the save meets only such a record.             *)
THEOREM SavedRegisteredUntilStray == Spec => [](stray = 0 => SavedWasRegistered)
<1> DEFINE Saved == stray = 0 => SavedWasRegistered
<1>1. Init => Saved
  BY DEF Init, SavedWasRegistered
<1>2. Inv /\ SaveInv /\ Saved /\ [Next]_vars => Saved'
  <2> SUFFICES ASSUME Inv, SaveInv, Saved, [Next]_vars, stray' = 0
               PROVE  SavedWasRegistered'
    OBVIOUS
  <2>1. CASE UNCHANGED vars
    BY <2>1 DEF vars, service, device, faults, SavedWasRegistered
  <2>2. CASE Next
    <3>1. SavedWasRegistered
      BY <2>2, NoStrayYet
    <3>2. CASE UNCHANGED CR!vars
      BY <3>1, <3>2 DEF CR!vars, SavedWasRegistered
    <3>3. CASE CR!Next
      <4>1. registered \subseteq registered'
        BY <3>3 DEF CR!Next, CR!Take, CR!Register, CR!Registers, CR!GiveUp, CR!Save
      <4>2. cert' \in registered' \/ cert' = cert \/ cert' = NoCert
        BY <3>3 DEF CR!Next, CR!Take, CR!Register, CR!Registers, CR!GiveUp, CR!Save
      <4> QED BY <3>1, <4>1, <4>2 DEF SavedWasRegistered
    <3> QED BY <3>2, <3>3, NextRenews
  <2> QED BY <2>1, <2>2
<1> QED BY <1>1, <1>2, PhaseInvariant, SaveHolds, PTL DEF Spec

-----------------------------------------------------------------------------
(* How far a device that has heard no stray answer is from being           *)
(* provisioned: an attempt that can still succeed is nearer than the next  *)
(* one, and one that cannot is farther, since it has to time out first.    *)
Awaits(t) == link = "up" /\ (req # <<>> \/ rep # <<>> \/ t \in flags)

Distance ==
  CASE pc = "done"         -> 0
    [] pc = "save"         -> 2
    [] pc = "down"         -> 5
    [] pc = "waitCreate"   -> IF Awaits("create") THEN 4 ELSE 7
    [] pc = "waitRegister" -> IF "register" \in flags THEN 1
                              ELSE IF Awaits("register") THEN 3 ELSE 6

(* The distance and the messages: those on their way to the service have   *)
(* two more steps behind them, those to the device one.                    *)
Near == 3 * Distance + 2 * Len(req) + Len(rep)

(* The slow answers and the losses that are still to come, each of which   *)
(* may undo all of that.                                                   *)
Effort == 24 * ((MaxSlow - slow) + (MaxLost - lost)) + Near

(* No step is idle or turns in a circle: each of the device, the service   *)
(* and the faults brings the end nearer.                                   *)
ProvisioningAdvances == [][stray' = 0 => Effort' < Effort]_vars

FlagInv == pc = "save" => "register" \in flags

LEMMA FlagHolds == Spec => []FlagInv
<1>1. Init => FlagInv
  BY DEF Init, FlagInv
<1>2. FlagInv /\ [Next]_vars => FlagInv'
  <2> SUFFICES ASSUME FlagInv, [Next]_vars PROVE FlagInv'
    OBVIOUS
  <2> USE DEF FlagInv, device
  <2>1. CASE Serve \/ ServeAgain \/ Lose \/ PowerCut \/ Renew
    BY <2>1 DEF Serve, ServeAgain, Lose, PowerCut, Renew
  <2>2. CASE DeviceStep
    BY <2>2 DEF DeviceStep, Start, Deliver, Created, Registered, SaveCert, RegisterThing,
       Finish, Timeout, MissedCloses
  <2>3. CASE UNCHANGED vars
    BY <2>3 DEF vars
  <2> QED BY <2>1, <2>2, <2>3 DEF Next
<1> QED BY <1>1, <1>2, PTL DEF Spec

LEMMA QueueLength ==
  ASSUME NEW S, NEW q \in Seq(S)
  PROVE  /\ Len(q) \in Nat
         /\ q # <<>> => Len(Tail(q)) = Len(q) - 1 /\ Len(q) > 0
         /\ \A m \in S : Len(Append(q, m)) = Len(q) + 1
OBVIOUS

LEMMA DistanceType ==
  ASSUME TypeOK
  PROVE  Distance \in 0..7
BY DEF TypeOK, Distance

LEMMA EffortType ==
  ASSUME TypeOK
  PROVE  Near \in Nat /\ Effort \in Nat
<1>1. Distance \in 0..7 /\ Len(req) \in Nat /\ Len(rep) \in Nat
  BY DistanceType, EmptyQueue DEF TypeOK
<1>2. Near \in Nat
  BY <1>1 DEF Near
<1>3. MaxSlow - slow \in Nat /\ MaxLost - lost \in Nat
  BY ProvisioningAssumption DEF TypeOK
<1> QED BY <1>2, <1>3 DEF Effort

LEMMA NextNear ==
  ASSUME TypeOK'
  PROVE  /\ Len(req') \in Nat /\ Len(rep') \in Nat
         /\ \E d \in 0..7 : Near' = 3 * d + 2 * Len(req') + Len(rep')
<1>1. Distance' \in 0..7
  BY DEF TypeOK, Distance
<1>2. Len(req') \in Nat /\ Len(rep') \in Nat
  BY EmptyQueue DEF TypeOK
<1>3. Near' = 3 * Distance' + 2 * Len(req') + Len(rep')
  BY DEF Near
<1> QED BY <1>1, <1>2, <1>3

(* A fault pays for whatever it undoes, and other steps have to come nearer.*)
LEMMA EffortFalls ==
  ASSUME Typed, Typed',
         \/ Near' < Near /\ slow' = slow /\ lost' = lost
         \/ /\ Len(req') <= Len(req) /\ Len(rep') <= Len(rep)
            /\ \/ slow' = slow + 1 /\ lost' = lost
               \/ slow' = slow /\ lost' = lost + 1
  PROVE  Effort' < Effort
<1> DEFINE before == Near
           after  == Near'
<1>1. slow \in Nat /\ lost \in Nat /\ MaxSlow \in Nat /\ MaxLost \in Nat
  BY ProvisioningAssumption DEF Typed, TypeOK
<1>2. Effort = 24 * ((MaxSlow - slow) + (MaxLost - lost)) + before
  BY DEF Effort
<1>3. Effort' = 24 * ((MaxSlow - slow') + (MaxLost - lost')) + after
  BY DEF Effort
<1>4. Len(req) \in Nat /\ Len(rep) \in Nat
  BY EmptyQueue DEF Typed, TypeOK
<1>5. PICK d \in 0..7 : before = 3 * d + 2 * Len(req) + Len(rep)
  BY DistanceType DEF Typed, Near
<1>6. /\ Len(req') \in Nat /\ Len(rep') \in Nat
      /\ \E e \in 0..7 : after = 3 * e + 2 * Len(req') + Len(rep')
  BY NextNear DEF Typed
<1>7. PICK e \in 0..7 : after = 3 * e + 2 * Len(req') + Len(rep')
  BY <1>6
<1>8. \/ after < before /\ slow' = slow /\ lost' = lost
      \/ /\ Len(req') <= Len(req) /\ Len(rep') <= Len(rep)
         /\ \/ slow' = slow + 1 /\ lost' = lost
            \/ slow' = slow /\ lost' = lost + 1
  OBVIOUS
<1> HIDE DEF before, after
<1>9. before \in Nat /\ after \in Nat
  BY <1>4, <1>5, <1>6, <1>7
<1>10. CASE after < before /\ slow' = slow /\ lost' = lost
  BY <1>1, <1>2, <1>3, <1>9, <1>10
<1>11. CASE /\ Len(req') <= Len(req) /\ Len(rep') <= Len(rep)
            /\ \/ slow' = slow + 1 /\ lost' = lost
               \/ slow' = slow /\ lost' = lost + 1
  <2>1. after <= before + 21
    BY <1>4, <1>5, <1>6, <1>7, <1>11
  <2> QED BY <1>1, <1>2, <1>3, <1>9, <1>11, <2>1
<1> QED BY <1>8, <1>10, <1>11

LEMMA ServeAdvances ==
  ASSUME Typed, PhaseInv, Serve
  PROVE  Near' < Near
<1>1. /\ req # <<>> /\ req' = Tail(req) /\ UNCHANGED <<link, pc, flags>>
      /\ CreateCert \/ Provision
  BY DEF Serve, device
<1>2. /\ Len(req) \in Nat /\ Len(rep) \in Nat /\ Len(req') = Len(req) - 1
      /\ Distance \in 0..7
  BY <1>1, QueueLength, DistanceType DEF Typed, TypeOK
<1>3. CASE rep' = rep
  <2>1. Distance' = Distance
    <3>1. CASE pc \in {"waitCreate", "waitRegister"} /\ link = "up"
      <4>1. /\ Hears(Head(req).topic) /\ Head(req).topic \in Topic
            /\ Head(req).topic = "register" => Head(req).cert # NoCert
        BY <1>1, <3>1 DEF PhaseInv, Phase, Hears, Topic
      <4>2. rep' \in {Append(rep, Msg("create", made + 1)), Append(rep, Msg("register", Head(req).cert))}
        BY <1>1, <4>1 DEF CreateCert, Provision, Answer
      <4>3. \A m : Append(rep, m) # rep
        BY <1>3, QueueLength DEF Typed, TypeOK
      <4> QED BY <1>3, <4>2, <4>3
    <3>2. CASE pc \in {"waitCreate", "waitRegister"} /\ link # "up"
      BY <1>1, <3>2 DEF Distance, Awaits
    <3>3. CASE pc \notin {"waitCreate", "waitRegister"}
      BY <1>1, <3>3 DEF Distance
    <3> QED BY <3>1, <3>2, <3>3
  <2> QED BY <1>2, <1>3, <2>1 DEF Near
<1>4. CASE rep' # rep
  <2>1. PICK m : rep' = Append(rep, m) /\ link = "up"
    BY <1>1, <1>4 DEF CreateCert, Provision, Answer, Hears
  <2>2. Len(rep') = Len(rep) + 1 /\ rep' # <<>>
    BY <2>1 DEF Typed, TypeOK
  <2>3. Distance' = Distance
    BY <1>1, <2>1, <2>2 DEF Distance, Awaits
  <2> QED BY <1>2, <2>2, <2>3 DEF Near
<1> QED BY <1>3, <1>4

(* What the device does, except to give up on a slow answer.               *)
LEMMA DeviceAdvances ==
  ASSUME Typed, PhaseInv, FlagInv, DeviceStep, stray = 0, stray' = 0, slow' = slow
  PROVE  Near' < Near
<1>1. Len(req) \in Nat /\ Len(rep) \in Nat /\ Distance \in 0..7 /\ Len(<<>>) = 0
  BY QueueLength, DistanceType, EmptyQueue DEF Typed, TypeOK
<1>2. CASE Start
  <2>1. req = <<>> /\ req' = Append(<<>>, Msg("create", NoCert)) /\ rep' = rep
        /\ pc = "down" /\ pc' = "waitCreate" /\ link' = "up"
    BY <1>2 DEF Start
  <2>2. Len(req') = 1 /\ req' # <<>>
    BY <2>1, OneAppended DEF Topic
  <2>3. Distance = 5 /\ Distance' = 4
    BY <2>1, <2>2 DEF Distance, Awaits
  <2> QED BY <1>1, <2>1, <2>2, <2>3 DEF Near
<1>3. CASE Deliver
  <2>1. rep # <<>> /\ rep' = Tail(rep) /\ UNCHANGED <<req, link>>
    BY <1>3 DEF Deliver
  <2>2. Len(rep') = Len(rep) - 1
    BY <2>1, QueueLength DEF Typed, TypeOK
  <2>3. Distance' <= Distance
    <3>1. CASE Created
      <4>1. pc = "waitCreate" /\ pc' = "waitCreate" /\ flags' = flags \cup {"create"}
        BY <2>1, <3>1 DEF Created, PhaseInv, Phase
      <4> QED BY <2>1, <4>1 DEF Distance, Awaits
    <3>2. CASE Registered
      <4>1. pc = "waitRegister" /\ pc' = "save" /\ "register" \notin flags
        BY <2>1, <3>2 DEF Registered, PhaseInv, Phase
      <4> QED BY <4>1 DEF Distance
    <3> QED BY <1>3, <3>1, <3>2 DEF Deliver
  <2>4. Distance' \in Int
    BY <1>3 DEF Deliver, Created, Registered, Distance
  <2> QED BY <1>1, <2>1, <2>2, <2>3, <2>4 DEF Near
<1>4. CASE SaveCert
  <2>1. /\ pc = "save" /\ pc' = "waitRegister" /\ "register" \in flags
        /\ UNCHANGED <<req, rep, flags>>
    BY <1>4 DEF SaveCert, channel, FlagInv
  <2>2. Distance = 2 /\ Distance' = 1
    BY <2>1 DEF Distance
  <2> QED BY <1>1, <2>1, <2>2 DEF Near
<1>5. CASE RegisterThing
  <2>1. /\ pc = "waitCreate" /\ "create" \in flags /\ req = <<>> /\ rep = <<>>
        /\ "register" \notin flags' /\ token \in Certs \cup {NoCert}
    BY <1>5, ProvisioningAssumption
       DEF RegisterThing, PhaseInv, Phase, Typed, TypeOK, Certs, NoCert
  <2>2. CASE pc' = "down"
    <3>1. link = "broken" /\ req' = req /\ rep' = <<>>
      BY <1>5, <2>2 DEF RegisterThing, Close
    <3>2. Distance = 7 /\ Distance' = 5
      BY <2>1, <2>2, <3>1 DEF Distance, Awaits
    <3> QED BY <1>1, <2>1, <3>1, <3>2 DEF Near
  <2>3. CASE pc' = "waitRegister" /\ link = "up"
    <3>1. req' = Append(<<>>, Msg("register", token)) /\ rep' = rep /\ link' = "up"
      BY <1>5, <2>1, <2>3 DEF RegisterThing
    <3>2. Len(req') = 1 /\ req' # <<>>
      BY <2>1, <3>1, OneAppended DEF Topic
    <3>3. Distance = 4 /\ Distance' = 3
      BY <2>1, <2>3, <3>1, <3>2 DEF Distance, Awaits
    <3> QED BY <1>1, <2>1, <3>1, <3>2, <3>3 DEF Near
  <2>4. CASE pc' = "waitRegister" /\ link # "up"
    <3>1. req' = req /\ rep' = rep /\ link' = link
      BY <1>5, <2>1, <2>4 DEF RegisterThing
    <3>2. Distance = 7 /\ Distance' = 6
      BY <2>1, <2>4, <3>1 DEF Distance, Awaits
    <3> QED BY <1>1, <3>1, <3>2 DEF Near
  <2> QED BY <1>5, <2>2, <2>3, <2>4 DEF RegisterThing
<1>6. CASE Finish
  <2>1. /\ pc = "waitRegister" /\ pc' = "done" /\ "register" \in flags
        /\ req' = req /\ rep' = <<>>
    BY <1>6 DEF Finish, Close
  <2>2. Distance = 1 /\ Distance' = 0
    BY <2>1 DEF Distance
  <2> QED BY <1>1, <2>1, <2>2 DEF Near
<1>7. CASE Timeout
  <2>1. PICK t \in Topic : MissedCloses(t)
    BY <1>7 DEF Timeout, Topic
  <2>2. req = <<>> /\ rep = <<>>
    <3>1. slow \in Nat
      BY ProvisioningAssumption DEF Typed, TypeOK
    <3> QED BY <2>1, <3>1 DEF MissedCloses, Missed
  <2>3. pc' = "down" /\ req' = req /\ rep' = <<>>
    BY <2>1 DEF MissedCloses, Close
  <2>4. Distance \in {6, 7} /\ Distance' = 5
    BY <2>1, <2>2, <2>3 DEF MissedCloses, Missed, Distance, Awaits
  <2> QED BY <1>1, <2>2, <2>3, <2>4 DEF Near
<1> QED BY <1>2, <1>3, <1>4, <1>5, <1>6, <1>7 DEF DeviceStep

LEMMA FaultAdvances ==
  ASSUME Typed, Typed', Lose \/ PowerCut \/ Renew
  PROVE  Effort' < Effort
<1>1. slow' = slow /\ lost' = lost + 1
  BY DEF Lose, PowerCut, Renew
<1>2. /\ Len(req) \in Nat /\ Len(rep) \in Nat /\ Len(<<>>) = 0
      /\ req # <<>> => Len(Tail(req)) = Len(req) - 1
      /\ rep # <<>> => Len(Tail(rep)) = Len(rep) - 1
  BY QueueLength, EmptyQueue DEF Typed, TypeOK
<1>3. /\ req' \in {req, <<>>} \/ (req # <<>> /\ req' = Tail(req))
      /\ rep' \in {rep, <<>>} \/ (rep # <<>> /\ rep' = Tail(rep))
  BY DEF Lose, LoseRequest, LoseAnswer, BreakLink, PowerCut, Close, Renew, channel
<1>4. Len(req') <= Len(req) /\ Len(rep') <= Len(rep)
  BY <1>2, <1>3
<1> QED BY <1>1, <1>4, EffortFalls

(* Without stray answers every step of the device, the service and the     *)
(* faults leaves less to do, so that no behaviour goes on for ever: with a *)
(* service that answers and a task that runs, it ends where Provisions says.*)
THEOREM ProvisioningEnds == Spec => [](Effort \in Nat) /\ ProvisioningAdvances
<1>1. Typed => Effort \in Nat
  BY EffortType DEF Typed
<1>2. Inv /\ Inv' /\ FlagInv /\ [Next]_vars => [stray' = 0 => Effort' < Effort]_vars
  <2> SUFFICES ASSUME Inv, Inv', FlagInv, Next, stray' = 0
               PROVE  Effort' < Effort
    OBVIOUS
  <2>1. stray = 0 /\ ~ ServeAgain
    BY DEF Inv, Typed, TypeOK, Next, Serve, ServeAgain, Lose, PowerCut,
           Renew, DeviceStep, Start, Deliver, Created, Parsed, Registered, SaveCert, RegisterThing,
           Finish, Timeout, MissedCloses, faults
  <2>2. Typed /\ Typed' /\ PhaseInv
    BY <2>1 DEF Inv
  <2>3. CASE Serve
    <3>1. UNCHANGED <<slow, lost>>
      BY <2>3 DEF Serve, faults
    <3> QED BY <2>2, <2>3, <3>1, ServeAdvances, EffortFalls
  <2>4. CASE Lose \/ PowerCut \/ Renew
    BY <2>2, <2>4, FaultAdvances
  <2>5. CASE DeviceStep /\ slow' = slow
    <3>1. UNCHANGED <<slow, lost>>
      BY <2>5 DEF DeviceStep, Start, Deliver, Created, Parsed, Registered, SaveCert, RegisterThing,
           Finish, Timeout, MissedCloses, faults
    <3> QED BY <2>1, <2>2, <2>5, <3>1, DeviceAdvances, EffortFalls
  <2>6. CASE DeviceStep /\ slow' # slow
    <3>1. PICK t \in Topic : MissedCloses(t) /\ slow' = slow + 1
      BY <2>6 DEF DeviceStep, Start, Deliver, Created, Parsed, Registered, SaveCert, RegisterThing,
           Finish, Timeout, MissedCloses, Missed, faults, Topic
    <3>2. lost' = lost /\ req' = req /\ rep' = <<>>
      BY <3>1 DEF MissedCloses, Close
    <3>3. Len(req') <= Len(req) /\ Len(rep') <= Len(rep)
      BY <2>2, <3>2, EmptyQueue DEF Typed, TypeOK
    <3> QED BY <2>2, <3>1, <3>2, <3>3, EffortFalls
  <2> QED BY <2>1, <2>3, <2>4, <2>5, <2>6 DEF Next
<1>3. Inv => Typed
  BY DEF Inv
<1> QED BY <1>1, <1>2, <1>3, PhaseInvariant, FlagHolds, PTL DEF Spec, ProvisioningAdvances
=============================================================================
