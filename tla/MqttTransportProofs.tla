------------------------ MODULE MqttTransportProofs ------------------------
(***************************************************************************)
(* Proofs about MqttTransport, for every size of the table and any number  *)
(* of faults.                                                              *)
(***************************************************************************)
EXTENDS MqttTransport, FiniteSetTheorems, TLAPS

(* Who holds what: a socket is connected only between the handshake and    *)
(* the close, the pointer names the context of a task in its session, and  *)
(* that context holds memory since tls_socket_init.                        *)
HoldingInv ==
  /\ \A c \in Clients :
       /\ c \in open => pc[c] \in {"tls", "session"}
       /\ pc[c] = "tls" => c \in held
       /\ tls = c => pc[c] = "session"
  /\ PointerIsHeld
  /\ (\A c \in Clients : pc[c] = "out") => state = "idle" /\ count = 0

(* Alone in the transport, a task finds it idle until it is connected.     *)
AloneInv ==
  /\ \A c \in Clients : pc[c] # "out" => pc[Other(c)] = "out"
  /\ \A c \in Clients :
       pc[c] \in {"dns", "tls"} => state = "idle" /\ tls = NoClient /\ callback = c

SessionInv == HoldingInv /\ OwnSession /\ (~ shared => AloneInv)

-----------------------------------------------------------------------------
(* Types.                                                                  *)

LEMMA FactIsBoolean ==
  ASSUME NEW a, NEW b
  PROVE  (a # b) \in BOOLEAN
<1>1. CASE a = b
  <2>1. (a # b) = FALSE
    BY <1>1
  <2> QED BY <2>1
<1>2. CASE a # b
  <2>1. (a # b) = TRUE
    BY <1>2
  <2> QED BY <2>1
<1> QED BY <1>1, <1>2

LEMMA FaultType ==
  ASSUME TypeOK, Fault \/ UNCHANGED faults
  PROVE  faults' \in 0..MaxFaults
BY TransportAssumption DEF TypeOK, Fault

(* The sequences of calls a task may be given.                             *)
LEMMA CallsType ==
  /\ \A c \in Clients : CallsOf(c) \in Seq(Call)
  /\ \A t \in Exchanges : Exchange(t) \in Seq(Call)
  /\ \A c \in Clients : \A call : Cleanup(c, call) \in Seq(Call)
<1> USE DEF Call, Topics, DanglingTopics
<1>1. MainCalls \in Seq(Call)
  BY DEF MainCalls
<1>2. JobsCalls \in Seq(Call)
  BY DEF JobsCalls
<1>3. ASSUME NEW t \in Exchanges PROVE Exchange(t) \in Seq(Call)
  BY DEF Exchange, Exchanges
<1>4. ASSUME NEW c \in Clients, NEW call PROVE Cleanup(c, call) \in Seq(Call)
  <2> DEFINE un(t) == <<"unsub", t>>
             shut == <<"close", NoTopic>>
  <2>1. \A t \in Topics : un(t) \in Call
    OBVIOUS
  <2>2. shut \in Call
    OBVIOUS
  <2>3. /\ << shut >> \in Seq(Call)
        /\ \A t \in Topics : << un(t), shut >> \in Seq(Call)
        /\ \A t, u \in Topics : << un(t), un(u), shut >> \in Seq(Call)
    <3> HIDE DEF un, shut
    <3> QED BY <2>1, <2>2
  <2>4. CASE c = "jobs"
    BY <2>3, <2>4 DEF Cleanup
  <2>5. CASE c # "jobs"
    BY <2>3, <2>5 DEF Cleanup
  <2> QED BY <2>4, <2>5
<1> QED BY <1>1, <1>2, <1>3, <1>4 DEF CallsOf

LEMMA TodoType ==
  ASSUME TypeOK, NEW c \in Clients, todo[c] # <<>>, Advance(c) \/ Abandon(c)
  PROVE  todo' \in [Clients -> Seq(Call)]
<1>1. todo[c] \in Seq(Call) /\ todo \in [Clients -> Seq(Call)]
  BY DEF TypeOK
<1>2. CASE Advance(c)
  <2>1. Tail(todo[c]) \in Seq(Call)
    BY <1>1
  <2> QED BY <1>1, <1>2, <2>1 DEF Advance
<1>3. CASE Abandon(c)
  <2>1. Cleanup(c, Head(todo[c])) \in Seq(Call)
    BY CallsType
  <2> QED BY <1>1, <1>3, <2>1 DEF Abandon
<1> QED BY <1>2, <1>3

LEMMA CloseType ==
  ASSUME TypeOK, NEW c \in Clients, Close(c), Goto(c, "out")
  PROVE  /\ pc' \in [Clients -> {"out", "dns", "tls", "session"}]
         /\ state' \in {"idle", "running"}
         /\ count' \in 0..TableSize
         /\ tls' \in Clients \cup {NoClient}
         /\ held' \subseteq Clients /\ open' \subseteq Clients
BY TransportAssumption DEF TypeOK, Close, Goto

(* The steps that begin or end a session keep the types.                   *)
LEMMA SessionType ==
  ASSUME TypeOK, NEW c \in Clients,
         \/ Begin(c) \/ DnsFails(c) \/ TlsInit(c) \/ HandshakeFails(c)
         \/ Connected(c) \/ Refused(c) \/ CloseCall(c) \/ UsesNull(c) \/ Dropped(c)
  PROVE  TypeOK'
<1> USE DEF config
<1>1. CASE Begin(c)
  <2>1. shared' \in BOOLEAN
    <3>1. (pc[Other(c)] # "out") \in BOOLEAN
      BY FactIsBoolean
    <3> QED BY <1>1, <3>1 DEF Begin, TypeOK
  <2>2. CASE state = "idle" /\ Clear /\ Goto(c, "dns")
    <3>1. table' \in [0..(TableSize - 1) -> Topics \cup {NoTopic}]
      BY <2>2 DEF Clear
    <3>2. pc' \in [Clients -> {"out", "dns", "tls", "session"}]
      BY <2>2 DEF Goto, TypeOK
    <3>3. /\ count' \in 0..TableSize
          /\ state' \in {"idle", "running"}
          /\ context' \in [sock : Clients \cup {NoClient},
                           callback : Clients \cup {NoClient}]
      BY <2>2, TransportAssumption DEF Clear, NoContext
    <3> QED BY <1>1, <2>1, <3>1, <3>2, <3>3 DEF Begin, SetCallback, TypeOK
  <2>3. CASE UNCHANGED <<pc, config, shared>>
    BY <1>1, <2>3 DEF Begin, SetCallback, TypeOK
  <2> QED BY <1>1, <2>2, <2>3 DEF Begin
<1>2. CASE DnsFails(c) \/ HandshakeFails(c)
  <2>1. GiveUp(c) /\ Fault
    BY <1>2 DEF DnsFails, HandshakeFails
  <2> QED BY <2>1, FaultType, CloseType DEF GiveUp, TypeOK
<1>3. CASE TlsInit(c)
  BY <1>3 DEF TlsInit, Goto, TypeOK
<1>4. CASE Connected(c)
  <2>1. todo' \in [Clients -> Seq(Call)]
    BY <1>4, CallsType DEF Connected, TypeOK
  <2> QED BY <1>4, <2>1 DEF Connected, Goto, TypeOK
<1>5. CASE Refused(c)
  <2>1. faults' \in 0..MaxFaults
    BY <1>5, FaultType DEF Refused
  <2> QED BY <1>5, <2>1, TransportAssumption DEF Refused, Goto, TypeOK
<1>6. CASE CloseCall(c)
  <2>1. todo' \in [Clients -> Seq(Call)]
    BY <1>6, TodoType DEF CloseCall, Calls
  <2> QED BY <1>6, <2>1, CloseType DEF CloseCall, TypeOK
<1>7. CASE UsesNull(c)
  BY <1>7 DEF UsesNull, TypeOK
<1>8. CASE Dropped(c)
  BY <1>8, FaultType DEF Dropped, TypeOK
<1> QED BY <1>1, <1>2, <1>3, <1>4, <1>5, <1>6, <1>7, <1>8

(* The calls of a session keep the types.                                  *)
LEMMA CallType ==
  ASSUME TypeOK, NEW c \in Clients, NEW t \in Topics,
         \/ Subscribe(c, t) \/ Overruns(c, t) \/ Unsubscribe(c, t)
         \/ Publish(c, t) \/ Answered(c, t) \/ TimedOut(c, t) \/ Waits(c, t)
  PROVE  TypeOK'
<1> USE DEF config, Calls
<1>1. ASSUME Fails(c) PROVE faults' \in 0..MaxFaults
  BY <1>1, FaultType DEF Fails
<1>2. CASE Subscribe(c, t)
  <2>1. todo' \in [Clients -> Seq(Call)]
    BY <1>2, TodoType DEF Subscribe
  <2>2. table' \in [0..(TableSize - 1) -> Topics \cup {NoTopic}]
    BY <1>2 DEF Subscribe, TypeOK
  <2>3. count' \in 0..TableSize
    BY <1>2, TransportAssumption DEF Subscribe, TypeOK
  <2>4. faults' \in 0..MaxFaults
    BY <1>1, <1>2 DEF Subscribe, TypeOK
  <2> QED BY <1>2, <2>1, <2>2, <2>3, <2>4 DEF Subscribe, TypeOK
<1>3. CASE Overruns(c, t)
  BY <1>3 DEF Overruns, TypeOK
<1>4. CASE Unsubscribe(c, t)
  <2>1. todo' \in [Clients -> Seq(Call)]
    BY <1>4, TodoType DEF Unsubscribe
  <2>2. count' \in 0..TableSize
    <3>1. PICK n \in 0..count : count' = count - n
      BY <1>4 DEF Unsubscribe
    <3> QED BY <3>1, TransportAssumption DEF TypeOK
  <2>3. faults' \in 0..MaxFaults
    BY <1>1, <1>4 DEF Unsubscribe, TypeOK
  <2> QED BY <1>4, <2>1, <2>2, <2>3 DEF Unsubscribe, TypeOK
<1>5. CASE Publish(c, t)
  <2>1. todo' \in [Clients -> Seq(Call)]
    BY <1>5, TodoType DEF Publish
  <2>2. faults' \in 0..MaxFaults
    BY <1>1, <1>5 DEF Publish, TypeOK
  <2> QED BY <1>5, <2>1, <2>2 DEF Publish, TypeOK
<1>6. CASE Answered(c, t)
  <2>1. todo' \in [Clients -> Seq(Call)]
    BY <1>6, TodoType DEF Answered
  <2> QED BY <1>6, <2>1 DEF Answered, TypeOK
<1>7. CASE TimedOut(c, t)
  <2>1. todo' \in [Clients -> Seq(Call)]
    BY <1>7, TodoType DEF TimedOut
  <2> QED BY <1>1, <1>7, <2>1 DEF TimedOut, TypeOK
<1>8. CASE Waits(c, t)
  BY <1>8 DEF Waits, TypeOK
<1> QED BY <1>2, <1>3, <1>4, <1>5, <1>6, <1>7, <1>8

LEMMA ServeType == TypeOK /\ Serve => TypeOK'
<1> SUFFICES ASSUME TypeOK, Serve PROVE TypeOK'
  OBVIOUS
<1>1. todo' \in [Clients -> Seq(Call)]
  BY CallsType DEF Serve, TypeOK, Clients
<1> QED BY <1>1 DEF Serve, TypeOK, config, Clients

LEMMA TypeInit == Init => TypeOK
<1> SUFFICES ASSUME Init PROVE TypeOK
  OBVIOUS
<1>1. table \in [0..(TableSize - 1) -> Topics \cup {NoTopic}]
  BY DEF Init
<1>2. todo \in [Clients -> Seq(Call)] /\ pc \in [Clients -> {"out", "dns", "tls", "session"}]
  BY DEF Init
<1>3. context \in [sock : Clients \cup {NoClient}, callback : Clients \cup {NoClient}]
  BY DEF Init, NoContext
<1>4. count \in 0..TableSize /\ faults \in 0..MaxFaults
  BY TransportAssumption DEF Init
<1> QED BY <1>1, <1>2, <1>3, <1>4 DEF Init, TypeOK

LEMMA TypeStep == TypeOK /\ [Next]_vars => TypeOK'
<1> SUFFICES ASSUME TypeOK, [Next]_vars PROVE TypeOK'
  OBVIOUS
<1>1. CASE UNCHANGED vars
  BY <1>1 DEF vars, config, TypeOK
<1>2. CASE Next
  BY <1>2, ServeType, SessionType, CallType DEF Next, Step
<1> QED BY <1>1, <1>2

(* Every variable keeps its type: no count ever leaves the table.          *)
THEOREM TransportTypes == Spec => []TypeOK
BY TypeInit, TypeStep, PTL DEF Spec

-----------------------------------------------------------------------------
(* The sessions.                                                           *)

LEMMA OtherClient ==
  \A c \in Clients : Other(c) \in Clients /\ Other(c) # c
                     /\ \A d \in Clients : d # c => d = Other(c)
BY DEF Clients, Other

LEMMA NotClient == NoClient \notin Clients
BY DEF Clients, NoClient

(* The steps that leave every session where it is.                         *)
LEMMA SameSessions ==
  ASSUME SessionInv, UNCHANGED <<pc, state, context, callback, tls, held, shared>>,
         undefined' # "null" \/ shared,
         open' \subseteq open,
         count' = count \/ \E c \in Clients : pc[c] # "out"
  PROVE  SessionInv'
<1>1. HoldingInv'
  BY DEF SessionInv, HoldingInv, PointerIsHeld
<1>2. OwnSession'
  BY DEF SessionInv, OwnSession, OwnContext
<1>3. ~ shared' => AloneInv'
  BY DEF SessionInv, AloneInv
<1> QED BY <1>1, <1>2, <1>3 DEF SessionInv

(* Whoever closes, the other task's session keeps what it had, unless the  *)
(* pointer named its context; a task that is alone leaves all behind.      *)
LEMMA CloseSessions ==
  ASSUME TypeOK, SessionInv, NEW c \in Clients, pc[c] # "out", undefined = "no",
         Close(c), Goto(c, "out"), UNCHANGED <<context, callback, shared, undefined>>
  PROVE  SessionInv'
<1>1. \A d \in Clients : pc'[d] = IF d = c THEN "out" ELSE pc[d]
  BY DEF Goto, TypeOK
<1>2. tls' = NoClient /\ open' = open \ {c} /\ state' = "idle" /\ count' = 0
      /\ held' = held \ {tls}
  BY DEF Close
<1>3. HoldingInv'
  BY <1>1, <1>2, NotClient DEF SessionInv, HoldingInv, PointerIsHeld
<1>4. ASSUME ~ shared PROVE \A d \in Clients : pc'[d] = "out"
  BY <1>1, <1>4, OtherClient DEF SessionInv, AloneInv
<1>5. OwnSession'
  BY <1>4 DEF OwnSession
<1>6. ~ shared' => AloneInv'
  BY <1>4, OtherClient DEF AloneInv
<1> QED BY <1>3, <1>5, <1>6 DEF SessionInv

LEMMA BeginSessions ==
  ASSUME TypeOK, SessionInv, undefined = "no", NEW c \in Clients, Begin(c)
  PROVE  SessionInv'
<1>1. UNCHANGED <<tls, held, open, undefined>> /\ callback' = c /\ pc[c] = "out"
  BY DEF Begin, SetCallback
<1>2. CASE state = "idle" /\ Clear /\ Goto(c, "dns") /\ shared' = (pc[Other(c)] # "out")
  <2>1. \A d \in Clients : pc'[d] = IF d = c THEN "dns" ELSE pc[d]
    BY <1>2 DEF Goto, TypeOK
  <2>2. count' = 0 /\ state' = "idle"
    BY <1>2 DEF Clear
  <2>3. HoldingInv'
    BY <1>1, <2>1, <2>2 DEF SessionInv, HoldingInv, PointerIsHeld
  <2>4. ASSUME ~ shared' PROVE pc[Other(c)] = "out"
    BY <1>2, <2>4
  <2>5. ASSUME ~ shared' PROVE tls = NoClient
    <3>1. \A d \in Clients : pc[d] = "out"
      BY <1>1, <2>4, <2>5, OtherClient
    <3>2. \A d \in Clients : tls # d
      BY <3>1 DEF SessionInv, HoldingInv
    <3> QED BY <3>2 DEF TypeOK
  <2>6. OwnSession'
    BY <1>1, <2>1, <2>4, OtherClient DEF OwnSession
  <2>7. ~ shared' => AloneInv'
    BY <1>1, <2>1, <2>2, <2>4, <2>5, OtherClient DEF AloneInv
  <2> QED BY <2>3, <2>6, <2>7 DEF SessionInv
<1>3. CASE state # "idle" /\ UNCHANGED <<pc, config, shared>>
  <2>1. HoldingInv'
    BY <1>1, <1>3 DEF SessionInv, HoldingInv, PointerIsHeld, config
  <2>2. OwnSession'
    BY <1>1, <1>3 DEF SessionInv, OwnSession, OwnContext, config
  <2>3. ~ shared' => AloneInv'
    BY <1>3 DEF SessionInv, AloneInv, config
  <2> QED BY <2>1, <2>2, <2>3 DEF SessionInv
<1> QED BY <1>2, <1>3 DEF Begin

LEMMA ConnectSessions ==
  ASSUME TypeOK, SessionInv, undefined = "no", NEW c \in Clients,
         TlsInit(c) \/ Connected(c) \/ Refused(c)
  PROVE  SessionInv'
<1>1. CASE TlsInit(c)
  <2>1. \A d \in Clients : pc'[d] = IF d = c THEN "tls" ELSE pc[d]
    BY <1>1 DEF TlsInit, Goto, TypeOK
  <2>2. /\ pc[c] = "dns" /\ held' = held \cup {c} /\ open' = open \cup {c}
        /\ UNCHANGED <<state, context, count, callback, tls, shared, undefined>>
    BY <1>1 DEF TlsInit, config
  <2>3. HoldingInv'
    BY <2>1, <2>2 DEF SessionInv, HoldingInv, PointerIsHeld
  <2>4. OwnSession'
    BY <2>1, <2>2 DEF SessionInv, OwnSession, OwnContext
  <2>5. ~ shared' => AloneInv'
    BY <2>1, <2>2, OtherClient DEF SessionInv, AloneInv
  <2> QED BY <2>3, <2>4, <2>5 DEF SessionInv
<1>2. CASE Connected(c)
  <2>1. \A d \in Clients : pc'[d] = IF d = c THEN "session" ELSE pc[d]
    BY <1>2 DEF Connected, Goto, TypeOK
  <2>2. /\ pc[c] = "tls" /\ tls' = c /\ state' = "running"
        /\ context' = [sock |-> c, callback |-> callback]
        /\ UNCHANGED <<count, callback, held, open, shared, undefined>>
    BY <1>2 DEF Connected
  <2>3. HoldingInv'
    BY <2>1, <2>2, NotClient DEF SessionInv, HoldingInv, PointerIsHeld
  <2>4. ASSUME ~ shared
        PROVE  callback = c /\ \A d \in Clients : d # c => pc[d] = "out"
    BY <2>2, <2>4, OtherClient DEF SessionInv, AloneInv
  <2>5. OwnSession'
    BY <2>1, <2>2, <2>4 DEF SessionInv, OwnSession, OwnContext
  <2>6. ~ shared' => AloneInv'
    BY <2>1, <2>2, <2>4, OtherClient DEF AloneInv
  <2> QED BY <2>3, <2>5, <2>6 DEF SessionInv
<1>3. CASE Refused(c)
  <2>1. \A d \in Clients : pc'[d] = IF d = c THEN "out" ELSE pc[d]
    BY <1>3 DEF Refused, Goto, TypeOK
  <2>2. /\ tls' = NoClient /\ open' = open \ {c} /\ state' = "idle" /\ count' = 0
        /\ held' = held \ {c} /\ pc[c] = "tls"
        /\ UNCHANGED <<callback, shared, undefined>>
    BY <1>3 DEF Refused
  <2>3. HoldingInv'
    BY <2>1, <2>2, NotClient DEF SessionInv, HoldingInv, PointerIsHeld
  <2>4. ASSUME ~ shared PROVE \A d \in Clients : pc'[d] = "out"
    BY <2>1, <2>2, <2>4, OtherClient DEF SessionInv, AloneInv
  <2>5. OwnSession'
    BY <2>2, <2>4 DEF OwnSession
  <2>6. ~ shared' => AloneInv'
    BY <2>2, <2>4, OtherClient DEF AloneInv
  <2> QED BY <2>3, <2>5, <2>6 DEF SessionInv
<1> QED BY <1>1, <1>2, <1>3

LEMMA SessionInit == Init => SessionInv
BY NotClient DEF Init, SessionInv, HoldingInv, PointerIsHeld, OwnSession, AloneInv

LEMMA SessionStep == TypeOK /\ SessionInv /\ [Next]_vars => SessionInv'
<1> SUFFICES ASSUME TypeOK, SessionInv, [Next]_vars PROVE SessionInv'
  OBVIOUS
<1>1. CASE UNCHANGED vars
  BY <1>1 DEF vars, config, SessionInv, HoldingInv, PointerIsHeld, OwnSession,
              OwnContext, AloneInv
<1> SUFFICES ASSUME Next PROVE SessionInv'
  BY <1>1
<1>2. undefined = "no"
  BY DEF Next
<1>3. CASE Serve
  <2>1. UNCHANGED <<pc, state, context, count, callback, tls, held, open, shared, undefined>>
    BY <1>3 DEF Serve, config
  <2> QED BY <1>2, <2>1, SameSessions
<1>4. ASSUME NEW c \in Clients, Step(c) PROVE SessionInv'
  <2>1. CASE Begin(c)
    BY <1>2, <2>1, BeginSessions
  <2>2. CASE DnsFails(c) \/ HandshakeFails(c)
    <3>1. GiveUp(c) /\ pc[c] # "out"
      BY <2>2 DEF DnsFails, HandshakeFails
    <3> QED BY <1>2, <3>1, CloseSessions DEF GiveUp
  <2>3. CASE TlsInit(c) \/ Connected(c) \/ Refused(c)
    BY <1>2, <2>3, ConnectSessions
  <2>4. CASE CloseCall(c)
    <3>1. pc[c] # "out" /\ Close(c) /\ Goto(c, "out")
          /\ UNCHANGED <<context, callback, shared, undefined>>
      BY <2>4 DEF CloseCall, Calls
    <3> QED BY <1>2, <3>1, CloseSessions
  <2>5. CASE UsesNull(c)
    <3>1. /\ UNCHANGED <<pc, state, context, count, callback, tls, held, open, shared>>
          /\ pc[c] = "session" /\ tls = NoClient
      BY <2>5 DEF UsesNull, config
    <3>2. shared
      BY <3>1, NotClient DEF SessionInv, OwnSession
    <3> QED BY <3>1, <3>2, SameSessions
  <2>6. CASE Dropped(c)
    <3>1. /\ UNCHANGED <<pc, state, context, count, callback, tls, held, shared, undefined>>
          /\ open' \subseteq open
      BY <2>6 DEF Dropped, config
    <3> QED BY <1>2, <3>1, SameSessions
  <2>7. ASSUME NEW t \in Topics,
               \/ Subscribe(c, t) \/ Overruns(c, t) \/ Unsubscribe(c, t)
               \/ Publish(c, t) \/ Answered(c, t) \/ TimedOut(c, t) \/ Waits(c, t)
        PROVE  SessionInv'
    <3>1. /\ UNCHANGED <<pc, state, context, callback, tls, held, open, shared>>
          /\ undefined' # "null" /\ pc[c] # "out"
      BY <1>2, <2>7 DEF Subscribe, Overruns, Unsubscribe, Publish, Answered, TimedOut,
                        Waits, Calls, config
    <3> QED BY <3>1, SameSessions
  <2> QED BY <1>4, <2>1, <2>2, <2>3, <2>4, <2>5, <2>6, <2>7 DEF Step
<1> QED BY <1>3, <1>4 DEF Next

LEMMA SessionsHold == Spec => [](TypeOK /\ SessionInv)
<1>1. Init => TypeOK /\ SessionInv
  BY TypeInit, SessionInit
<1>2. TypeOK /\ SessionInv /\ [Next]_vars => (TypeOK /\ SessionInv)'
  BY TypeStep, SessionStep
<1> QED BY <1>1, <1>2, PTL DEF Spec

(* However two sessions overlap, the last one out leaves the transport     *)
(* ready for the next.                                                     *)
THEOREM TransportIsFreed == Spec => []ClosedIsFree
<1>1. TypeOK /\ SessionInv => ClosedIsFree
  <2> SUFFICES ASSUME TypeOK, SessionInv, \A c \in Clients : pc[c] = "out"
               PROVE  state = "idle" /\ tls = NoClient /\ open = {} /\ count = 0
    BY DEF ClosedIsFree
  <2>1. open = {}
    BY DEF SessionInv, HoldingInv, TypeOK
  <2>2. tls = NoClient
    BY DEF SessionInv, HoldingInv, TypeOK
  <2> QED BY <2>1, <2>2 DEF SessionInv, HoldingInv
<1> QED BY <1>1, SessionsHold, PTL

(* The pointer that every read, write and close follows names a context    *)
(* that holds its memory.                                                  *)
THEOREM PointerNeverDangles == Spec => []PointerIsHeld
<1>1. SessionInv => PointerIsHeld
  BY DEF SessionInv, HoldingInv
<1> QED BY <1>1, SessionsHold, PTL

(* A task alone in the transport keeps its socket, context and callback.   *)
THEOREM SessionsAreOwn == Spec => []OwnSession
<1>1. SessionInv => OwnSession
  BY DEF SessionInv
<1> QED BY <1>1, SessionsHold, PTL

(* Its session ends with its context freed.                                *)
THEOREM SessionsFree == Spec => FreesItsContext
<1>1. TypeOK /\ SessionInv /\ [Next]_vars
      => [\A c \in Clients :
            ~ shared /\ pc[c] = "session" /\ pc'[c] = "out" => c \notin held']_vars
  <2> SUFFICES ASSUME TypeOK, SessionInv, Next, NEW c \in Clients,
                      ~ shared, pc[c] = "session", pc'[c] = "out"
               PROVE  c \notin held'
    OBVIOUS
  <2>1. tls = c
    BY DEF SessionInv, OwnSession
  <2>2. \A d \in Clients : d # c => pc[d] = "out"
    BY OtherClient DEF SessionInv, AloneInv
  <2>3. CASE Serve
    BY <2>3 DEF Serve, config
  <2>4. ASSUME NEW d \in Clients, Step(d) PROVE c \notin held'
    <3>1. CASE d # c
      <4>1. pc[d] = "out"
        BY <2>2, <3>1
      <4>2. Begin(d) \/ Dropped(d)
        BY <2>4, <4>1 DEF Step, DnsFails, TlsInit, HandshakeFails, Connected, Refused,
                          CloseCall, UsesNull, Subscribe, Overruns, Unsubscribe,
                          Publish, Answered, TimedOut, Waits, Calls
      <4> QED BY <3>1, <4>2 DEF Begin, Dropped, Goto, TypeOK, config
    <3>2. CASE d = c
      <4>1. CloseCall(c)
        BY <2>4, <3>2 DEF Step, Begin, DnsFails, TlsInit, HandshakeFails, Connected,
                          Refused, UsesNull, Dropped, Subscribe, Overruns, Unsubscribe,
                          Publish, Answered, TimedOut, Waits, config
      <4> QED BY <2>1, <4>1 DEF CloseCall, Close
    <3> QED BY <3>1, <3>2
  <2> QED BY <2>3, <2>4 DEF Next
<1> QED BY <1>1, SessionsHold, PTL DEF Spec, FreesItsContext

-----------------------------------------------------------------------------
(* The subscription table.                                                 *)

(* How far from the end of a task's calls its subscriptions are, so that   *)
(* making the first call takes at most one element away.                   *)
SubsAhead(calls) == {k \in 1..Len(calls) : calls[Len(calls) + 1 - k][1] = "sub"}
Subs(calls) == Cardinality(SubsAhead(calls))

(* A session makes at most four subscriptions, and an unsubscribe that     *)
(* does not find its topic leaves the count where it is: all four may      *)
(* count at once.                                                          *)
RoomInv ==
  ~ shared => \A c \in Clients :
    /\ pc[c] \in {"dns", "tls"} => count = 0
    /\ pc[c] = "session" => count + Subs(todo[c]) <= 4

LEMMA SubsType ==
  ASSUME NEW calls \in Seq(Call)
  PROVE  IsFiniteSet(SubsAhead(calls)) /\ Subs(calls) \in Nat
<1>1. IsFiniteSet(1..Len(calls))
  BY FS_Interval
<1>2. IsFiniteSet(SubsAhead(calls))
  BY <1>1, FS_Subset DEF SubsAhead
<1> QED BY <1>2, FS_CardinalityType DEF Subs

(* Making a call.                                                          *)
LEMMA SubsTail ==
  ASSUME NEW calls \in Seq(Call), calls # <<>>
  PROVE  Subs(Tail(calls)) = IF Head(calls)[1] = "sub" THEN Subs(calls) - 1
                                                       ELSE Subs(calls)
<1> DEFINE n == Len(calls)
           rest == Tail(calls)
<1>1. /\ n \in Nat \ {0} /\ Len(rest) = n - 1 /\ Head(calls) = calls[1]
      /\ \A i \in 1..(n - 1) : rest[i] = calls[i + 1]
  OBVIOUS
<1>2. \A k \in 1..(n - 1) : rest[Len(rest) + 1 - k] = calls[n + 1 - k]
  <2> TAKE k \in 1..(n - 1)
  <2>1. n - k \in 1..(n - 1) /\ Len(rest) + 1 - k = n - k /\ (n - k) + 1 = n + 1 - k
    BY <1>1
  <2> HIDE DEF n, rest
  <2> QED BY <1>1, <2>1
<1>3. SubsAhead(rest) = SubsAhead(calls) \ {n}
  <2>1. \A k : k \in 1..(n - 1) <=> k \in 1..n /\ k # n
    BY <1>1
  <2> HIDE DEF n, rest
  <2> QED BY <1>1, <1>2, <2>1 DEF SubsAhead, n, rest
<1>4. n \in SubsAhead(calls) <=> Head(calls)[1] = "sub"
  <2>1. n \in 1..n /\ n + 1 - n = 1
    BY <1>1
  <2> QED BY <1>1, <2>1 DEF SubsAhead
<1> QED BY <1>3, <1>4, SubsType, FS_RemoveElement DEF Subs

(* The calls a task is given.                                              *)
LEMMA SubsOfCalls ==
  /\ \A c \in Clients : Subs(CallsOf(c)) <= 4
  /\ \A t \in Exchanges : Subs(Exchange(t)) = 0
  /\ \A c \in Clients : \A call : Subs(Cleanup(c, call)) = 0
<1>1. ASSUME NEW calls, SubsAhead(calls) = {} PROVE Subs(calls) = 0
  BY <1>1, FS_EmptySet DEF Subs
<1>2. Subs(MainCalls) <= 4
  <2>1. SubsAhead(MainCalls) = {6, 7, 12, 13}
    <3>1. Len(MainCalls) = 13
      BY DEF MainCalls
    <3>2. \A k \in 1..13 : MainCalls[14 - k][1] = "sub" <=> k \in {6, 7, 12, 13}
      BY DEF MainCalls
    <3> QED BY <3>1, <3>2 DEF SubsAhead
  <2>2. /\ IsFiniteSet({}) /\ Cardinality({}) = 0
        /\ {6, 7, 12, 13} = ((({} \cup {6}) \cup {7}) \cup {12}) \cup {13}
    BY FS_EmptySet
  <2>3. /\ IsFiniteSet({} \cup {6}) /\ Cardinality({} \cup {6}) = 1
    BY <2>2, FS_AddElement
  <2>4. /\ IsFiniteSet(({} \cup {6}) \cup {7}) /\ Cardinality(({} \cup {6}) \cup {7}) = 2
    BY <2>3, FS_AddElement
  <2>5. /\ IsFiniteSet((({} \cup {6}) \cup {7}) \cup {12})
        /\ Cardinality((({} \cup {6}) \cup {7}) \cup {12}) = 3
    BY <2>4, FS_AddElement
  <2>6. Cardinality(((({} \cup {6}) \cup {7}) \cup {12}) \cup {13}) = 4
    BY <2>5, FS_AddElement
  <2> QED BY <2>1, <2>2, <2>6 DEF Subs
<1>3. Subs(JobsCalls) <= 4
  <2>1. JobsCalls \in Seq(Call) /\ Len(JobsCalls) = 2
    BY CallsType DEF CallsOf, Clients, JobsCalls
  <2>2. SubsAhead(JobsCalls) \subseteq 1..2
    BY <2>1 DEF SubsAhead
  <2>3. IsFiniteSet(1..2) /\ Cardinality(1..2) = 2
    <3>1. \A n \in Nat : IsFiniteSet(1..n) /\ Cardinality(1..n) = n
      BY FS_Interval
    <3> QED BY <3>1
  <2>4. Subs(JobsCalls) <= 2
    BY <2>2, <2>3, FS_Subset DEF Subs
  <2> QED BY <2>1, <2>4, SubsType
<1>4. ASSUME NEW t \in Exchanges PROVE Subs(Exchange(t)) = 0
  <2>1. SubsAhead(Exchange(t)) = {}
    BY DEF SubsAhead, Exchange
  <2> QED BY <1>1, <2>1
<1>5. ASSUME NEW c \in Clients, NEW call PROVE Subs(Cleanup(c, call)) = 0
  <2>1. \A t, u : /\ SubsAhead(<< <<"unsub", t>>, <<"unsub", u>>, <<"close", NoTopic>> >>) = {}
                  /\ SubsAhead(<< <<"unsub", t>>, <<"close", NoTopic>> >>) = {}
                  /\ SubsAhead(<< <<"close", NoTopic>> >>) = {}
    BY DEF SubsAhead
  <2>2. CASE c = "jobs"
    BY <1>1, <2>1, <2>2 DEF Cleanup
  <2>3. CASE c # "jobs"
    BY <1>1, <2>1, <2>3 DEF Cleanup
  <2> QED BY <2>2, <2>3
<1> QED BY <1>2, <1>3, <1>4, <1>5 DEF CallsOf

(* A call made by a task that is alone in its session.                     *)
LEMMA CallRoom ==
  ASSUME TypeOK, TypeOK', SessionInv, RoomInv, NEW c \in Clients,
         pc[c] = "session", todo[c] # <<>>, UNCHANGED <<pc, shared>>,
         \/ /\ Advance(c)
            /\ count' <= IF Head(todo[c])[1] = "sub" THEN count + 1 ELSE count
         \/ Abandon(c) /\ count' <= count
  PROVE  RoomInv'
<1> SUFFICES ASSUME ~ shared PROVE RoomInv'
  BY DEF RoomInv
<1>1. /\ todo[c] \in Seq(Call) /\ count \in Nat /\ count' \in Nat
      /\ todo \in [Clients -> Seq(Call)]
  BY TransportAssumption DEF TypeOK
<1>2. count + Subs(todo[c]) <= 4 /\ Subs(todo[c]) \in Nat
  BY <1>1, SubsType DEF RoomInv
<1>3. \A d \in Clients : d # c => pc[d] = "out"
  BY OtherClient DEF SessionInv, AloneInv
<1>4. count' + Subs(todo'[c]) <= 4
  <2>1. CASE Advance(c) /\ count' <= IF Head(todo[c])[1] = "sub" THEN count + 1 ELSE count
    <3>1. todo'[c] = Tail(todo[c])
      BY <1>1, <2>1 DEF Advance
    <3> QED BY <1>1, <1>2, <2>1, <3>1, SubsTail
  <2>2. CASE Abandon(c) /\ count' <= count
    <3>1. todo'[c] = Cleanup(c, Head(todo[c]))
      BY <1>1, <2>2 DEF Abandon
    <3> QED BY <1>1, <1>2, <2>2, <3>1, SubsOfCalls
  <2> QED BY <2>1, <2>2
<1> QED BY <1>3, <1>4 DEF RoomInv

(* The end of a session, and of an attempt to connect.                     *)
LEMMA LeaveRoom ==
  ASSUME TypeOK, SessionInv, NEW c \in Clients, pc[c] # "out", Goto(c, "out"),
         UNCHANGED shared
  PROVE  RoomInv'
<1>1. \A d \in Clients : pc'[d] = IF d = c THEN "out" ELSE pc[d]
  BY DEF Goto, TypeOK
<1>2. ASSUME ~ shared PROVE \A d \in Clients : pc'[d] = "out"
  BY <1>1, <1>2, OtherClient DEF SessionInv, AloneInv
<1> QED BY <1>2 DEF RoomInv

LEMMA SameRoom ==
  ASSUME RoomInv, UNCHANGED <<pc, todo, count, shared>>
  PROVE  RoomInv'
BY DEF RoomInv

LEMMA RoomStep == TypeOK /\ SessionInv /\ RoomInv /\ [Next]_vars => RoomInv'
<1> SUFFICES ASSUME TypeOK, SessionInv, RoomInv, [Next]_vars PROVE RoomInv'
  OBVIOUS
<1>1. TypeOK' /\ count \in Nat
  BY TypeStep, TransportAssumption DEF TypeOK
<1>2. CASE UNCHANGED vars
  BY <1>2, SameRoom DEF vars, config
<1> SUFFICES ASSUME Next PROVE RoomInv'
  BY <1>2
<1>3. CASE Serve
  <2>1. /\ pc["jobs"] = "session" /\ todo["jobs"] = <<>>
        /\ UNCHANGED <<pc, count, shared>>
    BY <1>3 DEF Serve, config
  <2>2. Subs(todo'["jobs"]) = 0 /\ \A d \in Clients : d # "jobs" => todo'[d] = todo[d]
    BY <1>3, SubsOfCalls DEF Serve, TypeOK, Clients
  <2>3. Subs(todo["jobs"]) = 0
    BY <2>1, FS_EmptySet DEF Subs, SubsAhead
  <2> QED BY <1>1, <2>1, <2>2, <2>3 DEF RoomInv
<1>4. ASSUME NEW c \in Clients, Step(c) PROVE RoomInv'
  <2>1. CASE Begin(c)
    <3>1. CASE Clear /\ Goto(c, "dns") /\ shared' = (pc[Other(c)] # "out")
      <4>1. \A d \in Clients : pc'[d] = IF d = c THEN "dns" ELSE pc[d]
        BY <3>1 DEF Goto, TypeOK
      <4>2. ASSUME ~ shared' PROVE \A d \in Clients : d # c => pc[d] = "out"
        BY <3>1, <4>2, OtherClient
      <4> QED BY <3>1, <4>1, <4>2 DEF RoomInv, Clear
    <3>2. CASE UNCHANGED <<pc, config, shared>>
      BY <2>1, <3>2, SameRoom DEF Begin, config
    <3> QED BY <2>1, <3>1, <3>2 DEF Begin
  <2>2. CASE DnsFails(c) \/ HandshakeFails(c) \/ Refused(c) \/ CloseCall(c)
    <3>1. pc[c] # "out" /\ Goto(c, "out") /\ UNCHANGED shared
      BY <2>2 DEF DnsFails, HandshakeFails, GiveUp, Refused, CloseCall, Calls
    <3> QED BY <3>1, LeaveRoom
  <2>3. CASE TlsInit(c)
    <3>1. \A d \in Clients : pc'[d] = IF d = c THEN "tls" ELSE pc[d]
      BY <2>3 DEF TlsInit, Goto, TypeOK
    <3> QED BY <2>3, <3>1 DEF TlsInit, RoomInv, config
  <2>4. CASE Connected(c)
    <3>1. /\ \A d \in Clients : pc'[d] = IF d = c THEN "session" ELSE pc[d]
          /\ \A d \in Clients : todo'[d] = IF d = c THEN CallsOf(c) ELSE todo[d]
      BY <2>4 DEF Connected, Goto, TypeOK
    <3>2. ~ shared => count = 0
      BY <2>4 DEF Connected, RoomInv
    <3>3. Subs(CallsOf(c)) \in Nat
      BY CallsType, SubsType
    <3> QED BY <2>4, <3>1, <3>2, <3>3, SubsOfCalls DEF Connected, RoomInv
  <2>5. CASE UsesNull(c) \/ Dropped(c)
    BY <2>5, SameRoom DEF UsesNull, Dropped, config
  <2>6. ASSUME NEW t \in Topics, Subscribe(c, t) PROVE RoomInv'
    <3>1. /\ pc[c] = "session" /\ todo[c] # <<>> /\ Head(todo[c])[1] = "sub"
          /\ UNCHANGED <<pc, shared>>
      BY <2>6 DEF Subscribe, Calls
    <3>2. (count' = count + 1 /\ Advance(c)) \/ (count' = count /\ Abandon(c))
      BY <2>6 DEF Subscribe
    <3> QED BY <1>1, <3>1, <3>2, CallRoom
  <2>7. ASSUME NEW t \in Topics, Unsubscribe(c, t) PROVE RoomInv'
    <3>1. /\ pc[c] = "session" /\ todo[c] # <<>> /\ Head(todo[c])[1] # "sub"
          /\ UNCHANGED <<pc, shared>> /\ Advance(c)
      BY <2>7 DEF Unsubscribe, Calls
    <3>2. count' <= count
      <4>1. PICK n \in 0..count : count' = count - n
        BY <2>7 DEF Unsubscribe
      <4> QED BY <1>1, <4>1
    <3> QED BY <1>1, <3>1, <3>2, CallRoom
  <2>8. ASSUME NEW t \in Topics, Publish(c, t) \/ Answered(c, t) \/ TimedOut(c, t)
        PROVE  RoomInv'
    <3>1. /\ pc[c] = "session" /\ todo[c] # <<>> /\ Head(todo[c])[1] # "sub"
          /\ UNCHANGED <<pc, shared, count>> /\ (Advance(c) \/ Abandon(c))
      BY <2>8 DEF Publish, Answered, TimedOut, Calls, config
    <3> QED BY <1>1, <3>1, CallRoom
  <2>9. ASSUME NEW t \in Topics, Overruns(c, t) \/ Waits(c, t) PROVE RoomInv'
    BY <2>9, SameRoom DEF Overruns, Waits, config
  <2> QED BY <1>4, <2>1, <2>2, <2>3, <2>4, <2>5, <2>6, <2>7, <2>8, <2>9 DEF Step
<1> QED BY <1>3, <1>4 DEF Next

(* The table has room for a session that is alone, with the five entries   *)
(* of MQTT_SUBSCRIPTION_MAX_NUM or more, although no entry is given back   *)
(* when its topic is not found again.                                      *)
THEOREM TableKeepsRoom ==
  ASSUME TableSize >= 5
  PROVE  Spec => []TableHasRoom
<1>1. Init => TypeOK /\ SessionInv /\ RoomInv
  <2>1. Init => RoomInv
    BY DEF Init, RoomInv
  <2> QED BY <2>1, TypeInit, SessionInit
<1>2. TypeOK /\ SessionInv /\ RoomInv /\ [Next]_vars => (TypeOK /\ SessionInv /\ RoomInv)'
  BY TypeStep, SessionStep, RoomStep
<1>3. TypeOK /\ SessionInv /\ RoomInv => TableHasRoom
  <2> SUFFICES ASSUME TypeOK, SessionInv, RoomInv, ~ shared PROVE count < TableSize
    BY DEF TableHasRoom
  <2>1. count \in Nat /\ TableSize \in Nat
    BY TransportAssumption DEF TypeOK
  <2>2. CASE \A c \in Clients : pc[c] = "out"
    BY <2>1, <2>2 DEF SessionInv, HoldingInv
  <2>3. ASSUME NEW c \in Clients, pc[c] # "out" PROVE count < TableSize
    <3>1. pc[c] \in {"dns", "tls", "session"} /\ todo[c] \in Seq(Call)
      BY <2>3 DEF TypeOK
    <3>2. Subs(todo[c]) \in Nat
      BY <3>1, SubsType
    <3> QED BY <2>1, <3>1, <3>2 DEF RoomInv
  <2> QED BY <2>2, <2>3
<1> QED BY <1>1, <1>2, <1>3, PTL DEF Spec

-----------------------------------------------------------------------------
(* The transport does what SharedTransport says.                           *)

Phases == [c \in Clients |-> Phase(c)]

LEMMA PhaseMoves ==
  ASSUME TypeOK, NEW c \in Clients, NEW to, Goto(c, to)
  PROVE  Phases' = [Phases EXCEPT ![c] = Phase(c)']
<1>1. \A d \in Clients : d # c => pc'[d] = pc[d]
  BY DEF Goto, TypeOK
<1>2. \A d \in Clients : d # c => Phase(d)' = Phase(d)
  BY <1>1 DEF Phase
<1> QED BY <1>2 DEF Phases

LEMMA PhasesStay == ASSUME pc' = pc PROVE Phases' = Phases
BY DEF Phases, Phase

(* The steps that end in a session, or end one.                            *)
LEMMA MoveRefines ==
  ASSUME TypeOK, NEW c \in Clients,
         DnsFails(c) \/ HandshakeFails(c) \/ Refused(c) \/ CloseCall(c) \/ Connected(c)
  PROVE  [ST!Next]_(ST!vars)
<1>1. CASE Connected(c)
  <2>1. /\ pc[c] = "tls" /\ pc' = [pc EXCEPT ![c] = "session"]
        /\ state' = "running" /\ shared' = shared
    BY <1>1 DEF Connected, Goto
  <2>2. Phase(c) = "connecting" /\ Phase(c)' = "connected"
    BY <2>1 DEF Phase, TypeOK
  <2>3. Phases' = [Phases EXCEPT ![c] = "connected"] /\ Phases[c] = "connecting"
    BY <2>1, <2>2, PhaseMoves DEF Goto, Phases
  <2>4. ST!Establish(c)
    BY <2>1, <2>3 DEF ST!Establish, Phases
  <2> QED BY <2>4 DEF ST!Next, ST!Tasks, Clients
<1>2. CASE DnsFails(c) \/ HandshakeFails(c) \/ Refused(c) \/ CloseCall(c)
  <2>1. /\ pc[c] # "out" /\ pc' = [pc EXCEPT ![c] = "out"]
        /\ state' = "idle" /\ shared' = shared
    BY <1>2 DEF DnsFails, HandshakeFails, GiveUp, Refused, CloseCall, Close, Calls, Goto
  <2>2. Phase(c) # "out" /\ Phase(c)' = "out"
    BY <2>1 DEF Phase, TypeOK
  <2>3. Phases' = [Phases EXCEPT ![c] = "out"] /\ Phases[c] # "out"
    BY <2>1, <2>2, PhaseMoves DEF Goto, Phases
  <2>4. ST!Leave(c)
    BY <2>1, <2>3 DEF ST!Leave, ST!Inside, Phases
  <2> QED BY <2>4 DEF ST!Next, ST!Tasks, Clients
<1> QED BY <1>1, <1>2

LEMMA BeginRefines ==
  ASSUME TypeOK, NEW c \in Clients, Begin(c)
  PROVE  [ST!Next]_(ST!vars)
<1>1. CASE UNCHANGED <<pc, config, shared>>
  BY <1>1, PhasesStay DEF ST!vars, Phases, config
<1>2. CASE state = "idle" /\ Clear /\ Goto(c, "dns") /\ shared' = (pc[Other(c)] # "out")
  <2>1. /\ pc[c] = "out" /\ pc' = [pc EXCEPT ![c] = "dns"]
        /\ state' = state /\ (c = "jobs" => pc["main"] = "out")
    BY <1>2 DEF Begin, Clear, Goto
  <2>2. Phase(c) = "out" /\ Phase(c)' = "connecting"
    BY <2>1 DEF Phase, TypeOK
  <2>3. Phases' = [Phases EXCEPT ![c] = "connecting"] /\ Phases[c] = "out"
    BY <2>1, <2>2, PhaseMoves DEF Goto, Phases
  <2>4. \A d \in Clients : Phases[d] # "out" <=> pc[d] # "out"
    BY DEF Phases, Phase
  <2>5. (\E d \in Clients : d # c /\ Phases[d] # "out") = (pc[Other(c)] # "out")
    BY <2>4, OtherClient, FactIsBoolean
  <2>6. ST!Claim(c)
    <3>1. c = "jobs" => ~ (Phases["main"] # "out")
      BY <2>1, <2>4 DEF Clients
    <3>2. shared' = \E d \in Clients : d # c /\ Phases[d] # "out"
      BY <1>2, <2>5
    <3> QED BY <1>2, <2>1, <2>3, <3>1, <3>2
            DEF ST!Claim, ST!Inside, ST!Tasks, Phases, Clients
  <2> QED BY <2>6 DEF ST!Next, ST!Tasks, Clients
<1> QED BY <1>1, <1>2 DEF Begin

(* A session, with every failure and whatever it does to another, is a     *)
(* claim of the idle transport, at most one connection, and a leave: the   *)
(* picture of it that AppTasks draws.                                      *)
THEOREM TransportRefinesShared == Spec => TransportIsServed
<1>1. Init => ST!Init
  BY DEF Init, ST!Init, ST!Tasks, Phase, Clients
<1>2. TypeOK /\ [Next]_vars => [ST!Next]_(ST!vars)
  <2> SUFFICES ASSUME TypeOK, [Next]_vars PROVE [ST!Next]_(ST!vars)
    OBVIOUS
  <2>1. ASSUME UNCHANGED <<pc, state, shared>> PROVE [ST!Next]_(ST!vars)
    BY <2>1, PhasesStay DEF ST!vars, Phases
  <2>2. CASE UNCHANGED vars \/ Serve
    BY <2>1, <2>2 DEF vars, config, Serve
  <2>3. ASSUME NEW c \in Clients, TlsInit(c) PROVE [ST!Next]_(ST!vars)
    <3>1. /\ pc[c] = "dns" /\ pc' = [pc EXCEPT ![c] = "tls"]
          /\ state' = state /\ shared' = shared
      BY <2>3 DEF TlsInit, Goto, config
    <3>2. \A d \in Clients : Phase(d)' = Phase(d)
      BY <3>1 DEF Phase, TypeOK
    <3> QED BY <3>1, <3>2 DEF ST!vars
  <2>4. ASSUME NEW c \in Clients,
               \/ UsesNull(c) \/ Dropped(c)
               \/ \E t \in Topics :
                    \/ Subscribe(c, t) \/ Overruns(c, t) \/ Unsubscribe(c, t)
                    \/ Publish(c, t) \/ Answered(c, t) \/ TimedOut(c, t) \/ Waits(c, t)
        PROVE  [ST!Next]_(ST!vars)
    <3>1. UNCHANGED <<pc, state, shared>>
      BY <2>4 DEF UsesNull, Dropped, Subscribe, Overruns, Unsubscribe, Publish,
                  Answered, TimedOut, Waits, config
    <3> QED BY <2>1, <3>1
  <2> QED BY <2>2, <2>3, <2>4, BeginRefines, MoveRefines DEF Next, Step
<1> QED BY <1>1, <1>2, TransportTypes, PTL DEF Spec, TransportIsServed, ST!Spec
=============================================================================
