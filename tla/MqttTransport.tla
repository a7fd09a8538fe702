--------------------------- MODULE MqttTransport ---------------------------
(***************************************************************************)
(* The MQTT transport, port/network_interface/mqtt_interface.c over        *)
(* tls_socket_interface.c, and the two tasks that use it: the main task    *)
(* (fleet_provisioning_handle, socket 0) and the jobs task                 *)
(* (iot_jobs_connect_procedure and what follows, socket 1).                *)
(*                                                                         *)
(* There is one g_mqtt_config, one TLS pointer and one event callback for  *)
(* both.  The tasks have one priority and no time slices: a task gives the *)
(* processor away only where it blocks, that is while it resolves a name,  *)
(* shakes hands or waits for an answer.  mqtt_transport_init refuses a     *)
(* transport that is running, but a connect only sets it running at its    *)
(* end, so two connects can overlap.                                       *)
(***************************************************************************)
EXTENDS Integers, Sequences, FiniteSets

CONSTANTS
  TableSize,  \* MQTT_SUBSCRIPTION_MAX_NUM
  MaxFaults   \* bound on failed operations and answers that do not come

ASSUME TransportAssumption == TableSize \in Nat \ {0} /\ MaxFaults \in Nat

Clients  == {"main", "jobs"}
NoClient == "none"
Other(c) == IF c = "main" THEN "jobs" ELSE "main"

VARIABLES
  cpu,      \* the task that has not blocked since its last step
  pc,       \* per task: out of the transport, or where in a session
  todo,     \* per task: the calls it makes next in its session
  state,    \* g_mqtt_config.mqtt_state
  context,  \* mqtt_context: the socket and the callback given to MQTT_Init
  table,    \* mqtt_subscribe_info
  count,    \* subscribe_count
  callback, \* g_mqtt_event_callback
  tls,      \* g_mqtt_tls_context_ptr
  held,     \* the TLS contexts that hold memory
  open,     \* the sockets that are connected
  shared,   \* history: two tasks have been in the transport at once
  undefined, \* what undefined behaviour was met, if any
  faults

config == <<state, context, table, count>>
vars == <<cpu, pc, todo, config, callback, tls, held, open, shared, undefined, faults>>

-----------------------------------------------------------------------------
(* The calls of a session.                                                 *)

\* The topic strings of the jobs task are local to the function that
\* subscribes: the table points into its stack when that function is left.
DanglingTopics == {"getAccepted", "startAccepted"}
Topics == DanglingTopics \cup
  {"createAccepted", "createRejected", "registerAccepted", "registerRejected",
   "updateAccepted"}
NoTopic == "none"

Call == {"sub", "unsub", "publish", "wait", "close"} \X (Topics \cup {NoTopic})

\* What each task still does when one of its calls has failed.
Cleanup(c, call) ==
  IF c = "jobs"
    THEN << <<"unsub", "getAccepted">>, <<"unsub", "startAccepted">>, <<"close", NoTopic>> >>
    ELSE CASE call \in {<<"sub", "createAccepted">>, <<"sub", "registerAccepted">>} ->
                << <<"close", NoTopic>> >>
           [] call = <<"sub", "createRejected">> ->
                << <<"unsub", "createAccepted">>, <<"close", NoTopic>> >>
           [] call = <<"wait", "createAccepted">> ->
                << <<"unsub", "createAccepted">>, <<"unsub", "createRejected">>,
                   <<"close", NoTopic>> >>
           [] call = <<"sub", "registerRejected">> ->
                << <<"unsub", "registerAccepted">>, <<"close", NoTopic>> >>
           [] OTHER ->
                << <<"unsub", "registerAccepted">>, <<"unsub", "registerRejected">>,
                   <<"close", NoTopic>> >>

\* processCreateCertAndKey and processRegisterThing, when all goes well.
MainCalls ==
  << <<"sub", "createAccepted">>, <<"sub", "createRejected">>,
     <<"publish", "createAccepted">>, <<"wait", "createAccepted">>,
     <<"unsub", "createAccepted">>, <<"unsub", "createRejected">>,
     <<"sub", "registerAccepted">>, <<"sub", "registerRejected">>,
     <<"publish", "registerAccepted">>, <<"wait", "registerAccepted">>,
     <<"unsub", "registerAccepted">>, <<"unsub", "registerRejected">>,
     <<"close", NoTopic>> >>

\* iot_jobs_connect_procedure; the exchanges follow one at a time.
JobsCalls == << <<"sub", "getAccepted">>, <<"sub", "startAccepted">> >>

Exchanges == {"getAccepted", "startAccepted", "updateAccepted"}
Exchange(t) == << <<"publish", t>>, <<"wait", t>> >>

CallsOf(c) == IF c = "main" THEN MainCalls ELSE JobsCalls

NoContext == [sock |-> NoClient, callback |-> NoClient]
OwnContext(c) == [sock |-> c, callback |-> c]

TypeOK ==
  /\ cpu \in Clients \cup {NoClient}
  /\ pc \in [Clients -> {"out", "dns", "tls", "session"}]
  /\ todo \in [Clients -> Seq(Call)]
  /\ state \in {"idle", "running"}
  /\ context \in [sock : Clients \cup {NoClient}, callback : Clients \cup {NoClient}]
  /\ table \in [0..(TableSize - 1) -> Topics \cup {NoTopic}]
  /\ count \in 0..TableSize
  /\ callback \in Clients \cup {NoClient}
  /\ tls \in Clients \cup {NoClient}
  /\ held \subseteq Clients /\ open \subseteq Clients
  /\ shared \in BOOLEAN /\ undefined \in {"no", "null", "overrun"}
  /\ faults \in 0..MaxFaults

-----------------------------------------------------------------------------
(* Starting and ending a session.                                          *)

Fault == faults < MaxFaults /\ faults' = faults + 1

Runs(c) == cpu \in {c, NoClient}
Goto(c, where) == pc' = [pc EXCEPT ![c] = where]

\* Mutant: the state is not set back.
CloseMutant(c) ==
  /\ held' = held \ {tls}
  /\ tls' = NoClient
  /\ count' = 0
  /\ open' = open \ {c}
  /\ UNCHANGED state

\* Mutant: the pointer keeps naming the context that was freed.
CloseKeepsMutant(c) ==
  /\ held' = held \ {tls}
  /\ count' = 0
  /\ open' = open \ {c}
  /\ state' = "idle"
  /\ UNCHANGED tls

\* Mutant: the pointer is reset without freeing what it names.
CloseLeaksMutant(c) ==
  /\ tls' = NoClient
  /\ count' = 0
  /\ open' = open \ {c}
  /\ state' = "idle"
  /\ UNCHANGED held

\* mqtt_transport_close frees the context the pointer names, whoever's it is.
Close(c) ==
  /\ held' = held \ {tls}
  /\ tls' = NoClient
  /\ count' = 0
  /\ open' = open \ {c}
  /\ state' = "idle"

\* set_mqtt_event_callback, also when the transport is refused afterwards.
SetCallback(c) == callback' = c

\* mqtt_transport_init on an idle transport clears the configuration.
Clear ==
  /\ context' = NoContext
  /\ table' = [i \in 0..(TableSize - 1) |-> NoTopic]
  /\ count' = 0
  /\ state' = "idle"

\* The transport is asked for.  The jobs task only asks while the main task is
\* out, and is never refused: RunInv and TransportIsFree of AppTasks.
Begin(c) ==
  /\ Runs(c) /\ pc[c] = "out"
  /\ c = "jobs" => pc["main"] = "out" /\ state = "idle"
  /\ SetCallback(c)
  /\ cpu' = NoClient
  /\ \/ /\ state = "idle"
        /\ Clear
        /\ Goto(c, "dns")
        /\ shared' = (pc[Other(c)] # "out")
     \/ /\ state # "idle"
        /\ UNCHANGED <<pc, config, shared>>
  /\ UNCHANGED <<todo, tls, held, open, undefined, faults>>

\* The attempt to connect ends here; every caller closes once more.
GiveUp(c) ==
  /\ Close(c)
  /\ Goto(c, "out")
  /\ cpu' = NoClient
  /\ UNCHANGED <<todo, context, table, callback, shared, undefined>>

DnsFails(c) ==
  /\ Runs(c) /\ pc[c] = "dns"
  /\ Fault
  /\ GiveUp(c)

\* tls_socket_init fills the task's context, and the socket connects: from here
\* on the context holds memory, and only the close that finds it in the pointer
\* frees it.  A tls_socket_init that fails is one more HandshakeFails.
TlsInit(c) ==
  /\ Runs(c) /\ pc[c] = "dns"
  /\ held' = held \cup {c}
  /\ open' = open \cup {c}
  /\ Goto(c, "tls")
  /\ cpu' = NoClient
  /\ UNCHANGED <<todo, config, callback, tls, shared, undefined, faults>>

\* The pointer does not name the context yet: the close leaves it held.
HandshakeFails(c) ==
  /\ Runs(c) /\ pc[c] = "tls"
  /\ Fault
  /\ GiveUp(c)

\* Mutant: the context is not published in the pointer.
ConnectedMutant(c) ==
  /\ Runs(c) /\ pc[c] = "tls"
  /\ context' = [sock |-> c, callback |-> callback]
  /\ state' = "running"
  /\ todo' = [todo EXCEPT ![c] = CallsOf(c)]
  /\ Goto(c, "session")
  /\ cpu' = c
  /\ UNCHANGED <<table, count, callback, tls, held, open, shared, undefined, faults>>

\* The handshake and MQTT_Connect succeed without blocking in between.
Connected(c) ==
  /\ Runs(c) /\ pc[c] = "tls"
  /\ tls' = c
  /\ context' = [sock |-> c, callback |-> callback]
  /\ state' = "running"
  /\ todo' = [todo EXCEPT ![c] = CallsOf(c)]
  /\ Goto(c, "session")
  /\ cpu' = c
  /\ UNCHANGED <<table, count, callback, held, open, shared, undefined, faults>>

\* The broker refuses MQTT_Connect or does not answer: the pointer names this
\* task's context by now, and the close frees it.
Refused(c) ==
  /\ Runs(c) /\ pc[c] = "tls"
  /\ Fault
  /\ context' = [sock |-> c, callback |-> callback]
  /\ held' = held \ {c}
  /\ tls' = NoClient
  /\ count' = 0
  /\ open' = open \ {c}
  /\ state' = "idle"
  /\ Goto(c, "out")
  /\ cpu' = NoClient
  /\ UNCHANGED <<todo, table, callback, shared, undefined>>

-----------------------------------------------------------------------------
(* The calls of a session.  A transport that is not the caller's own may   *)
(* answer or fail as it likes.                                             *)

Own(c) == context = OwnContext(c) /\ tls = c /\ c \in open

\* mqtts_write and mqtts_read want the socket of the context connected.
Works == context.sock \in open /\ tls # NoClient

Fails(c) == Fault \/ (~ Own(c) /\ UNCHANGED faults)

Calls(c, op, t) ==
  Runs(c) /\ pc[c] = "session" /\ todo[c] # <<>> /\ Head(todo[c]) = <<op, t>>

Advance(c) == todo' = [todo EXCEPT ![c] = Tail(@)]
Abandon(c) == todo' = [todo EXCEPT ![c] = Cleanup(c, Head(@))]

\* Mutant: the count goes up for the entry and again for the answer.
SubscribeMutant(c, t) ==
  /\ Calls(c, "sub", t)
  /\ cpu' = c
  /\ count < TableSize - 1
  /\ table' = [table EXCEPT ![count] = t, ![count + 1] = t]
  /\ \/ Works /\ count' = count + 2 /\ Advance(c) /\ UNCHANGED faults
     \/ Fails(c) /\ UNCHANGED count /\ Abandon(c)
  /\ UNCHANGED <<pc, state, context, callback, tls, held, open, shared, undefined>>

\* The entry at subscribe_count is written before the broker is asked.
Subscribe(c, t) ==
  /\ Calls(c, "sub", t)
  /\ cpu' = c
  /\ count < TableSize
  /\ table' = [table EXCEPT ![count] = t]
  /\ \/ Works /\ count' = count + 1 /\ Advance(c) /\ UNCHANGED faults
     \/ Fails(c) /\ UNCHANGED count /\ Abandon(c)
  /\ UNCHANGED <<pc, state, context, callback, tls, held, open, shared, undefined>>

\* The count is compared with >: a full table is written past its end, and a
\* count that the test would refuse is never reached.
Overruns(c, t) ==
  /\ Calls(c, "sub", t)
  /\ count = TableSize
  /\ undefined' = "overrun"
  /\ UNCHANGED <<cpu, pc, todo, config, callback, tls, held, open, shared, faults>>

\* The entries the loop of mqtt_transport_unsubscribe visits and finds equal:
\* it stops at a count that went down with every one it found.  A pointer that
\* dangles may or may not show the topic.
Found(t, dangling) ==
  LET equal == {i \in 0..(count - 1) : table[i] = t /\ t \notin DanglingTopics}
                 \cup dangling
  IN {i \in equal : i + Cardinality({j \in equal : j < i}) < count}

\* Mutant: the count goes down whether a topic was found or not.
UnsubscribeMutant(c, t) ==
  /\ Calls(c, "unsub", t)
  /\ cpu' = c
  /\ count' = count - 1
  /\ Advance(c)
  /\ UNCHANGED <<pc, state, context, table, callback, tls, held, open, shared,
                 undefined, faults>>

\* No entry moves up: the count alone goes down.
Unsubscribe(c, t) ==
  /\ Calls(c, "unsub", t)
  /\ cpu' = c
  /\ \E dangling \in SUBSET {i \in 0..(count - 1) : table[i] \in DanglingTopics},
        n \in 0..count :
       /\ count' = count - n
       /\ \/ /\ n = Cardinality(Found(t, dangling))
             /\ n > 0 => Works
             /\ UNCHANGED faults
          \/ n < Cardinality(Found(t, dangling)) /\ Fails(c)
  /\ Advance(c)
  /\ UNCHANGED <<pc, state, context, table, callback, tls, held, open, shared, undefined>>

\* The main task goes on to wait for the answer to what it could not send.
Publish(c, t) ==
  /\ Calls(c, "publish", t)
  /\ cpu' = c
  /\ \/ Works /\ Advance(c) /\ UNCHANGED faults
     \/ Fails(c) /\ (IF c = "main" THEN Advance(c) ELSE Abandon(c))
  /\ UNCHANGED <<pc, config, callback, tls, held, open, shared, undefined>>

\* The answer comes to the callback the context was made with.
Answered(c, t) ==
  /\ Calls(c, "wait", t)
  /\ Own(c)
  /\ cpu' \in {c, NoClient}
  /\ Advance(c)
  /\ UNCHANGED <<pc, config, callback, tls, held, open, shared, undefined, faults>>

\* The failure of an update is ignored when the job has succeeded.
TimedOut(c, t) ==
  /\ Calls(c, "wait", t)
  /\ Fails(c)
  /\ cpu' = NoClient
  /\ Abandon(c) \/ (t = "updateAccepted" /\ Advance(c))
  /\ UNCHANGED <<pc, config, callback, tls, held, open, shared, undefined>>

\* A wait that is not over lets the other task run.
Waits(c, t) ==
  /\ Calls(c, "wait", t)
  /\ cpu = c
  /\ cpu' = NoClient
  /\ UNCHANGED <<pc, todo, config, callback, tls, held, open, shared, undefined, faults>>

CloseCall(c) ==
  /\ Calls(c, "close", NoTopic)
  /\ Close(c)
  /\ Advance(c)
  /\ Goto(c, "out")
  /\ cpu' = NoClient
  /\ UNCHANGED <<context, table, callback, shared, undefined, faults>>

\* An unsubscribe sends for an entry it takes for its topic, the others always.
Sends(call) ==
  \/ call[1] \in {"sub", "publish", "wait"}
  \/ call[1] = "unsub" /\ \E i \in 0..(count - 1) : table[i] \in DanglingTopics \cup {call[2]}

\* A call that reaches the TLS layer when the pointer is NULL.
UsesNull(c) ==
  /\ Runs(c) /\ pc[c] = "session" /\ todo[c] # <<>>
  /\ Sends(Head(todo[c]))
  /\ context.sock \in open /\ tls = NoClient
  /\ undefined' = "null"
  /\ UNCHANGED <<cpu, pc, todo, config, callback, tls, held, open, shared, faults>>

\* The jobs task between two calls: a get, a start-next or an update, or the
\* end of the session.
Serve ==
  /\ Runs("jobs") /\ pc["jobs"] = "session" /\ todo["jobs"] = <<>>
  /\ cpu' = "jobs"
  /\ \/ \E t \in Exchanges : todo' = [todo EXCEPT !["jobs"] = Exchange(t)]
     \/ todo' = [todo EXCEPT !["jobs"] = Cleanup("jobs", <<"wait", NoTopic>>)]
  /\ UNCHANGED <<pc, config, callback, tls, held, open, shared, undefined, faults>>

\* The broker or the network ends a connection.
Dropped(c) ==
  /\ c \in open
  /\ Fault
  /\ open' = open \ {c}
  /\ UNCHANGED <<cpu, pc, todo, config, callback, tls, held, shared, undefined>>

-----------------------------------------------------------------------------
Init ==
  /\ cpu = NoClient
  /\ pc = [c \in Clients |-> "out"]
  /\ todo = [c \in Clients |-> <<>>]
  /\ state = "idle" /\ context = NoContext
  /\ table = [i \in 0..(TableSize - 1) |-> NoTopic]
  /\ count = 0
  /\ callback = NoClient /\ tls = NoClient
  /\ held = {} /\ open = {}
  /\ shared = FALSE /\ undefined = "no"
  /\ faults = 0

Step(c) ==
  \/ Begin(c) \/ DnsFails(c) \/ TlsInit(c) \/ HandshakeFails(c) \/ Connected(c)
  \/ Refused(c) \/ CloseCall(c) \/ UsesNull(c) \/ Dropped(c)
  \/ \E t \in Topics :
       \/ Subscribe(c, t) \/ Overruns(c, t) \/ Unsubscribe(c, t)
       \/ Publish(c, t) \/ Answered(c, t) \/ TimedOut(c, t) \/ Waits(c, t)

\* Of what follows undefined behaviour nothing is modelled.
Next == undefined = "no" /\ (Serve \/ \E c \in Clients : Step(c))

Spec == Init /\ [][Next]_vars

-----------------------------------------------------------------------------
(* Properties.                                                             *)

\* When both tasks have left, the transport can be used again, whatever they
\* did to each other: it is idle, no socket is connected, no subscription is
\* left and the pointer names no context.
ClosedIsFree ==
  (\A c \in Clients : pc[c] = "out") =>
    state = "idle" /\ tls = NoClient /\ open = {} /\ count = 0

\* The TLS pointer never names a context that has been freed.
PointerIsHeld == tls # NoClient => tls \in held

\* A task that had the transport to itself since it asked for it works on its
\* own socket, TLS context and callback to the end of the session: nothing an
\* earlier session left behind reaches into it.
OwnSession ==
  ~ shared =>
    /\ undefined # "null"
    /\ \A c \in Clients :
         pc[c] = "session" => context = OwnContext(c) /\ tls = c /\ state = "running"

\* The session of such a task frees its TLS context when it ends.
FreesItsContext ==
  [][\A c \in Clients :
       ~ shared /\ pc[c] = "session" /\ pc'[c] = "out" => c \notin held']_vars

\* Nor does it fill the subscription table, although unsubscribing leaves topics
\* behind and some are never found: the comparison with > never decides.
TableHasRoom == ~ shared => count < TableSize

\* The detail keeps what AppTasks relies on when it takes a connect, a session and
\* its end for one step each: a session, whatever becomes of it, is a claim of the
\* idle transport, at most one connection, and a leave.
Phase(c) ==
  CASE pc[c] = "out" -> "out"
    [] pc[c] = "session" -> "connected"
    [] OTHER -> "connecting"

ST == INSTANCE SharedTransport
  WITH Main <- "main", Jobs <- "jobs", phase <- [c \in Clients |-> Phase(c)]

TransportIsServed == ST!Spec
=============================================================================
