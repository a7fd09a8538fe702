-------------------------- MODULE FleetProvisioning --------------------------
(***************************************************************************)
(* Fleet provisioning: app/aws_iot/fleet_provisioning_handler.c (the event *)
(* callback, the two exchanges and fleet_provisioning_handle), the saving  *)
(* of the certificate in flash and the retries of main_app_task, with the  *)
(* service at the other end of one MQTT connection.  The service may be    *)
(* slow, or carry a request out twice; messages are lost, the connection   *)
(* breaks, and the power may be cut, also in the middle of a save.         *)
(*                                                                         *)
(* A certificate is a number, the one of its PEM for a record that holds   *)
(* parts of two; its ownership token has the same number.  The device is   *)
(* alone on the transport: see module AppTasks.                            *)
(***************************************************************************)
EXTENDS Naturals, Sequences

CONSTANTS
  MaxCerts,   \* certificates the account may create
  MaxSlow,    \* bound on the answers that miss their five second wait
  MaxLost,    \* bound on lost messages, broken connections, power cuts, renewals
  MaxStray    \* bound on answers given twice, for a later connection, or unread

ASSUME ProvisioningAssumption ==
  /\ MaxCerts \in Nat \ {0}
  /\ MaxSlow \in Nat /\ MaxLost \in Nat /\ MaxStray \in Nat

NoCert == 0   \* an erased, or partly programmed, record
Certs  == 1..MaxCerts
Topic  == {"create", "register"}
Message == [topic : Topic, cert : Certs \cup {NoCert}]
Msg(t, c) == [topic |-> t, cert |-> c]
WithToken == {m \in Message : m.topic = "register" => m.cert # NoCert}

VARIABLES
  made,        \* the service: certificates created
  registered,  \* the service: certificates whose thing is registered
  req,         \* requests on their way to the service
  rep,         \* accepted answers on their way to the device
  link,        \* the transport: closed, connected, or connected to nobody
  pc,          \* where main_app_task stands
  info,        \* awsFpDeviceCertInfo
  token,       \* g_temp_ownership_token
  flags,       \* the g_recved_mqtt_..._accept_msg that are true
  cert,        \* the provisioned certificate in flash
  slow, lost, stray

service == <<made, registered>>
channel == <<req, rep, link>>
record == <<info, token>>
device == <<pc, record, flags, cert>>
faults == <<slow, lost, stray>>
vars == <<service, channel, device, faults>>

\* The types; a certificate that is held or under way was made, and a request to
\* register carries a token, unless an answer could not be read.
TypeOK ==
  /\ made \in 0..MaxCerts /\ registered \subseteq 1..made
  /\ req \in Seq(Message) /\ rep \in Seq(Message)
  /\ link \in {"idle", "up", "broken"}
  /\ pc \in {"down", "waitCreate", "waitRegister", "save", "done"}
  /\ info \in 0..made /\ token \in 0..made /\ cert \in 0..made
  /\ flags \subseteq Topic
  /\ stray = 0 => req \in Seq(WithToken)
  /\ slow \in 0..MaxSlow /\ lost \in 0..MaxLost /\ stray \in 0..MaxStray

-----------------------------------------------------------------------------
(* The service.                                                            *)

\* The accepted topics the device is subscribed to on this connection.
Hears(t) ==
  /\ link = "up"
  /\ \/ t = "create" /\ pc = "waitCreate"
     \/ t = "register" /\ pc \in {"waitRegister", "save"}

Answer(t, c) == rep' = IF Hears(t) THEN Append(rep, Msg(t, c)) ELSE rep

CreateCert ==
  /\ Head(req).topic = "create"
  /\ made < MaxCerts
  /\ made' = made + 1
  /\ Answer("create", made + 1)
  /\ UNCHANGED registered

\* Without a token the request is rejected.
Provision ==
  /\ Head(req).topic = "register"
  /\ \/ /\ Head(req).cert # NoCert
        /\ registered' = registered \cup {Head(req).cert}
        /\ Answer("register", Head(req).cert)
     \/ /\ Head(req).cert = NoCert
        /\ UNCHANGED <<registered, rep>>
  /\ UNCHANGED made

Serve ==
  /\ req # <<>>
  /\ CreateCert \/ Provision
  /\ req' = Tail(req)
  /\ UNCHANGED <<link, device, faults>>

\* At least once: a request to create is carried out, and comes again.
ServeAgain ==
  /\ stray < MaxStray
  /\ req # <<>>
  /\ CreateCert
  /\ stray' = stray + 1
  /\ UNCHANGED <<req, link, device, slow, lost>>

-----------------------------------------------------------------------------
(* Faults.                                                                 *)

LoseRequest == req # <<>> /\ req' = Tail(req) /\ UNCHANGED <<rep, link>>
LoseAnswer  == rep # <<>> /\ rep' = Tail(rep) /\ UNCHANGED <<req, link>>
BreakLink   == link = "up" /\ link' = "broken" /\ rep' = <<>> /\ req' \in {req, <<>>}

\* A message is lost, a request rejected, or the connection breaks.
Lose ==
  /\ lost < MaxLost
  /\ lost' = lost + 1
  /\ LoseRequest \/ LoseAnswer \/ BreakLink
  /\ UNCHANGED <<service, device, slow, stray>>

\* mqtt_transport_close
Close == link' = "idle" /\ rep' = <<>>

\* At the next boot main_app_task provisions unless it finds a certificate.
PowerCut ==
  /\ lost < MaxLost
  /\ lost' = lost + 1
  /\ Close
  /\ pc' = IF cert = NoCert THEN "down" ELSE "done"
  /\ info' = NoCert /\ token' = NoCert /\ flags' = {}
  /\ UNCHANGED <<service, req, cert, slow, stray>>

-----------------------------------------------------------------------------
(* The device.                                                             *)

\* fleet_provisioning_handle up to the first wait.  mqtt_transport_init is
\* refused unless the transport is idle.  A request of an earlier connection
\* that is still open is answered on this one, whose topics are the same.
Start ==
  /\ pc = "down" /\ link = "idle"
  /\ \/ req = <<>> /\ UNCHANGED stray
     \/ req # <<>> /\ stray < MaxStray /\ stray' = stray + 1
  /\ link' = "up"
  /\ flags' = {}
  /\ req' = Append(req, Msg("create", NoCert))
  /\ pc' = "waitCreate"
  /\ UNCHANGED <<service, rep, record, cert, slow, lost>>

\* parsing_accept_certificate_create_msg takes over id, PEM, key and token one
\* after the other.  An answer that it cannot read to the end leaves the token
\* as it was, and the record where the reading stopped.
Parsed(c) ==
  \/ /\ info' = c /\ token' = c
     /\ UNCHANGED stray
  \/ /\ stray < MaxStray /\ stray' = stray + 1
     /\ info' \in {info, c}
     /\ UNCHANGED token

\* Mutant: the old certificate makes room as soon as a new one is there.
CreatedMutant ==
  /\ pc \in {"waitCreate", "waitRegister"}
  /\ Head(rep).topic = "create"
  /\ Parsed(Head(rep).cert)
  /\ flags' = flags \cup {"create"}
  /\ cert' = NoCert
  /\ UNCHANGED pc

\* fleet_provisioning_event_callback, on an answer to create, whatever the
\* parsing of it returns ...
Created ==
  /\ pc \in {"waitCreate", "waitRegister"}
  /\ Head(rep).topic = "create"
  /\ Parsed(Head(rep).cert)
  /\ flags' = flags \cup {"create"}
  /\ UNCHANGED <<pc, cert>>

\* ... and to register: the record in RAM is saved, the sector erased first.
Registered ==
  /\ pc = "waitRegister"
  /\ Head(rep).topic = "register"
  /\ flags' = flags \cup {"register"}
  /\ cert' = NoCert
  /\ pc' = "save"
  /\ UNCHANGED <<record, stray>>

Deliver ==
  /\ rep # <<>>
  /\ Created \/ Registered
  /\ rep' = Tail(rep)
  /\ UNCHANGED <<service, req, link, slow, lost>>

SaveCert ==
  /\ pc = "save"
  /\ cert' = info
  /\ pc' = "waitRegister"
  /\ UNCHANGED <<service, channel, record, flags, faults>>

\* Mutant: the thing is registered without waiting for its certificate.
RegisterThingMutant ==
  /\ pc = "waitCreate"
  /\ pc' = "waitRegister"
  /\ req' = IF link = "up" THEN Append(req, Msg("register", token)) ELSE req
  /\ UNCHANGED <<service, rep, link, record, flags, cert, faults>>

\* The first wait is over: the thing is registered with the token at hand.
\* Subscribing may fail on a broken connection; what publish returns is ignored.
RegisterThing ==
  /\ pc = "waitCreate" /\ "create" \in flags
  /\ flags' = flags \ {"create"}
  /\ \/ /\ pc' = "waitRegister"
        /\ req' = IF link = "up" THEN Append(req, Msg("register", token)) ELSE req
        /\ UNCHANGED <<rep, link>>
     \/ /\ link = "broken" /\ Close
        /\ pc' = "down"
        /\ UNCHANGED req
  /\ UNCHANGED <<service, record, cert, faults>>

Finish ==
  /\ pc = "waitRegister" /\ "register" \in flags
  /\ flags' = flags \ {"register"}
  /\ Close
  /\ pc' = "done"
  /\ UNCHANGED <<service, req, record, cert, faults>>

\* Five seconds without the answer: none is coming, or it is slow.
Missed(t) ==
  /\ t \notin flags
  /\ \/ t = "create" /\ pc = "waitCreate"
     \/ t = "register" /\ pc = "waitRegister"
  /\ IF req = <<>> /\ rep = <<>>
       THEN UNCHANGED slow
       ELSE slow < MaxSlow /\ slow' = slow + 1

\* Mutant: the connection is not closed.
MissedClosesMutant(t) ==
  /\ Missed(t)
  /\ pc' = "down"
  /\ UNCHANGED <<service, channel, record, flags, cert, lost, stray>>

\* The attempt fails, and main_app_task makes another one ten seconds later.
MissedCloses(t) ==
  /\ Missed(t)
  /\ Close
  /\ pc' = "down"
  /\ UNCHANGED <<service, req, record, flags, cert, lost, stray>>

Timeout == MissedCloses("create") \/ MissedCloses("register")

\* The jobs task could not connect again and again: enableRefreshProvisionedCert.
Renew ==
  /\ pc = "done"
  /\ lost < MaxLost
  /\ lost' = lost + 1
  /\ pc' = "down"
  /\ UNCHANGED <<service, channel, record, flags, cert, slow, stray>>

-----------------------------------------------------------------------------
Init ==
  /\ made = 0 /\ registered = {}
  /\ req = <<>> /\ rep = <<>> /\ link = "idle"
  /\ pc = "down" /\ info = NoCert /\ token = NoCert /\ flags = {} /\ cert = NoCert
  /\ slow = 0 /\ lost = 0 /\ stray = 0

DeviceStep ==
  \/ Start \/ Deliver \/ SaveCert \/ RegisterThing \/ Finish \/ Timeout

Next == Serve \/ ServeAgain \/ Lose \/ PowerCut \/ Renew \/ DeviceStep

Spec == Init /\ [][Next]_vars

\* The main task goes on, and the service answers.
FairSpec == Spec /\ WF_vars(DeviceStep) /\ WF_vars(Serve)

-----------------------------------------------------------------------------
(* Properties.                                                             *)

\* The certificate in flash is given up, by erasing its sector, only when the
\* one in RAM is registered, and it is replaced only by that one: an answer to
\* register never meets a record that another answer to create has left there, as
\* long as every answer so far was read to the end and was for the request it was
\* taken for.
ReplacedByRegistered ==
  [][cert' # cert /\ stray = 0 => info \in registered]_cert

\* Whatever was lost, slow or cut, the device ends up provisioned: every way out
\* of an attempt leaves the transport free for the next one.
Provisions == pc = "down" ~> pc = "done" /\ cert # NoCert

\* The record is saved only once its thing is registered, to keep a changed
\* certificate out of the flash when registering failed, says the comment at
\* the save (fleet_provisioning_handler.c:64-65).
SavedWasRegistered == cert # NoCert => cert \in registered

\* As long as every answer was read to the end and was for the request it was
\* taken for, the exchanges, the callback and the flash are one renewal: the
\* certificate that replaces the old one is the one registered before that was
\* erased, across lost answers, attempts given up anywhere and power cuts inside
\* the save.
CR == INSTANCE CertificateRenewal WITH next <- info

RenewsInOrder == CR!Init /\ [][stray' = 0 => CR!Next]_(CR!vars)
=============================================================================
