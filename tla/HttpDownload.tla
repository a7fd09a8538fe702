---------------------------- MODULE HttpDownload ----------------------------
(***************************************************************************)
(* The HTTP client, port/network_interface/http_interface.c, as the jobs   *)
(* task uses it: ota_download_firmware calls http_get, which calls         *)
(* ota_http_send_request_callback back between connect and close.  The     *)
(* task blocks while it resolves the name and in every read; the idle task *)
(* may then renew the DHCP lease on the same socket, number 3, and the peer *)
(* may end the connection.                                                 *)
(*                                                                         *)
(* What the chunks do to the flash, and the CRC over it, is FirmwareUpdate. *)
(* The TLS path of http_get is left out: force_http is always set.         *)
(***************************************************************************)
EXTENDS Integers, Sequences

CONSTANTS
  Length,      \* response.contentLength
  Buffer,      \* HTTP_BUF_MAX_SIZE
  Word,        \* 2^32, what the uint32_t counters are reduced by
  Codes,       \* what recv's error codes are the negatives of
  MaxFaults,   \* bound on the operations that fail by themselves
  MaxRenewals  \* bound on the steps of the DHCP client

ASSUME DownloadAssumption ==
  /\ Length \in Nat \ {0} /\ Buffer \in Nat \ {0} /\ Word \in Nat
  /\ Word > 2 * Length + 2 * Buffer
  /\ Codes \subseteq 1..Buffer
  /\ MaxFaults \in Nat /\ MaxRenewals \in Nat

VARIABLES
  pc,       \* where the download stands
  state,    \* g_http_config.http_state
  url,      \* the URL g_http_config was last filled from
  socket,   \* socket 3: closed, the HTTP connection or the DHCP client's
  left,     \* the server: bytes of the body it has still to deliver
  got,      \* currentReceived
  total,    \* currentTotalLen
  result,   \* what http_get returned last
  negative, \* history: a read of this download returned an error code
  faults, renewals

config == <<state, url>>
vars == <<pc, config, socket, left, got, total, result, negative, faults, renewals>>

\* What the URL of a job can be: it, or a part of it, may be too long for its
\* buffer, and a part may be missing.
Urls ==
  {"http", "https", "noScheme", "tooLong", "longAddress", "longPath",
   "noAddress", "noPath", "address", "fiveNumbers"}

TypeOK ==
  /\ pc \in {"out", "dns", "connect", "send", "erase", "first", "recv", "again"}
  /\ state \in {"idle", "running"}
  /\ url \in Urls \cup {"none"}
  /\ socket \in {"closed", "http", "dhcp"}
  /\ left \in 0..Length
  /\ got \in 0..(Word - 1) /\ total \in 0..(Word - 1)
  /\ result \in {"none", "ok", "fail", "noData", "networkError"}
  /\ negative \in BOOLEAN
  /\ faults \in 0..MaxFaults /\ renewals \in 0..MaxRenewals

Fault == faults < MaxFaults /\ faults' = faults + 1

-----------------------------------------------------------------------------
(* http_get.                                                               *)

\* parse_url_info, whose result http_get ignores.  A URL that is too long is
\* not looked at, and one without a known scheme no further than that: the
\* port stays 0.  Of any other it is known, and force_http makes 443 an 80.
PortOf(u) == IF u \in {"noScheme", "tooLong"} THEN 0 ELSE 80

\* Whether domain and path hold what the URL says.  A part that is too long is
\* not copied; for one that is missing strtok returns NULL, and what stands at
\* address 0, which can be read, is taken for it.
NamedBy(u) == u \in {"http", "https", "address", "fiveNumbers"}

\* The numbers of a domain of digits and dots.
Numbers(u) ==
  CASE u = "address"     -> <<10, 0, 0, 1>>
    [] u = "fiveNumbers" -> <<10, 0, 0, 1, 7>>
    [] OTHER             -> <<>>

\* is_ipaddr: four dots pass as well as three.
IsIpaddr(numbers) ==
  /\ Len(numbers) \in 1..5
  /\ \A i \in 1..Len(numbers) : numbers[i] <= 255

\* A fifth number is written behind http_ip, into the first byte of http_port.
PortAfter(u) == IF Len(Numbers(u)) = 5 THEN Numbers(u)[5] ELSE PortOf(u)

\* disconnect closes a connection, and refuses a socket in another mode.
Disconnect == socket' = IF socket = "dhcp" THEN "dhcp" ELSE "closed"

\* Mutant: the state stays.
CloseMutant == Disconnect /\ UNCHANGED state

\* Mutant: the connection stays.
CloseKeepsMutant == state' = "idle" /\ UNCHANGED socket

\* http_close, without the TLS context.
Close == Disconnect /\ state' = "idle"

Return(r) == pc' = "out" /\ result' = r

Refused ==
  /\ pc = "out" /\ state = "running"
  /\ Return("fail")
  /\ UNCHANGED <<config, socket, left, got, total, negative, faults, renewals>>

\* Without a port http_get returns with the state set; an address needs no
\* resolution.
Start(u) ==
  /\ pc = "out" /\ state = "idle"
  /\ state' = "running" /\ url' = u
  /\ left' = Length /\ got' = 0 /\ total' = 0
  /\ negative' = FALSE
  /\ IF PortOf(u) = 0
       THEN Return("fail")
       ELSE /\ pc' = IF IsIpaddr(Numbers(u)) THEN "connect" ELSE "dns"
            /\ UNCHANGED result
  /\ UNCHANGED <<socket, faults, renewals>>

Resolved ==
  /\ pc = "dns"
  /\ pc' = "connect"
  /\ UNCHANGED <<config, socket, left, got, total, result, negative, faults, renewals>>

NotResolved ==
  /\ pc = "dns"
  /\ Fault \/ (~ NamedBy(url) /\ UNCHANGED faults)
  /\ Close
  /\ Return("fail")
  /\ UNCHANGED <<url, left, got, total, negative, renewals>>

\* socket() takes socket 3 in whatever mode it is.
Connected ==
  /\ pc = "connect"
  /\ socket' = "http"
  /\ pc' = "send"
  /\ UNCHANGED <<config, left, got, total, result, negative, faults, renewals>>

\* HTTPNetworkError, which the caller does not test for; at another port there
\* may be no server.
NotConnected ==
  /\ pc = "connect"
  /\ Fault \/ (PortAfter(url) # 80 /\ UNCHANGED faults)
  /\ socket' = "closed" /\ state' = "idle"
  /\ Return("networkError")
  /\ UNCHANGED <<url, left, got, total, negative, renewals>>

-----------------------------------------------------------------------------
(* ota_http_send_request_callback, and the close after it.                 *)

\* http_write sends on an established connection, and nothing otherwise.
Sends == socket = "http"

\* HTTPClient_Send: the body does not fit the buffer that holds the headers;
\* what has been read of it is the start of the first chunk.
HeadersReceived ==
  /\ pc = "send" /\ Sends
  /\ \E body \in 0..(Buffer - 1) :
       /\ body < left
       /\ got' = body /\ left' = left - body
  /\ pc' = "erase"
  /\ UNCHANGED <<config, socket, total, result, negative, faults, renewals>>

\* Any other status, the success of a response that fits the buffer included.
NothingToStore ==
  /\ pc = "send"
  /\ \/ Fault
     \/ (~ NamedBy(url) \/ ~ Sends \/ Length < Buffer) /\ UNCHANGED faults
  /\ Close
  /\ Return("noData")
  /\ UNCHANGED <<url, left, got, total, negative, renewals>>

\* erase_flash_total_ota_area, and a second's rest.
Erase ==
  /\ pc = "erase"
  /\ pc' = "first"
  /\ UNCHANGED <<config, socket, left, got, total, result, negative, faults, renewals>>

\* What a read of at most the buffer returns.
Amounts == 0..Buffer \cup {-c : c \in Codes}

\* http_read: n bytes, 0 after the timeout, or recv's code for data on a socket
\* that is a connection no more, whether the peer or the DHCP client ended it.
Reads(want, n) ==
  \/ /\ socket = "http" /\ n \in 1..want /\ n <= left
     /\ left' = left - n
     /\ UNCHANGED <<negative, faults>>
  \/ /\ n = 0
     /\ Fault \/ ((left = 0 \/ socket # "http") /\ UNCHANGED faults)
     /\ UNCHANGED <<left, negative>>
  \/ /\ socket # "http" /\ -n \in Codes
     /\ negative' = TRUE
     /\ UNCHANGED <<left, faults>>

\* Mutant: the sum is not reduced to the width of its type.
StoreMutant(n) ==
  /\ got' = 0
  /\ IF n = 0
       THEN Close /\ Return("noData") /\ UNCHANGED total
       ELSE /\ total' = total + n
            /\ IF total + n >= Length
                 THEN Close /\ Return("ok")
                 ELSE pc' = "recv" /\ UNCHANGED <<state, socket, result>>

\* Mutant: a connection that ends early ends the download well.
StoreShortMutant(n) ==
  /\ got' = 0
  /\ IF n = 0
       THEN Close /\ Return("ok") /\ UNCHANGED total
       ELSE /\ total' = (total + n) % Word
            /\ IF (total + n) % Word >= Length
                 THEN Close /\ Return("ok")
                 ELSE pc' = "recv" /\ UNCHANGED <<state, socket, result>>

\* Mutant: reading goes on although no data came.
StoreLoopsMutant(n) ==
  /\ got' = 0
  /\ total' = (total + n) % Word
  /\ IF (total + n) % Word >= Length
       THEN Close /\ Return("ok")
       ELSE pc' = "recv" /\ UNCHANGED <<state, socket, result>>

\* The chunk is written, or the loop ends: no data, or all of it.
Store(n) ==
  /\ got' = 0
  /\ IF n = 0
       THEN Close /\ Return("noData") /\ UNCHANGED total
       ELSE /\ total' = (total + n) % Word
            /\ IF (total + n) % Word >= Length
                 THEN Close /\ Return("ok")
                 ELSE pc' = "recv" /\ UNCHANGED <<state, socket, result>>

\* The first read goes on behind the body.
ReceiveFirst ==
  /\ pc = "first"
  /\ \E n \in Amounts : Reads(Buffer - got, n) /\ Store((got + n) % Word)
  /\ UNCHANGED <<url, renewals>>

\* A later one that does not fill the buffer is repeated once.
Receive ==
  /\ pc = "recv"
  /\ \E n \in Amounts :
       /\ Reads(Buffer, n)
       /\ \/ /\ n % Word < Buffer
             /\ got' = n % Word /\ pc' = "again"
             /\ UNCHANGED <<state, socket, total, result>>
          \/ /\ n % Word >= Buffer
             /\ Store(n % Word)
  /\ UNCHANGED <<url, renewals>>

ReceiveAgain ==
  /\ pc = "again"
  /\ \E n \in Amounts : Reads(Buffer - got, n) /\ Store((got + n) % Word)
  /\ UNCHANGED <<url, renewals>>

-----------------------------------------------------------------------------
(* The peer ends the connection, before or after its last byte was read.   *)

Drop ==
  /\ socket = "http"
  /\ socket' = "closed"
  /\ UNCHANGED <<pc, config, left, got, total, result, negative, faults, renewals>>

-----------------------------------------------------------------------------
(* The idle task: DHCP_stop closes socket 3, DHCP_run opens it for UDP.    *)

Renew ==
  /\ renewals < MaxRenewals
  /\ renewals' = renewals + 1
  /\ socket' \in {"closed", "dhcp"}
  /\ UNCHANGED <<pc, config, left, got, total, result, negative, faults>>

Init ==
  /\ pc = "out" /\ state = "idle"
  /\ url = "none"
  /\ socket = "closed"
  /\ left = 0 /\ got = 0 /\ total = 0
  /\ result = "none" /\ negative = FALSE
  /\ faults = 0 /\ renewals = 0

Download ==
  \/ Resolved \/ NotResolved \/ Connected \/ NotConnected \/ HeadersReceived
  \/ NothingToStore \/ Erase \/ ReceiveFirst \/ Receive \/ ReceiveAgain

Next == Refused \/ (\E u \in Urls : Start(u)) \/ Download \/ Drop \/ Renew

Spec == Init /\ [][Next]_vars

\* The scheduler runs the jobs task, and every read has a timeout.
FairSpec == Spec /\ WF_vars(Download)

-----------------------------------------------------------------------------
(* Properties.                                                             *)

\* Whatever ends a download, the client can be used again, but for two kinds
\* of URL, after which every later download is refused: one without a known
\* scheme, and one that is too long for parse_url_info to look for it.
StuckOnlyWithoutPort ==
  pc = "out" /\ state = "running" => url \in {"noScheme", "tooLong"}

\* A download that has ended leaves no connection behind on the socket the
\* DHCP client will want.
SocketIsLeft == pc = "out" => socket # "http"

\* A download that succeeds has received every byte, unless a read of it
\* returned an error code, which the total counts like a length: then the CRC
\* is all that is left to tell.
SuccessIsWhole == result = "ok" /\ pc = "out" /\ ~ negative => left = 0

\* Every download ends, however its reads fail and whoever ends its connection.
DownloadEnds == pc # "out" ~> pc = "out"
=============================================================================
