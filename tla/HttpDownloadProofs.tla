------------------------ MODULE HttpDownloadProofs ------------------------
(***************************************************************************)
(* Proofs about HttpDownload, for every length of the content, size of the *)
(* buffer and number of faults.                                            *)
(***************************************************************************)
EXTENDS HttpDownload, TLAPS

Callback == {"send", "erase", "first", "recv", "again"}

(* Every return but one goes through http_close.                           *)
StateInv == StuckOnlyWithoutPort /\ (pc # "out" => state = "running")

(* The socket is a connection only while the callback runs.                *)
SocketInv == socket = "http" => pc \in Callback

(* As long as no error code was taken for a length, the bytes stored, the  *)
(* bytes read and the bytes to come are the content, whatever has become   *)
(* of the connection.                                                      *)
CountInv ==
  /\ SuccessIsWhole
  /\ pc \in {"dns", "connect", "send"} => left = Length /\ got = 0 /\ total = 0
  /\ ~ negative /\ pc \in Callback => left + got + total = Length /\ got <= Buffer
  /\ pc = "recv" => got = 0

DownloadInv == StateInv /\ SocketInv /\ CountInv

-----------------------------------------------------------------------------
(* Remainders.                                                             *)

LEMMA SmallMod ==
  ASSUME NEW x \in Nat, x < Word
  PROVE  x % Word = x
BY DownloadAssumption

LEMMA ModRange ==
  ASSUME NEW x \in Int
  PROVE  x % Word \in 0..(Word - 1)
BY DownloadAssumption

(* Amounts is a length or a code below zero, none larger than the buffer.  *)
LEMMA AmountsRange == \A n \in Amounts : n \in -Buffer..Buffer
BY DownloadAssumption DEF Amounts

LEMMA ReadsType ==
  ASSUME TypeOK, NEW want \in Int, NEW n \in Amounts, Reads(want, n)
  PROVE  left' \in 0..Length /\ faults' \in 0..MaxFaults /\ negative' \in BOOLEAN
<1>1. n \in Int /\ left \in 0..Length
  BY AmountsRange, DownloadAssumption DEF TypeOK
<1>2. CASE socket = "http" /\ n \in 1..want /\ n <= left /\ left' = left - n /\ UNCHANGED <<negative, faults>>
  BY <1>1, <1>2, DownloadAssumption DEF TypeOK
<1>3. CASE Fault /\ UNCHANGED <<left, negative>>
  BY <1>3, DownloadAssumption DEF TypeOK, Fault
<1>4. CASE UNCHANGED <<left, faults>> /\ (negative' = TRUE \/ UNCHANGED negative)
  BY <1>4 DEF TypeOK
<1> QED BY <1>2, <1>3, <1>4 DEF Reads

LEMMA StoreType ==
  ASSUME TypeOK, NEW n \in 0..(Word - 1), Store(n)
  PROVE  /\ got' \in 0..(Word - 1) /\ total' \in 0..(Word - 1)
         /\ pc' \in {"out", "recv"}
         /\ state' \in {"idle", "running"} /\ socket' \in {"closed", "http", "dhcp"}
         /\ result' \in {"none", "ok", "fail", "noData", "networkError"}
<1>1. (total + n) % Word \in 0..(Word - 1)
  BY ModRange DEF TypeOK
<1>2. 0 \in 0..(Word - 1)
  BY DownloadAssumption
<1>3. CASE n = 0
  BY <1>2, <1>3 DEF Store, Close, Disconnect, Return, TypeOK
<1>4. CASE n # 0
  BY <1>1, <1>2, <1>4 DEF Store, Close, Disconnect, Return, TypeOK
<1> QED BY <1>3, <1>4

-----------------------------------------------------------------------------
(* Types.                                                                  *)

LEMMA Zero == 0 \in 0..(Word - 1) /\ 0 \in 0..Length /\ Length \in 0..Length
BY DownloadAssumption

LEMMA TypeInit == Init => TypeOK
<1> SUFFICES ASSUME Init PROVE TypeOK
  OBVIOUS
<1>1. left \in 0..Length /\ got \in 0..(Word - 1) /\ total \in 0..(Word - 1)
  BY Zero DEF Init
<1>2. faults \in 0..MaxFaults /\ renewals \in 0..MaxRenewals
  BY DownloadAssumption DEF Init
<1>3. url \in Urls \cup {"none"} /\ negative \in BOOLEAN
  BY DEF Init
<1> QED BY <1>1, <1>2, <1>3 DEF Init, TypeOK

LEMMA GetType ==
  ASSUME TypeOK,
         \/ Refused \/ (\E u \in Urls : Start(u)) \/ Resolved \/ NotResolved
         \/ Connected \/ NotConnected \/ HeadersReceived \/ NothingToStore \/ Erase
  PROVE  TypeOK'
<1> USE DownloadAssumption DEF config, Return
<1>1. CASE Refused
  BY <1>1 DEF Refused, TypeOK
<1>2. ASSUME NEW u \in Urls, Start(u) PROVE TypeOK'
  <2>1. url' \in Urls \cup {"none"} /\ negative' \in BOOLEAN
    BY <1>2 DEF Start
  <2>2. pc' \in {"out", "dns", "connect"} /\ result' \in {"none", "ok", "fail", "noData", "networkError"}
    BY <1>2 DEF Start, TypeOK
  <2> QED BY <1>2, <2>1, <2>2, Zero DEF Start, TypeOK
<1>3. CASE Resolved
  BY <1>3 DEF Resolved, TypeOK
<1>4. CASE NotResolved
  BY <1>4 DEF NotResolved, Close, Disconnect, Fault, TypeOK
<1>5. CASE Connected
  BY <1>5 DEF Connected, TypeOK
<1>6. CASE NotConnected
  BY <1>6 DEF NotConnected, Fault, TypeOK
<1>7. CASE HeadersReceived
  BY <1>7 DEF HeadersReceived, Sends, TypeOK
<1>8. CASE NothingToStore
  BY <1>8 DEF NothingToStore, Close, Disconnect, Fault, TypeOK
<1>9. CASE Erase
  BY <1>9 DEF Erase, TypeOK
<1> QED BY <1>1, <1>2, <1>3, <1>4, <1>5, <1>6, <1>7, <1>8, <1>9

LEMMA LoopType ==
  ASSUME TypeOK, ReceiveFirst \/ Receive \/ ReceiveAgain
  PROVE  TypeOK'
<1>1. ASSUME NEW m \in Amounts PROVE (got + m) % Word \in 0..(Word - 1) /\ m % Word \in 0..(Word - 1)
  BY AmountsRange, ModRange, DownloadAssumption DEF TypeOK
<1>2. UNCHANGED <<url, renewals>>
  BY DEF ReceiveFirst, Receive, ReceiveAgain
<1>3. CASE ReceiveFirst \/ ReceiveAgain
  <2>1. PICK n \in Amounts : Reads(Buffer - got, n) /\ Store((got + n) % Word)
    BY <1>3 DEF ReceiveFirst, ReceiveAgain
  <2> QED BY <1>1, <1>2, <2>1, ReadsType, StoreType, AmountsRange, DownloadAssumption DEF TypeOK
<1>4. CASE Receive
  <2>1. PICK n \in Amounts :
          /\ Reads(Buffer, n)
          /\ \/ /\ n % Word < Buffer
                /\ got' = n % Word /\ pc' = "again"
                /\ UNCHANGED <<state, socket, total, result>>
             \/ /\ n % Word >= Buffer
                /\ Store(n % Word)
    BY <1>4 DEF Receive
  <2>2. CASE Store(n % Word)
    BY <1>1, <1>2, <2>1, <2>2, ReadsType, StoreType, AmountsRange, DownloadAssumption DEF TypeOK
  <2>3. CASE got' = n % Word /\ pc' = "again" /\ UNCHANGED <<state, socket, total, result>>
    BY <1>1, <1>2, <2>1, <2>3, ReadsType, DownloadAssumption DEF TypeOK
  <2> QED BY <2>1, <2>2, <2>3
<1> QED BY <1>3, <1>4

LEMMA TypeStep == TypeOK /\ [Next]_vars => TypeOK'
<1> SUFFICES ASSUME TypeOK, [Next]_vars PROVE TypeOK'
  OBVIOUS
<1>1. CASE UNCHANGED vars
  BY <1>1 DEF vars, config, TypeOK
<1>2. CASE Renew \/ Drop
  BY <1>2, DownloadAssumption DEF Renew, Drop, config, TypeOK
<1> QED BY <1>1, <1>2, GetType, LoopType DEF Next, Download

(* Every counter keeps the width of its type.                              *)
THEOREM DownloadTypes == Spec => []TypeOK
BY TypeInit, TypeStep, PTL DEF Spec

-----------------------------------------------------------------------------
(* The invariants.                                                         *)

LEMMA DownloadInit == Init => DownloadInv
BY DEF Init, DownloadInv, StateInv, StuckOnlyWithoutPort, SocketInv, CountInv,
       SuccessIsWhole, Callback

LEMMA StateStep == StateInv /\ [Next]_vars => StateInv'
<1> SUFFICES ASSUME StateInv, [Next]_vars PROVE StateInv'
  OBVIOUS
<1> USE DEF StateInv, StuckOnlyWithoutPort, config, Return, Close, Store
<1>1. CASE UNCHANGED vars
  BY <1>1 DEF vars
<1>2. CASE Renew \/ Drop \/ Refused
  BY <1>2 DEF Renew, Drop, Refused
<1>3. ASSUME NEW u \in Urls, Start(u) PROVE StateInv'
  BY <1>3 DEF Start, PortOf
<1>4. CASE Resolved \/ NotResolved \/ Connected \/ NotConnected
  BY <1>4 DEF Resolved, NotResolved, Connected, NotConnected
<1>5. CASE HeadersReceived \/ NothingToStore \/ Erase
  BY <1>5 DEF HeadersReceived, NothingToStore, Erase
<1>6. CASE ReceiveFirst \/ Receive \/ ReceiveAgain
  BY <1>6 DEF ReceiveFirst, Receive, ReceiveAgain
<1> QED BY <1>1, <1>2, <1>3, <1>4, <1>5, <1>6 DEF Next, Download

LEMMA SocketStep == SocketInv /\ [Next]_vars => SocketInv'
<1> SUFFICES ASSUME SocketInv, [Next]_vars PROVE SocketInv'
  OBVIOUS
<1> USE DEF SocketInv, Callback, config, Return, Close, Disconnect, Store
<1>1. CASE UNCHANGED vars
  BY <1>1 DEF vars
<1>2. CASE Renew \/ Drop \/ Refused
  BY <1>2 DEF Renew, Drop, Refused
<1>3. ASSUME NEW u \in Urls, Start(u) PROVE SocketInv'
  BY <1>3 DEF Start
<1>4. CASE Resolved \/ NotResolved \/ Connected \/ NotConnected
  BY <1>4 DEF Resolved, NotResolved, Connected, NotConnected
<1>5. CASE HeadersReceived \/ NothingToStore \/ Erase
  BY <1>5 DEF HeadersReceived, NothingToStore, Erase
<1>6. CASE ReceiveFirst \/ Receive \/ ReceiveAgain
  BY <1>6 DEF ReceiveFirst, Receive, ReceiveAgain
<1> QED BY <1>1, <1>2, <1>3, <1>4, <1>5, <1>6 DEF Next, Download

(* A read, and the chunk that is stored after it.                          *)
LEMMA StoreCount ==
  ASSUME TypeOK, CountInv, pc \in {"first", "recv", "again"},
         NEW n \in Amounts, NEW had \in {0, got}, pc = "recv" \/ had = got,
         Reads(Buffer - had, n), Store((had + n) % Word)
  PROVE  CountInv'
<1>0. pc' \in {"out", "recv"} /\ got' = 0
  BY DEF Store, Return
<1>1. CASE negative'
  BY <1>0, <1>1 DEF CountInv, SuccessIsWhole
<1>2. CASE ~ negative'
  <2>1. ~ negative
    BY <1>2 DEF Reads, TypeOK
  <2>2. left + got + total = Length /\ got <= Buffer /\ had = got
    BY <2>1 DEF CountInv, Callback
  <2>3. n \in 0..(Buffer - got) /\ left' = left - n /\ n <= left
    BY <1>2, <2>2, DownloadAssumption DEF Reads, TypeOK
  <2>4. (had + n) % Word = got + n
    BY <2>2, <2>3, SmallMod, DownloadAssumption DEF TypeOK
  <2>5. (total + (got + n)) % Word = total + (got + n)
    <3>1. total + (got + n) \in Nat /\ total + (got + n) < Word
      BY <2>2, <2>3, DownloadAssumption DEF TypeOK
    <3> QED BY <3>1, SmallMod
  <2>6. left' + (total + (got + n)) = Length /\ left' \in Nat
    BY <2>2, <2>3, DownloadAssumption DEF TypeOK
  <2>7. CASE pc' = "recv"
    <3>1. total' = total + (got + n)
      BY <2>4, <2>5, <2>7 DEF Store, Return
    <3> QED BY <1>0, <2>6, <2>7, <3>1, DownloadAssumption DEF CountInv, SuccessIsWhole, Callback
  <2>8. CASE pc' = "out"
    <3>1. result' = "ok" => total + (got + n) >= Length
      BY <2>4, <2>5, <2>8 DEF Store, Return
    <3>2. result' = "ok" => left' = 0
      BY <2>2, <2>3, <2>6, <3>1, DownloadAssumption DEF TypeOK
    <3> QED BY <2>8, <3>2 DEF CountInv, SuccessIsWhole, Callback
  <2> QED BY <1>0, <2>7, <2>8
<1> QED BY <1>1, <1>2

LEMMA CountStep == TypeOK /\ CountInv /\ [Next]_vars => CountInv'
<1> SUFFICES ASSUME TypeOK, CountInv, [Next]_vars PROVE CountInv'
  OBVIOUS
<1>1. CASE UNCHANGED vars
  BY <1>1 DEF vars, config, CountInv, SuccessIsWhole
<1>2. CASE Renew \/ Drop
  BY <1>2 DEF Renew, Drop, config, CountInv, SuccessIsWhole, Callback
<1>3. CASE Refused
  BY <1>3 DEF Refused, Return, config, CountInv, SuccessIsWhole, Callback
<1>4. ASSUME NEW u \in Urls, Start(u) PROVE CountInv'
  BY <1>4 DEF Start, Return, CountInv, SuccessIsWhole, Callback
<1>5. CASE Resolved \/ Connected
  BY <1>5, DownloadAssumption DEF Resolved, Connected, config, CountInv, SuccessIsWhole, Callback
<1>6. CASE NotResolved \/ NotConnected \/ NothingToStore
  BY <1>6 DEF NotResolved, NotConnected, NothingToStore, Return, CountInv, SuccessIsWhole, Callback
<1>7. CASE HeadersReceived
  <2>1. PICK body \in 0..(Buffer - 1) : got' = body /\ left' = left - body
    BY <1>7 DEF HeadersReceived
  <2>2. pc = "send" /\ pc' = "erase" /\ UNCHANGED <<total, result, negative>>
    BY <1>7 DEF HeadersReceived
  <2> QED BY <2>1, <2>2, DownloadAssumption DEF CountInv, SuccessIsWhole, Callback, TypeOK
<1>8. CASE Erase
  BY <1>8 DEF Erase, config, CountInv, SuccessIsWhole, Callback
<1>9. CASE ReceiveFirst \/ ReceiveAgain
  <2>1. PICK n \in Amounts : Reads(Buffer - got, n) /\ Store((got + n) % Word)
    BY <1>9 DEF ReceiveFirst, ReceiveAgain
  <2>2. pc \in {"first", "recv", "again"}
    BY <1>9 DEF ReceiveFirst, ReceiveAgain
  <2> QED BY <2>1, <2>2, StoreCount
<1>10. CASE Receive
  <2>1. PICK n \in Amounts :
          /\ Reads(Buffer, n)
          /\ \/ /\ n % Word < Buffer
                /\ got' = n % Word /\ pc' = "again"
                /\ UNCHANGED <<state, socket, total, result>>
             \/ /\ n % Word >= Buffer
                /\ Store(n % Word)
    BY <1>10 DEF Receive
  <2>2. pc = "recv" /\ got = 0
    BY <1>10 DEF Receive, CountInv
  <2>3. CASE Store(n % Word)
    <3>1. Buffer - 0 = Buffer /\ 0 + n = n
      BY AmountsRange, DownloadAssumption
    <3>2. Reads(Buffer - 0, n) /\ Store((0 + n) % Word)
      BY <2>1, <2>3, <3>1
    <3> QED BY <2>2, <3>2, StoreCount
  <2>4. CASE got' = n % Word /\ pc' = "again" /\ UNCHANGED <<state, socket, total, result>>
    <3>1. ASSUME ~ negative' PROVE left' + got' + total' = Length /\ got' <= Buffer
      <4>1. ~ negative
        BY <2>1, <3>1 DEF Reads, TypeOK
      <4>2. left + got + total = Length
        BY <2>2, <4>1 DEF CountInv, Callback
      <4>3. n \in 0..Buffer /\ left' = left - n
        BY <2>1, <3>1, DownloadAssumption DEF Reads, TypeOK
      <4>4. n % Word = n
        BY <4>3, SmallMod, DownloadAssumption
      <4> QED BY <2>2, <2>4, <4>2, <4>3, <4>4, DownloadAssumption DEF TypeOK
    <3> QED BY <2>4, <3>1 DEF CountInv, SuccessIsWhole, Callback
  <2> QED BY <2>1, <2>3, <2>4
<1> QED BY <1>1, <1>2, <1>3, <1>4, <1>5, <1>6, <1>7, <1>8, <1>9, <1>10 DEF Next, Download

LEMMA DownloadHolds == Spec => [](TypeOK /\ DownloadInv)
<1>1. Init => TypeOK /\ DownloadInv
  BY TypeInit, DownloadInit
<1>2. TypeOK /\ DownloadInv /\ [Next]_vars => (TypeOK /\ DownloadInv)'
  BY TypeStep, StateStep, SocketStep, CountStep DEF DownloadInv
<1> QED BY <1>1, <1>2, PTL DEF Spec

(* Only a URL without a known scheme, or one that is too long, leaves the  *)
(* client unusable.                                                        *)
THEOREM OnlyWithoutPortSticks == Spec => []StuckOnlyWithoutPort
<1>1. DownloadInv => StuckOnlyWithoutPort
  BY DEF DownloadInv, StateInv
<1> QED BY <1>1, DownloadHolds, PTL

(* Socket 3 is given back after every download.                            *)
THEOREM SocketIsGivenBack == Spec => []SocketIsLeft
<1>1. DownloadInv => SocketIsLeft
  BY DEF DownloadInv, SocketInv, SocketIsLeft, Callback
<1> QED BY <1>1, DownloadHolds, PTL

(* No byte of a successful download is missing unless a read returned an   *)
(* error code, whatever the length of the content, the sizes of the chunks *)
(* and the moment the connection ends.                                     *)
THEOREM SuccessReceivesAll == Spec => []SuccessIsWhole
<1>1. DownloadInv => SuccessIsWhole
  BY DEF DownloadInv, CountInv
<1> QED BY <1>1, DownloadHolds, PTL
-----------------------------------------------------------------------------
(* How far a download still has to go.  On a connection every read takes   *)
(* some of what is left of the body, or is the one that is repeated.  On a *)
(* socket that is none, an error code takes its size from the total at     *)
(* every turn of the loop, until it falls below zero and the loop ends; to *)
(* get there a connection is ended once, which has to count for more.      *)
Remains == IF socket = "http" THEN left + Length + Buffer ELSE total + got

\* More than is left to do once the receive loop runs.
Loop == 3 * (2 * Length + Buffer)

Effort ==
  CASE pc = "out"     -> 0
    [] pc = "dns"     -> Loop + 7
    [] pc = "connect" -> Loop + 6
    [] pc = "send"    -> Loop + 5
    [] pc = "erase"   -> Loop + 4
    [] pc = "first"   -> 3 * Remains + 3
    [] pc = "recv"    -> 3 * Remains + 2
    [] pc = "again"   -> 3 * Remains + (IF got = 0 THEN 1 ELSE 3)

(* The loop goes on only below the length, and a chunk fits its buffer.    *)
LoopInv ==
  /\ pc \in {"dns", "connect", "send", "erase", "first"} => total = 0
  /\ pc \in {"dns", "connect", "send"} => got = 0
  /\ pc # "out" => total < Length
  /\ pc = "recv" => got = 0
  /\ pc \in {"erase", "first", "again"} => got < Buffer

(* Each step of a download leaves it less to do, and what comes between    *)
(* them, the DHCP client or the end of the connection, never more.         *)
DownloadAdvances ==
  [][pc # "out" => \/ Download /\ Effort' < Effort
                   \/ (Drop \/ Renew) /\ Effort' <= Effort]_vars

LEMMA LoopInit == Init => LoopInv
BY DEF Init, LoopInv

(* What a read brings fits the buffer with what is there, or wraps.        *)
LEMMA ReadFits ==
  ASSUME NEW had \in 0..Buffer, NEW n \in Amounts, Reads(Buffer - had, n)
  PROVE  /\ n <= Buffer - had
         /\ (had + n) % Word = IF had + n < 0 THEN Word + (had + n) ELSE had + n
<1>1. n \in -Buffer..Buffer
  BY AmountsRange
<1>2. n <= Buffer - had
  <2>1. ASSUME -n \in Codes PROVE n < 0
    BY <1>1, <2>1, DownloadAssumption
  <2> QED BY <1>1, <2>1, DownloadAssumption DEF Reads
<1>3. CASE had + n >= 0
  <2>1. had + n \in Nat /\ had + n < Word
    BY <1>1, <1>2, <1>3, DownloadAssumption
  <2> QED BY <1>2, <1>3, <2>1, SmallMod
<1>4. CASE had + n < 0
  <2> DEFINE k == had + n
  <2>1. k \in -Buffer..-1
    BY <1>1, <1>4, DownloadAssumption
  <2> HIDE DEF k
  <2>2. k % Word = Word + k
    BY <2>1, DownloadAssumption
  <2> QED BY <1>2, <1>4, <2>2 DEF k
<1> QED BY <1>1, <1>3, <1>4, DownloadAssumption

(* The sum that a chunk makes of the total, whatever k a code takes off.   *)
LEMMA StoreSum ==
  ASSUME TypeOK, total < Length
  PROVE  /\ \A m \in 0..Buffer : (total + m) % Word = total + m
         /\ \A k \in 1..Buffer :
              (total + (Word - k)) % Word = IF total >= k THEN total - k ELSE total + (Word - k)
<1>1. total \in Nat
  BY DownloadAssumption DEF TypeOK
<1>2. ASSUME NEW m \in 0..Buffer PROVE (total + m) % Word = total + m
  <2>1. total + m \in Nat /\ total + m < Word
    BY <1>1, DownloadAssumption
  <2> QED BY <2>1, SmallMod
<1>3. ASSUME NEW k \in 1..Buffer
      PROVE  (total + (Word - k)) % Word = IF total >= k THEN total - k ELSE total + (Word - k)
  <2>1. CASE total < k
    <3>1. total + (Word - k) \in Nat /\ total + (Word - k) < Word
      BY <1>1, <2>1, DownloadAssumption
    <3> QED BY <1>1, <2>1, <3>1, SmallMod, DownloadAssumption
  <2>2. CASE total >= k
    <3> DEFINE rest == total - k
    <3>1. rest \in Nat /\ rest < Word
      BY <1>1, <2>2, DownloadAssumption
    <3>2. total + (Word - k) = rest + Word
      BY <1>1, DownloadAssumption
    <3> HIDE DEF rest
    <3>3. (rest + Word) % Word = rest
      BY <3>1, DownloadAssumption
    <3> QED BY <2>2, <3>2, <3>3 DEF rest
  <2> QED BY <1>1, <2>1, <2>2, DownloadAssumption
<1> QED BY <1>2, <1>3

LEMMA RemainsType ==
  ASSUME TypeOK
  PROVE  /\ left \in Nat /\ got \in Nat /\ total \in Nat
         /\ Remains \in Nat
BY DownloadAssumption DEF TypeOK, Remains

(* A read and the chunk it ends: the loop is over, or it is shorter.        *)
LEMMA StoreAdvances ==
  ASSUME TypeOK, LoopInv, pc \in {"first", "recv", "again"},
         NEW n \in Amounts, Reads(Buffer - got, n), Store((got + n) % Word)
  PROVE  LoopInv' /\ Effort' < Effort
<1> DEFINE m == (got + n) % Word
<1>0. n \in -Buffer..Buffer
  BY AmountsRange
<1>1. got \in 0..Buffer /\ total < Length
  BY DownloadAssumption DEF LoopInv, TypeOK
<1>2. left \in Nat /\ got \in Nat /\ total \in Nat /\ Remains \in Nat
  BY RemainsType
<1>3. n <= Buffer - got /\ m = IF got + n < 0 THEN Word + (got + n) ELSE got + n
  BY <1>1, ReadFits
<1>4. 3 * Remains + (IF pc = "recv" THEN 2 ELSE IF pc = "again" /\ got = 0 THEN 1 ELSE 3) = Effort
  BY DEF Effort
<1> HIDE DEF m
<1>5. CASE pc' = "out"
  <2>1. Effort' = 0
    BY <1>5 DEF Effort
  <2>2. Effort > 0
    BY <1>2, <1>4
  <2> QED BY <1>5, <2>1, <2>2 DEF LoopInv
<1>6. CASE pc' # "out"
  <2>1. /\ m # 0 /\ pc' = "recv" /\ socket' = socket /\ got' = 0
        /\ total' = (total + m) % Word /\ ~ (total' >= Length)
    BY <1>6 DEF Store, Return, m
  <2>2. \/ got + n >= 0 /\ total' = total + (got + n)
        \/ got + n < 0 /\ total' = total + (got + n) /\ total' >= 0
    <3>1. CASE got + n >= 0
      <4>1. m = got + n /\ m \in 0..Buffer
        BY <1>0, <1>1, <1>3, <3>1, DownloadAssumption
      <4> QED BY <1>1, <2>1, <3>1, <4>1, StoreSum
    <3>2. CASE got + n < 0
      <4> DEFINE k == -(got + n)
      <4>1. k \in 1..Buffer /\ m = Word - k
        BY <1>0, <1>1, <1>2, <1>3, <3>2, DownloadAssumption
      <4> HIDE DEF k
      <4>2. total' = IF total >= k THEN total - k ELSE total + (Word - k)
        BY <1>1, <2>1, <4>1, StoreSum
      <4>3. total >= k /\ total' = total - k
        BY <1>1, <1>2, <2>1, <4>1, <4>2, DownloadAssumption
      <4>4. total' = total + (got + n) /\ total' >= 0
        BY <1>0, <1>2, <4>1, <4>3 DEF k
      <4> QED BY <3>2, <4>4
    <3> QED BY <1>0, <1>2, <3>1, <3>2
  <2>3. total' \in Nat /\ total' < Length
    BY <1>0, <1>1, <1>2, <2>1, <2>2, DownloadAssumption
  <2>4. LoopInv'
    BY <2>1, <2>3 DEF LoopInv
  <2>5. Effort' = 3 * Remains' + 2
    BY <2>1 DEF Effort
  <2>6. n = 0 => got # 0
    <3>1. ASSUME n = 0, got = 0 PROVE FALSE
      <4>1. m = 0
        BY <1>3, <3>1
      <4> QED BY <2>1, <4>1
    <3> QED BY <3>1
  <2>7. pc = "recv" => got = 0
    BY DEF LoopInv
  <2>8. Remains' = Remains - (IF socket = "http" THEN n ELSE -n)
    <3>1. CASE socket = "http"
      <4>1. left' = left - n
        BY <1>2, <3>1 DEF Reads
      <4> QED BY <1>0, <1>2, <2>1, <3>1, <4>1, DownloadAssumption DEF Remains
    <3>2. CASE socket # "http"
      BY <1>0, <1>2, <2>1, <2>2, <3>2 DEF Remains
    <3> QED BY <3>1, <3>2
  <2>9. IF socket = "http" THEN n >= 0 ELSE n <= 0
    <3>1. ASSUME -n \in Codes PROVE n < 0
      BY <1>0, <3>1, DownloadAssumption
    <3> QED BY <1>0, <3>1 DEF Reads
  <2>10. Remains' \in Nat
    BY <1>2, <2>1, <2>3, ReadsType, DownloadAssumption DEF Remains
  <2>11. CASE n = 0
    BY <1>2, <1>4, <2>4, <2>5, <2>6, <2>7, <2>8, <2>10, <2>11
  <2>12. CASE n # 0
    <3>1. Remains' <= Remains - 1
      BY <1>0, <1>2, <2>8, <2>9, <2>12
    <3> QED BY <1>2, <1>4, <2>4, <2>5, <2>10, <3>1
  <2> QED BY <2>11, <2>12
<1> QED BY <1>5, <1>6

LEMMA DownloadShortens ==
  ASSUME TypeOK, LoopInv, Download
  PROVE  LoopInv' /\ Effort' < Effort
<1>1. left \in Nat /\ got \in Nat /\ total \in Nat /\ Remains \in Nat
  BY RemainsType
<1>2. Length \in Nat /\ Buffer \in Nat /\ left <= Length /\ Loop \in Nat
  BY DownloadAssumption DEF TypeOK, Loop
<1>3. CASE Resolved
  BY <1>2, <1>3 DEF Resolved, config, LoopInv, Effort
<1>4. CASE Connected
  BY <1>2, <1>4 DEF Connected, config, LoopInv, Effort
<1>5. CASE NotResolved \/ NotConnected \/ NothingToStore
  <2>1. pc' = "out" /\ pc \in {"dns", "connect", "send"}
    BY <1>5 DEF NotResolved, NotConnected, NothingToStore, Return
  <2> QED BY <1>2, <2>1 DEF LoopInv, Effort
<1>6. CASE HeadersReceived
  <2>1. got' \in 0..(Buffer - 1) /\ pc = "send" /\ pc' = "erase" /\ total' = total
    BY <1>6 DEF HeadersReceived
  <2>2. LoopInv'
    BY <1>2, <2>1 DEF LoopInv
  <2> QED BY <1>2, <2>1, <2>2 DEF Effort
<1>7. CASE Erase
  <2>1. pc = "erase" /\ pc' = "first" /\ UNCHANGED <<socket, left, got, total>>
    BY <1>7 DEF Erase
  <2>2. total = 0 /\ got < Buffer /\ Remains' = Remains
    BY <2>1 DEF LoopInv, Remains
  <2>3. 3 * Remains <= Loop
    BY <1>1, <1>2, <2>2 DEF Remains, Loop
  <2>4. LoopInv'
    BY <2>1, <2>2 DEF LoopInv
  <2> QED BY <1>1, <1>2, <2>1, <2>2, <2>3, <2>4 DEF Effort
<1>8. CASE ReceiveFirst \/ ReceiveAgain
  <2>1. PICK n \in Amounts : Reads(Buffer - got, n) /\ Store((got + n) % Word)
    BY <1>8 DEF ReceiveFirst, ReceiveAgain
  <2>2. pc \in {"first", "recv", "again"}
    BY <1>8 DEF ReceiveFirst, ReceiveAgain
  <2> QED BY <2>1, <2>2, StoreAdvances
<1>9. CASE Receive
  <2>1. PICK n \in Amounts :
          /\ Reads(Buffer, n)
          /\ \/ /\ n % Word < Buffer
                /\ got' = n % Word /\ pc' = "again"
                /\ UNCHANGED <<state, socket, total, result>>
             \/ /\ n % Word >= Buffer
                /\ Store(n % Word)
    BY <1>9 DEF Receive
  <2>2. pc = "recv" /\ got = 0 /\ total < Length
    BY <1>9 DEF Receive, LoopInv
  <2>3. Buffer - got = Buffer /\ got + n = n
    BY <1>2, <2>2, AmountsRange
  <2>4. CASE Store(n % Word)
    BY <2>1, <2>2, <2>3, <2>4, StoreAdvances
  <2>5. CASE n % Word < Buffer /\ got' = n % Word /\ pc' = "again" /\ UNCHANGED <<socket, total>>
    <3>1. Reads(Buffer - 0, n) /\ 0 + n = n /\ 0 \in 0..Buffer
      BY <1>2, <2>1, <2>2, <2>3
    <3>2. n % Word = IF n < 0 THEN Word + n ELSE n
      BY <3>1, ReadFits
    <3>3. n \in -Buffer..Buffer
      BY AmountsRange
    <3>4. n >= 0 /\ got' = n
      BY <1>2, <2>5, <3>2, <3>3, DownloadAssumption
    <3>5. LoopInv'
      BY <1>2, <2>2, <2>5, <3>3, <3>4 DEF LoopInv
    <3>6. Effort = 3 * Remains + 2 /\ Effort' = 3 * Remains' + (IF n = 0 THEN 1 ELSE 3)
      BY <2>2, <2>5, <3>4 DEF Effort
    <3>7. socket # "http" => n = 0
      <4>1. ASSUME -n \in Codes PROVE n < 0
        BY <3>3, <4>1, DownloadAssumption
      <4> QED BY <2>1, <3>3, <3>4, <4>1, DownloadAssumption DEF Reads
    <3>8. Remains' = Remains - n
      <4>1. CASE socket = "http"
        <5>1. left' = left - n
          BY <1>1, <2>1, <4>1 DEF Reads
        <5> QED BY <1>1, <1>2, <2>5, <3>3, <4>1, <5>1 DEF Remains
      <4>2. CASE socket # "http"
        BY <1>1, <2>2, <2>5, <3>4, <3>7, <4>2 DEF Remains
      <4> QED BY <4>1, <4>2
    <3> QED BY <1>1, <3>3, <3>4, <3>5, <3>6, <3>8
  <2> QED BY <2>1, <2>4, <2>5
<1> QED BY <1>3, <1>4, <1>5, <1>6, <1>7, <1>8, <1>9 DEF Download

(* Losing the connection leaves no more to do, at any moment of a download. *)
LEMMA LostShortens ==
  ASSUME TypeOK, LoopInv, Drop \/ Renew
  PROVE  LoopInv' /\ Effort' <= Effort
<1>1. /\ left \in Nat /\ got \in Nat /\ total \in Nat /\ Remains \in Nat
      /\ Length \in Nat /\ Buffer \in Nat /\ Loop \in Nat
  BY RemainsType, DownloadAssumption DEF Loop
<1>2. UNCHANGED <<pc, left, got, total>> /\ (socket' = "http" => socket = "http")
  BY DEF Drop, Renew
<1>3. LoopInv'
  BY <1>2 DEF LoopInv
<1>4. CASE pc \in {"first", "recv", "again"}
  <2>1. total < Length /\ got < Buffer
    BY <1>4, DownloadAssumption DEF LoopInv
  <2>2. Remains' <= Remains /\ Remains' \in Nat
    BY <1>1, <1>2, <2>1 DEF Remains
  <2> QED BY <1>1, <1>2, <1>3, <1>4, <2>2 DEF Effort
<1>5. CASE pc \notin {"first", "recv", "again"}
  <2>1. Effort' = Effort /\ Effort \in Nat
    BY <1>1, <1>2, <1>5 DEF Effort, Loop, TypeOK
  <2> QED BY <1>3, <2>1
<1> QED BY <1>4, <1>5

LEMMA LoopStep == TypeOK /\ LoopInv /\ [Next]_vars => LoopInv'
<1> SUFFICES ASSUME TypeOK, LoopInv, [Next]_vars PROVE LoopInv'
  OBVIOUS
<1>1. CASE UNCHANGED vars
  BY <1>1 DEF vars, config, LoopInv
<1>2. CASE Drop \/ Renew
  BY <1>2, LostShortens
<1>3. CASE Refused
  BY <1>3 DEF Refused, Return, LoopInv
<1>4. ASSUME NEW u \in Urls, Start(u) PROVE LoopInv'
  BY <1>4, DownloadAssumption DEF Start, Return, LoopInv
<1> QED BY <1>1, <1>2, <1>3, <1>4, DownloadShortens DEF Next

(* What is left to do is a natural number, every step of a download makes  *)
(* it smaller, and neither the DHCP client nor the end of the connection,  *)
(* which there can be once, makes it larger.  So only a step that is never *)
(* scheduled could keep DownloadEnds from holding, for any length of the   *)
(* content and any error codes.                                            *)
THEOREM DownloadAlwaysAdvances == Spec => [](Effort \in Nat) /\ DownloadAdvances
<1>1. TypeOK /\ LoopInv => Effort \in Nat
  <2> SUFFICES ASSUME TypeOK, LoopInv PROVE Effort \in Nat
    OBVIOUS
  <2>1. Remains \in Nat /\ got \in Nat
    BY RemainsType
  <2>2. pc \in {"out", "dns", "connect", "send", "erase", "first", "recv", "again"}
    BY DEF TypeOK
  <2> QED BY <2>1, <2>2, DownloadAssumption DEF Effort, Loop
<1>2. TypeOK /\ LoopInv /\ [Next]_vars
        => [pc # "out" => \/ Download /\ Effort' < Effort
                          \/ (Drop \/ Renew) /\ Effort' <= Effort]_vars
  BY DownloadShortens, LostShortens DEF Next, Refused, Start
<1>3. Spec => [](TypeOK /\ LoopInv)
  BY TypeInit, TypeStep, LoopInit, LoopStep, PTL DEF Spec
<1> QED BY <1>1, <1>2, <1>3, PTL DEF Spec, DownloadAdvances
=============================================================================
