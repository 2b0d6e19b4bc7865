---------------------------- MODULE EzTftpProofs ----------------------------
(***************************************************************************)
(* Theorems about EzTftp, for any files, block sizes and moduli, any       *)
(* number of downloads and any behaviour of the network.                   *)
(***************************************************************************)
EXTENDS EzTftp, TLAPS

Last == __TFTPLastBlockNumber
Size == __TFTPResiveTotalSize

(* The ports of the server know no download that was not started, and a    *)
(* port that serves this one sends its file.                               *)
Known == \A p \in Port :
           /\ server[p].get <= get
           /\ server[p].get = get /\ get # 0 => server[p].file = file

Asked == \A m \in net : m.op = "RRQ" => /\ m.get <= get
                                        /\ m.get = get => m.file = file

(* Packets come from, or go to, a port that serves a download, and it sent *)
(* no block it has not come to.                                            *)
Addressed == \A m \in net : m.op # "RRQ" => server[m.port].get # 0

Sent == \A m \in net : m.op = "DATA" =>
          /\ 1 <= m.num
          /\ m.num <= server[m.port].num
          /\ m.num <= Blocks[server[m.port].file]

(* No port of this download is more than one block ahead. *)
Lockstep == ~ stale => \A p \in Port : server[p].get = get /\ get # 0 =>
                                         server[p].num <= Last + 1

Stored == ~ stale => \A n \in 1 .. Last : ram[n] = [file |-> file, num |-> n]

Progress == state = "busy" /\ ~ stale => /\ Last < Blocks[file]
                                         /\ Size = Last * BLOCK

IInv == /\ TypeOK
        /\ Known
        /\ Asked
        /\ Addressed
        /\ Sent
        /\ Lockstep
        /\ AcksHonest
        /\ Stored
        /\ Progress
        /\ SuccessComplete

-----------------------------------------------------------------------------
(* Packets and numbers *)

LEMMA Deliveries ==
  ASSUME NEW m, NEW sent, Deliver(m, sent), TypeOK
  PROVE  net' \subseteq net \cup sent /\ dup' \in 0 .. MAXDUP
BY TftpAssumption DEF Deliver, TypeOK

LEMMA PacketKinds ==
  ASSUME TypeOK, NEW m \in net
  PROVE  /\ m.op = "RRQ" => m.get \in 1 .. MAXGET /\ m.file \in File
         /\ m.op # "RRQ" => m.port \in Port
         /\ m.op = "DATA" => m.num \in Nat
         /\ m.op = "ACK" => m.num \in 0 .. BLKMOD - 1
BY DEF TypeOK, Packet

LEMMA Lengths ==
  ASSUME NEW f \in File
  PROVE  /\ Blocks[f] \in Nat \ {0}
         /\ Rest(f) \in 0 .. BLOCK - 1
         /\ Length[f] = (Blocks[f] - 1) * BLOCK + Rest(f)
<1> DEFINE q == Length[f] \div BLOCK
           r == Length[f] % BLOCK
<1>1. Length[f] \in Nat /\ BLOCK \in Nat /\ BLOCK > 0
  BY TftpAssumption
<1>2. q \in Nat
  BY <1>1, SMTT(30)
<1>3. r \in 0 .. BLOCK - 1
  BY <1>1, SMTT(30)
<1>4. r = Length[f] - q * BLOCK
  BY <1>1, SMTT(30)
<1>5. Blocks[f] = q + 1 /\ Rest(f) = r
  BY DEF Blocks, Rest
<1> HIDE DEF q, r
<1>6. Blocks[f] - 1 = q
  BY <1>2, <1>5
<1>7. Length[f] = q * BLOCK + r
  BY <1>1, <1>2, <1>3, <1>4
<1> QED
  BY <1>2, <1>3, <1>5, <1>6, <1>7

(* A port that has a request serves a file. *)
LEMMA Serves ==
  ASSUME TypeOK, NEW p \in Port, server[p].get # 0
  PROVE  /\ server[p].get \in 1 .. MAXGET
         /\ server[p].file \in File
         /\ server[p].num \in Nat
BY DEF TypeOK, Request, NoRequest

(* What DataSize makes of a block. *)
LEMMA DataSizes ==
  ASSUME TypeOK, Addressed, Sent, NEW m \in net, m.op = "DATA"
  PROVE  LET f == server[m.port].file IN
         /\ DataSize(m) \in Nat
         /\ DataSize(m) <= BLOCK
         /\ m.num < Blocks[f] => DataSize(m) = BLOCK
         /\ m.num >= Blocks[f] =>
              /\ DataSize(m) = IF Rest(f) < PAD THEN PAD ELSE Rest(f)
              /\ DataSize(m) < BLOCK
<1> DEFINE f == server[m.port].file
<1>1. m.port \in Port /\ m.num \in Nat
  BY PacketKinds
<1>2. f \in File
  BY <1>1, Serves DEF Addressed
<1>3. Blocks[f] \in Nat /\ Rest(f) \in 0 .. BLOCK - 1
  BY <1>2, Lengths
<1>4. BLOCK \in Nat /\ PAD \in Nat /\ PAD < BLOCK
  BY TftpAssumption
<1>5. DataSize(m) = IF (IF m.num < Blocks[f] THEN BLOCK ELSE Rest(f)) < PAD
                    THEN PAD
                    ELSE IF m.num < Blocks[f] THEN BLOCK ELSE Rest(f)
  BY DEF DataSize, Payload
<1> QED
  BY <1>1, <1>3, <1>4, <1>5

(* A block of this download is the next one or an old one, and its number  *)
(* is the one in the packet.                                               *)
LEMMA NextOrOld ==
  ASSUME IInv, ~ stale, NEW m \in net, m.op = "DATA",
         server[m.port].get = get, BlockNumber(m) # 0
  PROVE  /\ BlockNumber(m) = m.num
         /\ m.num <= Last + 1
         /\ server[m.port].file = file
<1>1. m.port \in Port /\ m.num \in Nat
  BY PacketKinds DEF IInv
<1>2. get # 0
  BY DEF IInv, Addressed
<1>3. server[m.port].num \in Nat
  BY <1>1, <1>2, Serves DEF IInv
<1>4. m.num <= server[m.port].num
  BY DEF IInv, Sent
<1>5. server[m.port].num <= Last + 1
  BY <1>1, <1>2 DEF IInv, Lockstep
<1>6. BLKMOD \in Nat /\ Last \in 0 .. BLKMOD - 1
  BY TftpAssumption DEF IInv, TypeOK, Last
<1>7. m.num <= Last + 1 /\ m.num <= BLKMOD
  BY <1>1, <1>3, <1>4, <1>5, <1>6
<1>8. m.num # BLKMOD
  BY <1>6, TftpAssumption DEF BlockNumber
<1>9. m.num % BLKMOD = m.num
  BY <1>1, <1>6, <1>7, <1>8, TftpAssumption
<1> QED
  BY <1>1, <1>2, <1>7, <1>9 DEF BlockNumber, IInv, Known
-----------------------------------------------------------------------------
(* The invariant, step by step *)

LEMMA InitInv == Init => IInv
<1> SUFFICES ASSUME Init PROVE IInv
  OBVIOUS
<1>1. TypeOK
  <2>1. MAXGET \in Nat /\ MAXDUP \in Nat /\ BLKMOD \in Nat /\ BLKMOD > 1
    BY TftpAssumption
  <2>2. ram \in [Slot -> Content] /\ server \in [Port -> Request]
    BY DEF Init, Content, Request
  <2>3. state = "none" /\ get \in 0 .. MAXGET /\ file \in File
    BY <2>1 DEF Init
  <2>4. /\ __TFTPLastBlockNumber \in 0 .. BLKMOD - 1
        /\ __TFTPResiveTotalSize \in Nat
        /\ dup \in 0 .. MAXDUP
    BY <2>1 DEF Init
  <2>5. timer = "free" /\ failed = FALSE /\ stale = FALSE /\ net = {}
    BY DEF Init
  <2> QED
    BY <2>2, <2>3, <2>4, <2>5 DEF TypeOK
<1>2. get = 0 /\ net = {} /\ state = "none" /\ Last = 0
  BY DEF Init, Last
<1>3. \A p \in Port : server[p].get = 0
  BY DEF Init, NoRequest
<1> QED
  BY <1>1, <1>2, <1>3 DEF IInv, Known, Asked, Addressed, Sent, Lockstep,
     AcksHonest, Stored, Progress, SuccessComplete, Last

(* Steps that leave the download and the server as they are, and send at   *)
(* most acknowledgements of the last block.                                *)
LEMMA QuietInv ==
  ASSUME IInv,
         UNCHANGED <<get, file, __TFTPLastBlockNumber, __TFTPResiveTotalSize,
                     ram, stale, server>>,
         net' \subseteq net \cup {ACK(p, Last) : p \in {q \in Port : server[q].get # 0}},
         dup' \in 0 .. MAXDUP,
         timer' \in {"free", "running", "over"},
         failed' \in BOOLEAN,
         state' \in {state, "FALSE"}
  PROVE  IInv'
<1> DEFINE Acks == {ACK(p, Last) : p \in {q \in Port : server[q].get # 0}}
<1>1. Acks \subseteq Packet
  BY DEF IInv, TypeOK, ACK, Packet, Last
<1>2. \A m \in Acks : /\ m.op = "ACK" /\ m.num = Last
                      /\ server[m.port].get # 0
  BY DEF ACK
<1>3. Last \in Nat
  BY TftpAssumption DEF IInv, TypeOK, Last
<1>4. TypeOK'
  BY <1>1 DEF IInv, TypeOK
<1>5. Asked' /\ Addressed' /\ Sent'
  BY <1>2 DEF IInv, Asked, Addressed, Sent
<1>6. AcksHonest'
  BY <1>2, <1>3 DEF IInv, AcksHonest, Last
<1>7. Known' /\ Lockstep' /\ Stored'
  BY DEF IInv, Known, Lockstep, Stored, Last
<1>8. Progress' /\ SuccessComplete'
  BY DEF IInv, Progress, SuccessComplete, Last, Size
<1> QED
  BY <1>4, <1>5, <1>6, <1>7, <1>8 DEF IInv

LEMMA NoReceiveInv ==
  ASSUME IInv, NoNetwork \/ TimeOverflow \/ TimerMatch \/ Prompt
  PROVE  IInv'
<1>1. /\ UNCHANGED <<get, file, __TFTPLastBlockNumber, __TFTPResiveTotalSize,
                     ram, stale, server, net, dup, failed>>
      /\ state' \in {state, "FALSE"}
      /\ timer' \in {timer, "free", "over"}
  BY DEF NoNetwork, TimeOverflow, TimerMatch, Prompt, vars, client
<1>2. /\ dup' \in 0 .. MAXDUP /\ failed' \in BOOLEAN
      /\ timer' \in {"free", "running", "over"}
  BY <1>1 DEF IInv, TypeOK
<1> QED
  BY <1>1, <1>2, QuietInv

LEMMA OACKInv == IInv /\ ReceiveOACK => IInv'
<1> SUFFICES ASSUME IInv, ReceiveOACK PROVE IInv'
  OBVIOUS
<1>1. PICK m \in net : m.op = "OACK" /\ Deliver(m, {ACK(m.port, Last)})
  BY DEF ReceiveOACK, Last
<1>2. net' \subseteq net \cup {ACK(m.port, Last)} /\ dup' \in 0 .. MAXDUP
  BY <1>1, Deliveries DEF IInv
<1>3. m.port \in Port /\ server[m.port].get # 0
  BY <1>1, PacketKinds DEF IInv, Addressed
<1>4. /\ UNCHANGED <<get, file, __TFTPLastBlockNumber, __TFTPResiveTotalSize,
                     ram, stale, server>>
      /\ timer' = "running" /\ failed' \in BOOLEAN /\ state' = state
  BY DEF ReceiveOACK, IInv, TypeOK
<1>5. net' \subseteq net \cup {ACK(p, Last) : p \in {q \in Port : server[q].get # 0}}
  BY <1>2, <1>3
<1> QED
  BY <1>2, <1>4, <1>5, QuietInv

LEMMA FailureInv == IInv /\ ReceiveFailure => IInv'
<1> SUFFICES ASSUME IInv, ReceiveFailure PROVE IInv'
  OBVIOUS
<1>1. PICK m \in net : Deliver(m, {})
  BY DEF ReceiveFailure
<1>2. net' \subseteq net /\ dup' \in 0 .. MAXDUP
  BY <1>1, Deliveries DEF IInv
<1>3. /\ UNCHANGED <<get, file, __TFTPLastBlockNumber, __TFTPResiveTotalSize,
                     ram, stale, server>>
      /\ failed' \in BOOLEAN
      /\ state' \in {state, "FALSE"}
      /\ timer' \in {"free", "running", "over"}
  BY DEF ReceiveFailure, IInv, TypeOK
<1> QED
  BY <1>2, <1>3, QuietInv

LEMMA StartInv ==
  ASSUME IInv, NEW f \in File, TftpProcess(f)
  PROVE  IInv'
<1>1. /\ get \in 0 .. MAXGET /\ get < MAXGET
      /\ MAXGET \in Nat /\ BLOCK \in Nat /\ BLKMOD \in Nat /\ BLKMOD > 1
  BY TftpAssumption DEF TftpProcess, IInv, TypeOK
<1>2. /\ get' = get + 1 /\ file' = f /\ state' = "busy" /\ ~ stale'
      /\ Last' = 0 /\ Size' = 0 /\ server' = server
      /\ net' = net \cup {RRQ(get + 1, f)}
  BY DEF TftpProcess, Last, Size
<1>3. /\ RRQ(get + 1, f) \in Packet
      /\ RRQ(get + 1, f).op = "RRQ"
      /\ RRQ(get + 1, f).get = get + 1
      /\ RRQ(get + 1, f).file = f
  BY <1>1 DEF RRQ, Packet
<1>4. \A p \in Port : server[p].get < get'
  <2>1. \A p \in Port : server[p].get \in Int
    BY DEF IInv, TypeOK, Request, NoRequest
  <2> QED
    BY <1>1, <1>2, <2>1 DEF IInv, Known
<1>5. \A p \in Port : server[p].get <= get' /\ server[p].get # get'
  <2>1. \A p \in Port : server[p].get \in Int
    BY DEF IInv, TypeOK, Request, NoRequest
  <2> QED
    BY <1>1, <1>2, <1>4, <2>1
<1>6. \A m \in net : m.op = "RRQ" => m.get \in Int /\ m.get <= get
  BY PacketKinds DEF IInv, Asked
<1>7. TypeOK'
  <2>1. state' = "busy" /\ get' \in 0 .. MAXGET /\ file' \in File
    BY <1>1, <1>2
  <2>2. /\ __TFTPLastBlockNumber' \in 0 .. BLKMOD - 1
        /\ __TFTPResiveTotalSize' \in Nat
    BY <1>1 DEF TftpProcess
  <2>3. timer' = "running" /\ failed' = FALSE /\ stale' = FALSE
    BY DEF TftpProcess
  <2>4. /\ ram' \in [Slot -> Content]
        /\ server' \in [Port -> Request]
        /\ dup' \in 0 .. MAXDUP
    BY DEF TftpProcess, IInv, TypeOK
  <2>5. net' \subseteq Packet
    BY <1>2, <1>3 DEF IInv, TypeOK
  <2> QED
    BY <2>1, <2>2, <2>3, <2>4, <2>5 DEF TypeOK
<1>8. Known'
  BY <1>2, <1>5 DEF Known
<1>9. Asked'
  BY <1>1, <1>2, <1>3, <1>6 DEF Asked
<1>10. Addressed' /\ Sent'
  BY <1>2, <1>3 DEF IInv, Addressed, Sent
<1>11. Lockstep'
  BY <1>2, <1>5 DEF Lockstep
<1>12. AcksHonest'
  <2>1. \A m \in net' : m.op = "ACK" => m.port \in Port
    BY <1>2, <1>3, PacketKinds DEF IInv
  <2> QED
    BY <1>2, <1>5, <2>1 DEF AcksHonest
<1>13. Stored'
  BY <1>2 DEF Stored
<1>14. Progress'
  <2>1. Blocks[f] \in Nat \ {0}
    BY Lengths
  <2> QED
    BY <1>1, <1>2, <2>1 DEF Progress
<1>15. SuccessComplete'
  BY <1>2 DEF SuccessComplete
<1> QED
  BY <1>7, <1>8, <1>9, <1>10, <1>11, <1>12, <1>13, <1>14, <1>15 DEF IInv

(* What a data packet does to memory: nothing, or it adds the next block - *)
(* unless foreign data is noted.                                           *)
LEMMA Stores ==
  ASSUME IInv, NEW m \in net, m.op = "DATA", BlockNumber(m) # 0,
         Store(m), NoteStale(m)
  PROVE  /\ BlockNumber(m) \in Slot
         /\ Last' \in 0 .. BLKMOD - 1 /\ Last' >= Last
         /\ Size' \in Nat
         /\ ram' \in [Slot -> Content]
         /\ stale' \in BOOLEAN
         /\ stale => stale'
         /\ ~ stale' /\ ~ IsNew(m) =>
              Last' = Last /\ Size' = Size /\ ram' = ram
         /\ ~ stale' /\ (IsNew(m) \/ DataSize(m) < BLOCK) =>
              server[m.port].get = get /\ m.num <= Last + 1
         /\ ~ stale' /\ IsNew(m) =>
              /\ m.num = Last + 1 /\ Last' = Last + 1
              /\ Size' = Size + DataSize(m)
              /\ ram' = [ram EXCEPT ![Last + 1] =
                           [file |-> file, num |-> Last + 1]]
<1>1. /\ BLKMOD \in Nat /\ BLKMOD > 1 /\ Last \in 0 .. BLKMOD - 1 /\ Size \in Nat
      /\ stale \in BOOLEAN
  BY TftpAssumption DEF IInv, TypeOK, Last, Size
<1>2. m.port \in Port /\ m.num \in Nat
  BY PacketKinds DEF IInv
<1>3. BlockNumber(m) \in Slot
  BY <1>1, <1>2 DEF BlockNumber, Slot
<1>4. server[m.port].file \in File /\ DataSize(m) \in Nat
  BY <1>2, Serves, DataSizes DEF IInv, Addressed
<1>5. stale' = (stale \/ (server[m.port].get # get /\ Uses(m)))
  BY DEF NoteStale
<1>6. IsNew(m) <=> Last < BlockNumber(m)
  BY DEF IsNew, Last
<1>7. CASE ~ IsNew(m)
  <2>1. Last' = Last /\ Size' = Size /\ ram' = ram
    BY <1>7 DEF Store, Last, Size
  <2>2. ~ stale' /\ DataSize(m) < BLOCK =>
          server[m.port].get = get /\ m.num <= Last + 1
    BY <1>5, NextOrOld DEF Uses
  <2>3. ram \in [Slot -> Content]
    BY DEF IInv, TypeOK
  <2> QED
    BY <1>1, <1>3, <1>5, <1>7, <2>1, <2>2, <2>3
<1>8. CASE IsNew(m)
  <2> DEFINE c == [file |-> server[m.port].file, num |-> m.num]
  <2>1. /\ Last' = BlockNumber(m) /\ Size' = Size + DataSize(m)
        /\ ram' = [ram EXCEPT ![BlockNumber(m)] = c]
    BY <1>8 DEF Store, Last, Size
  <2>2. c \in Content
    BY <1>2, <1>4 DEF Content
  <2>3. ram' \in [Slot -> Content]
    BY <1>3, <2>1, <2>2 DEF IInv, TypeOK
  <2>4. ~ stale' => /\ server[m.port].get = get
                    /\ BlockNumber(m) = m.num
                    /\ m.num <= Last + 1
                    /\ server[m.port].file = file
    BY <1>5, <1>8, NextOrOld DEF Uses
  <2>5. Last < BlockNumber(m) /\ BlockNumber(m) \in 1 .. BLKMOD - 1
    BY <1>3, <1>6, <1>8 DEF Slot
  <2>6. ~ stale' => m.num = Last + 1
    BY <1>1, <1>2, <2>4, <2>5
  <2>7. Last' \in 0 .. BLKMOD - 1 /\ Last' >= Last /\ Size' \in Nat
    BY <1>1, <1>4, <2>1, <2>5
  <2>8. stale' \in BOOLEAN /\ (stale => stale')
    BY <1>1, <1>5
  <2> QED
    BY <1>3, <1>8, <2>1, <2>3, <2>4, <2>6, <2>7, <2>8
<1> QED
  BY <1>7, <1>8

(* What a data packet keeps, whether it is the last or not. *)
LEMMA DataInv ==
  ASSUME IInv, NEW m \in net, m.op = "DATA", BlockNumber(m) # 0,
         Store(m), NoteStale(m), Acknowledge(m),
         UNCHANGED <<get, file, failed, server>>,
         state' \in {"busy", "TRUE"},
         timer' \in {"free", "running"}
  PROVE  /\ TypeOK' /\ Known' /\ Asked' /\ Addressed' /\ Sent' /\ Lockstep'
         /\ AcksHonest' /\ Stored'
<1>1. /\ BlockNumber(m) \in Slot
      /\ Last' \in 0 .. BLKMOD - 1 /\ Last' >= Last
      /\ Size' \in Nat
      /\ ram' \in [Slot -> Content]
      /\ stale' \in BOOLEAN
      /\ stale => stale'
      /\ ~ stale' /\ ~ IsNew(m) => Last' = Last /\ ram' = ram
      /\ ~ stale' /\ IsNew(m) =>
           /\ Last' = Last + 1
           /\ ram' = [ram EXCEPT ![Last + 1] =
                        [file |-> file, num |-> Last + 1]]
  BY Stores
<1>2. m.port \in Port /\ server[m.port].get # 0
  BY PacketKinds DEF IInv, Addressed
<1>3. net' \subseteq net \cup {ACK(m.port, Last')} /\ dup' \in 0 .. MAXDUP
  <2>1. Deliver(m, {ACK(m.port, Last')})
    BY DEF Acknowledge, Last
  <2> QED
    BY <2>1, Deliveries DEF IInv
<1>4. /\ ACK(m.port, Last') \in Packet
      /\ ACK(m.port, Last').op = "ACK"
      /\ ACK(m.port, Last').port = m.port
      /\ ACK(m.port, Last').num = Last'
  BY <1>1, <1>2 DEF ACK, Packet
<1>5. Last \in 0 .. BLKMOD - 1 /\ BLKMOD \in Nat
  BY TftpAssumption DEF IInv, TypeOK, Last
<1>6. TypeOK'
  <2>1. get' \in 0 .. MAXGET /\ file' \in File /\ failed' \in BOOLEAN
    BY DEF IInv, TypeOK
  <2>2. server' \in [Port -> Request]
    BY DEF IInv, TypeOK
  <2>3. net' \subseteq Packet
    BY <1>3, <1>4 DEF IInv, TypeOK
  <2>4. /\ __TFTPLastBlockNumber' \in 0 .. BLKMOD - 1
        /\ __TFTPResiveTotalSize' \in Nat
    BY <1>1 DEF Last, Size
  <2> QED
    BY <1>1, <1>3, <2>1, <2>2, <2>3, <2>4 DEF TypeOK
<1>7. Known' /\ Asked' /\ Addressed' /\ Sent'
  BY <1>2, <1>3, <1>4 DEF IInv, Known, Asked, Addressed, Sent
<1>8. Lockstep'
  <2> SUFFICES ASSUME ~ stale', NEW p \in Port,
                      server[p].get = get, get # 0
               PROVE  server[p].num <= Last' + 1
    BY DEF Lockstep
  <2>1. server[p].num \in Nat
    BY Serves DEF IInv
  <2>2. server[p].num <= Last + 1
    BY <1>1 DEF IInv, Lockstep
  <2> QED
    BY <1>1, <1>5, <2>1, <2>2
<1>9. AcksHonest'
  <2> SUFFICES ASSUME ~ stale', NEW a \in net', a.op = "ACK",
                      server[a.port].get = get
               PROVE  a.num <= Last'
    BY DEF AcksHonest, Last
  <2>1. CASE a \in net
    <3>1. a.num \in 0 .. BLKMOD - 1
      BY <2>1, PacketKinds DEF IInv
    <3>2. a.num <= Last
      BY <1>1, <2>1 DEF IInv, AcksHonest, Last
    <3> QED
      BY <1>1, <1>5, <3>1, <3>2
  <2>2. CASE a = ACK(m.port, Last')
    BY <1>1, <1>4, <1>5, <2>2
  <2> QED
    BY <1>3, <2>1, <2>2
<1>10. Stored'
  <2> SUFFICES ASSUME ~ stale', NEW n \in 1 .. Last'
               PROVE  ram'[n] = [file |-> file, num |-> n]
    BY DEF Stored
  <2>1. \A k \in 1 .. Last : ram[k] = [file |-> file, num |-> k]
    BY <1>1 DEF IInv, Stored
  <2>2. CASE ~ IsNew(m)
    BY <1>1, <2>1, <2>2
  <2>3. CASE IsNew(m)
    <3>1. ram \in [Slot -> Content] /\ n \in Slot
      BY <1>1, <1>5 DEF IInv, TypeOK, Slot
    <3>2. ram' = [ram EXCEPT ![Last + 1] = [file |-> file, num |-> Last + 1]]
      BY <1>1, <2>3
    <3>3. n \in 1 .. Last \/ n = Last + 1
      BY <1>1, <1>5, <2>3
    <3> QED
      BY <1>5, <2>1, <3>1, <3>2, <3>3
  <2> QED
    BY <2>2, <2>3
<1> QED
  BY <1>6, <1>7, <1>8, <1>9, <1>10

LEMMA BlockInv == IInv /\ ReceiveBlock => IInv'
<1> SUFFICES ASSUME IInv, ReceiveBlock PROVE IInv'
  OBVIOUS
<1>1. PICK m \in net : /\ m.op = "DATA" /\ BlockNumber(m) # 0
                       /\ DataSize(m) = BLOCK
                       /\ Store(m) /\ NoteStale(m) /\ Acknowledge(m)
  BY DEF ReceiveBlock
<1>2. /\ state = "busy" /\ state' = "busy" /\ timer' = "running"
      /\ UNCHANGED <<get, file, failed, server>>
  BY DEF ReceiveBlock
<1>3. /\ TypeOK' /\ Known' /\ Asked' /\ Addressed' /\ Sent' /\ Lockstep'
      /\ AcksHonest' /\ Stored'
  BY <1>1, <1>2, DataInv
<1>4. Progress'
  <2> SUFFICES ASSUME ~ stale'
               PROVE  Last' < Blocks[file] /\ Size' = Last' * BLOCK
    BY <1>2 DEF Progress
  <2>1. /\ ~ stale
        /\ ~ IsNew(m) => Last' = Last /\ Size' = Size
        /\ IsNew(m) => /\ server[m.port].get = get
                       /\ m.num = Last + 1 /\ Last' = Last + 1
                       /\ Size' = Size + BLOCK
    BY <1>1, Stores
  <2>2. Last < Blocks[file] /\ Size = Last * BLOCK
    BY <1>2, <2>1 DEF IInv, Progress
  <2>3. CASE ~ IsNew(m)
    BY <2>1, <2>2, <2>3
  <2>4. CASE IsNew(m)
    <3>1. /\ Last \in Nat /\ BLOCK \in Nat /\ m.num \in Nat /\ file \in File
          /\ m.port \in Port
      BY <1>1, PacketKinds, TftpAssumption DEF IInv, TypeOK, Last
    <3>2. server[m.port].file = file
      BY <1>1, <2>1, <2>4, NextOrOld
    <3>3. Blocks[file] \in Nat
      BY <3>1, Lengths
    <3>4. m.num < Blocks[file]
      BY <1>1, <3>1, <3>2, <3>3, DataSizes DEF IInv
    <3>5. (Last + 1) * BLOCK = Last * BLOCK + BLOCK
      BY <3>1
    <3> QED
      BY <2>1, <2>2, <2>4, <3>4, <3>5
  <2> QED
    BY <2>3, <2>4
<1>5. SuccessComplete'
  BY <1>2 DEF SuccessComplete
<1> QED
  BY <1>3, <1>4, <1>5 DEF IInv

(* The last block comes after all the others. *)
LEMMA LastArrives ==
  ASSUME IInv, state = "busy", NEW m \in net, m.op = "DATA",
         BlockNumber(m) # 0, DataSize(m) < BLOCK, Store(m), NoteStale(m),
         ~ stale'
  PROVE  /\ Last' = Last + 1 /\ Last' = Blocks[file]
         /\ Size' = Length[file] + (IF Rest(file) < PAD THEN PAD - Rest(file) ELSE 0)
<1>1. /\ Last \in Nat /\ BLOCK \in Nat /\ PAD \in Nat /\ m.num \in Nat
      /\ file \in File /\ m.port \in Port
  BY PacketKinds, TftpAssumption DEF IInv, TypeOK, Last
<1>2. ~ stale /\ server[m.port].get = get
  BY Stores
<1>3. /\ BlockNumber(m) = m.num /\ m.num <= Last + 1
      /\ server[m.port].file = file
  BY <1>2, NextOrOld
<1>4. Last < Blocks[file] /\ Size = Last * BLOCK
  BY <1>2 DEF IInv, Progress
<1>5. /\ Blocks[file] \in Nat /\ Rest(file) \in 0 .. BLOCK - 1
      /\ Length[file] = (Blocks[file] - 1) * BLOCK + Rest(file)
  BY <1>1, Lengths
<1>6. m.num >= Blocks[file]
  BY <1>1, <1>3, <1>5, DataSizes DEF IInv
<1>7. m.num = Last + 1 /\ Blocks[file] = Last + 1
  BY <1>1, <1>3, <1>4, <1>5, <1>6
<1>8. IsNew(m)
  BY <1>1, <1>3, <1>7 DEF IsNew, Last
<1>9. Last' = Last + 1 /\ Size' = Size + DataSize(m)
  BY <1>8, Stores
<1>10. DataSize(m) = IF Rest(file) < PAD THEN PAD ELSE Rest(file)
  BY <1>3, <1>6, DataSizes DEF IInv
<1>11. Length[file] = Last * BLOCK + Rest(file) /\ Last * BLOCK \in Nat
  <2>1. Blocks[file] - 1 = Last
    BY <1>1, <1>7
  <2> QED
    BY <1>1, <1>5, <2>1
<1> DEFINE x == Last * BLOCK
<1> HIDE DEF x
<1>12. Length[file] = x + Rest(file) /\ x \in Nat /\ Size = x
  BY <1>4, <1>11 DEF x
<1>13. Size' = Length[file] + (IF Rest(file) < PAD THEN PAD - Rest(file) ELSE 0)
  BY <1>1, <1>5, <1>9, <1>10, <1>12
<1> QED
  BY <1>7, <1>9, <1>13

LEMMA LastInv == IInv /\ ReceiveLast => IInv'
<1> SUFFICES ASSUME IInv, ReceiveLast PROVE IInv'
  OBVIOUS
<1>1. PICK m \in net : /\ m.op = "DATA" /\ BlockNumber(m) # 0
                       /\ DataSize(m) < BLOCK
                       /\ Store(m) /\ NoteStale(m) /\ Acknowledge(m)
  BY DEF ReceiveLast
<1>2. /\ state = "busy" /\ state' = "TRUE" /\ timer' = "free"
      /\ UNCHANGED <<get, file, failed, server>>
  BY DEF ReceiveLast
<1>3. /\ TypeOK' /\ Known' /\ Asked' /\ Addressed' /\ Sent' /\ Lockstep'
      /\ AcksHonest' /\ Stored'
  BY <1>1, <1>2, DataInv
<1>4. Progress'
  BY <1>2 DEF Progress
<1>5. SuccessComplete'
  BY <1>1, <1>2, LastArrives DEF SuccessComplete, Last, Size
<1> QED
  BY <1>3, <1>4, <1>5 DEF IInv

(* The server serves requests of downloads that were started, each at a    *)
(* port that had none.                                                     *)
LEMMA ServeRequestInv == IInv /\ ServeRequest => IInv'
<1> SUFFICES ASSUME IInv, ServeRequest PROVE IInv'
  OBVIOUS
<1>0. PICK m \in net, p \in FreePort :
        /\ m.op = "RRQ"
        /\ \E a \in Answers(p) :
             /\ server' = [server EXCEPT ![p] =
                             [get |-> m.get, file |-> m.file, num |-> a.num]]
             /\ Deliver(m, {a.packet})
  BY DEF ServeRequest
<1>1. PICK a \in Answers(p) :
        /\ m.op = "RRQ"
        /\ server' = [server EXCEPT ![p] =
                        [get |-> m.get, file |-> m.file, num |-> a.num]]
        /\ Deliver(m, {a.packet})
  BY <1>0
<1>2. p \in Port /\ server[p].get = 0
  BY DEF FreePort
<1>3. m.get \in 1 .. MAXGET /\ m.file \in File
  BY <1>1, PacketKinds DEF IInv
<1>4. /\ a.num \in {0, 1}
      /\ a.packet \in Packet
      /\ a.packet.op \in {"OACK", "DATA", "ERROR"}
      /\ a.packet.port = p
      /\ a.packet.op = "DATA" => a.packet.num = 1 /\ a.num = 1
  BY <1>2 DEF Answers, OACK, DATA, ERROR, Packet
<1>5. net' \subseteq net \cup {a.packet} /\ dup' \in 0 .. MAXDUP
  BY <1>1, Deliveries DEF IInv
<1>6. UNCHANGED client
  BY DEF ServeRequest
<1>7. server \in [Port -> Request]
  BY DEF IInv, TypeOK
<1>8. /\ server'[p].get = m.get /\ server'[p].file = m.file
      /\ server'[p].num = a.num
      /\ \A q \in Port : q # p => server'[q] = server[q]
  BY <1>1, <1>2, <1>7
<1>9. \A x \in net : x.op # "RRQ" => x.port \in Port /\ x.port # p
  BY <1>2, PacketKinds DEF IInv, Addressed
<1>10. TypeOK'
  <2>1. server' \in [Port -> Request]
    <3>1. [get |-> m.get, file |-> m.file, num |-> a.num] \in Request
      BY <1>3, <1>4 DEF Request
    <3> QED
      BY <1>1, <1>7, <3>1
  <2>2. net' \subseteq Packet
    BY <1>4, <1>5 DEF IInv, TypeOK
  <2> QED
    BY <1>5, <1>6, <2>1, <2>2 DEF IInv, TypeOK, client
<1>11. Known' /\ Asked'
  <2>1. m.get <= get /\ (m.get = get => m.file = file)
    BY <1>1 DEF IInv, Asked
  <2>2. Known'
    BY <1>6, <1>8, <2>1 DEF IInv, Known, client
  <2>3. Asked'
    BY <1>4, <1>5, <1>6 DEF IInv, Asked, client
  <2> QED
    BY <2>2, <2>3
<1>12. Addressed'
  BY <1>3, <1>4, <1>5, <1>8, <1>9 DEF IInv, Addressed
<1>13. Sent'
  <2> SUFFICES ASSUME NEW x \in net', x.op = "DATA"
               PROVE  /\ 1 <= x.num /\ x.num <= server'[x.port].num
                      /\ x.num <= Blocks[server'[x.port].file]
    BY DEF Sent
  <2>1. CASE x \in net
    BY <1>8, <1>9, <2>1 DEF IInv, Sent
  <2>2. CASE x = a.packet
    <3>1. Blocks[m.file] \in Nat \ {0}
      BY <1>3, Lengths
    <3> QED
      BY <1>4, <1>8, <2>2, <3>1
  <2> QED
    BY <1>5, <2>1, <2>2
<1>14. Lockstep'
  <2>1. Last \in Nat
    BY TftpAssumption DEF IInv, TypeOK, Last
  <2> QED
    BY <1>4, <1>6, <1>8, <2>1 DEF IInv, Lockstep, Last, client
<1>15. AcksHonest'
  BY <1>4, <1>5, <1>6, <1>8, <1>9 DEF IInv, AcksHonest, client
<1>16. Stored' /\ Progress' /\ SuccessComplete'
  BY <1>6 DEF IInv, Stored, Progress, SuccessComplete, Last, Size, client
<1> QED
  BY <1>10, <1>11, <1>12, <1>13, <1>14, <1>15, <1>16 DEF IInv

(* An honest acknowledgement is why the next block is the next.            *)
LEMMA ServeAckInv == IInv /\ ServeAck => IInv'
<1> SUFFICES ASSUME IInv, ServeAck PROVE IInv'
  OBVIOUS
<1>1. PICK m \in net :
        /\ m.op = "ACK"
        /\ server[m.port].num = m.num
        /\ m.num < Blocks[server[m.port].file]
        /\ server' = [server EXCEPT ![m.port].num = m.num + 1]
        /\ Deliver(m, {DATA(m.port, m.num + 1)})
  BY DEF ServeAck
<1> DEFINE p == m.port
           d == DATA(m.port, m.num + 1)
<1>2. p \in Port /\ m.num \in 0 .. BLKMOD - 1 /\ BLKMOD \in Nat
  BY <1>1, PacketKinds, TftpAssumption DEF IInv
<1>3. server[p].get # 0
  BY <1>1 DEF IInv, Addressed
<1>4. /\ server[p].get \in 1 .. MAXGET /\ server[p].file \in File
      /\ server[p].num \in Nat
  BY <1>2, <1>3, Serves DEF IInv
<1>5. Blocks[server[p].file] \in Nat
  BY <1>4, Lengths
<1>6. d \in Packet /\ d.op = "DATA" /\ d.port = p /\ d.num = m.num + 1
  BY <1>2 DEF DATA, Packet
<1>7. net' \subseteq net \cup {d} /\ dup' \in 0 .. MAXDUP
  BY <1>1, Deliveries DEF IInv
<1>8. UNCHANGED client
  BY DEF ServeAck
<1>9. server \in [Port -> Request]
  BY DEF IInv, TypeOK
<1>10. server[p] \in [get : 1 .. MAXGET, file : File, num : Nat]
  BY <1>2, <1>3, <1>9 DEF Request, NoRequest
<1>11. server' = [server EXCEPT ![p] = [server[p] EXCEPT !.num = m.num + 1]]
  BY <1>1
<1>12. [server[p] EXCEPT !.num = m.num + 1]
         = [get |-> server[p].get, file |-> server[p].file, num |-> m.num + 1]
  BY <1>10
<1>13. /\ server'[p].get = server[p].get
       /\ server'[p].file = server[p].file
       /\ server'[p].num = m.num + 1
       /\ \A q \in Port : q # p => server'[q] = server[q]
  BY <1>2, <1>9, <1>11, <1>12
<1>14. \A x \in net : x.op # "RRQ" => x.port \in Port
  BY PacketKinds DEF IInv
<1>15. TypeOK'
  <2>1. server' \in [Port -> Request]
    BY <1>2, <1>4, <1>9, <1>11, <1>12 DEF Request
  <2>2. net' \subseteq Packet
    BY <1>6, <1>7 DEF IInv, TypeOK
  <2> QED
    BY <1>7, <1>8, <2>1, <2>2 DEF IInv, TypeOK, client
<1>16. \A q \in Port : /\ server'[q].get = server[q].get
                       /\ server'[q].file = server[q].file
  BY <1>13
<1>17. Known' /\ Asked' /\ Addressed'
  BY <1>2, <1>3, <1>6, <1>7, <1>8, <1>14, <1>16
     DEF IInv, Known, Asked, Addressed, client
<1>18. Sent'
  <2> SUFFICES ASSUME NEW x \in net', x.op = "DATA"
               PROVE  /\ 1 <= x.num /\ x.num <= server'[x.port].num
                      /\ x.num <= Blocks[server'[x.port].file]
    BY DEF Sent
  <2>1. CASE x \in net
    <3>1. /\ x.port \in Port /\ x.num \in Nat /\ 1 <= x.num
          /\ x.num <= server[x.port].num
          /\ x.num <= Blocks[server[x.port].file]
      BY <1>14, <2>1, PacketKinds DEF IInv, Sent
    <3>2. CASE x.port = p
      BY <1>1, <1>2, <1>13, <3>1, <3>2
    <3>3. CASE x.port # p
      BY <1>13, <3>1, <3>3
    <3> QED
      BY <3>2, <3>3
  <2>2. CASE x = d
    BY <1>1, <1>2, <1>5, <1>6, <1>13, <2>2
  <2> QED
    BY <1>7, <2>1, <2>2
<1>19. Lockstep'
  <2> SUFFICES ASSUME ~ stale, NEW q \in Port, server[q].get = get, get # 0
               PROVE  server'[q].num <= Last + 1
    BY <1>8, <1>16 DEF Lockstep, Last, client
  <2>1. CASE q = p
    <3>1. m.num <= Last
      BY <1>1, <2>1 DEF IInv, AcksHonest, Last
    <3>2. Last \in Nat
      BY TftpAssumption DEF IInv, TypeOK, Last
    <3> QED
      BY <1>2, <1>13, <2>1, <3>1, <3>2
  <2>2. CASE q # p
    BY <1>13, <2>2 DEF IInv, Lockstep
  <2> QED
    BY <2>1, <2>2
<1>20. AcksHonest'
  <2> SUFFICES ASSUME ~ stale, NEW x \in net', x.op = "ACK",
                      server'[x.port].get = get
               PROVE  x.num <= __TFTPLastBlockNumber
    BY <1>8 DEF AcksHonest, client
  <2>1. x \in net
    BY <1>6, <1>7
  <2> QED
    BY <1>14, <1>16, <2>1 DEF IInv, AcksHonest
<1>21. Stored' /\ Progress' /\ SuccessComplete'
  BY <1>8 DEF IInv, Stored, Progress, SuccessComplete, Last, Size, client
<1> QED
  BY <1>15, <1>17, <1>18, <1>19, <1>20, <1>21 DEF IInv

LEMMA NextInv == IInv /\ [Next]_vars => IInv'
<1> SUFFICES ASSUME IInv, [Next]_vars PROVE IInv'
  OBVIOUS
<1>1. CASE NoNetwork \/ TimeOverflow \/ TimerMatch \/ Prompt
  BY <1>1, NoReceiveInv
<1>2. ASSUME NEW f \in File, TftpProcess(f) PROVE IInv'
  BY <1>2, StartInv
<1>3. CASE ReceiveBlock
  BY <1>3, BlockInv
<1>4. CASE ReceiveLast
  BY <1>4, LastInv
<1>5. CASE ReceiveOACK
  BY <1>5, OACKInv
<1>6. CASE ReceiveFailure
  BY <1>6, FailureInv
<1>7. CASE ServeRequest
  BY <1>7, ServeRequestInv
<1>8. CASE ServeAck
  BY <1>8, ServeAckInv
<1>9. CASE UNCHANGED vars
  BY <1>9 DEF IInv, TypeOK, Known, Asked, Addressed, Sent, Lockstep,
     AcksHonest, Stored, Progress, SuccessComplete, Last, Size, vars, client
<1> QED
  BY <1>1, <1>2, <1>3, <1>4, <1>5, <1>6, <1>7, <1>8, <1>9
     DEF Next, Client, Server

LEMMA Inductive == Spec => []IInv
<1> QED
  BY InitInv, NextInv, PTL DEF Spec

-----------------------------------------------------------------------------
(* The theorems *)

(* Every variable of the client and of the network keeps its type: the     *)
(* block number stays a 16-bit one, memory is written inside its slots.    *)
THEOREM TypeCorrect == Spec => []TypeOK
<1>1. IInv => TypeOK
  BY DEF IInv
<1> QED
  BY <1>1, Inductive, PTL

(* Acknowledgements never claim a block that is not in memory.             *)
THEOREM AcksAreHonest == Spec => []AcksHonest
<1>1. IInv => AcksHonest
  BY DEF IInv
<1> QED
  BY <1>1, Inductive, PTL

(* Memory holds the blocks of the file asked for, without a hole.          *)
THEOREM PrefixIntact == Spec => []PrefixStored
<1>1. IInv => PrefixStored
  BY DEF IInv, Stored, PrefixStored, Last
<1> QED
  BY <1>1, Inductive, PTL

(* A download that returns TRUE has the whole file.                        *)
THEOREM SuccessIsComplete == Spec => []SuccessComplete
<1>1. IInv => SuccessComplete
  BY DEF IInv
<1> QED
  BY <1>1, Inductive, PTL

LEMMA TransferStep ==
  ASSUME IInv, IInv', [Next]_vars
  PROVE  [Transfer!Next]_(Transfer!vars)
<1>0. stale \in BOOLEAN /\ stale' \in BOOLEAN /\ Last \in Nat
  BY TftpAssumption DEF IInv, TypeOK, Last
<1> USE DEF Transfer!Next, Transfer!vars
<1>1. CASE NoNetwork
  BY <1>1 DEF NoNetwork, Transfer!Refuse
<1>2. ASSUME NEW f \in File, TftpProcess(f)
      PROVE  [Transfer!Next]_(Transfer!vars)
  BY <1>2 DEF TftpProcess, Transfer!Begin
<1>3. CASE ReceiveBlock
  <2>1. PICK m \in net : /\ m.op = "DATA" /\ BlockNumber(m) # 0
                         /\ DataSize(m) = BLOCK
                         /\ Store(m) /\ NoteStale(m)
    BY <1>3 DEF ReceiveBlock
  <2>2. state = "busy" /\ state' = state /\ file' = file
    BY <1>3 DEF ReceiveBlock
  <2>3. CASE stale'
    BY <1>0, <2>2, <2>3 DEF Transfer!Spoil
  <2>4. CASE ~ stale'
    <3>1. /\ ~ stale
          /\ ~ IsNew(m) => Last' = Last
          /\ IsNew(m) => Last' = Last + 1
      BY <2>1, <2>4, Stores
    <3>2. Last' < Blocks[file]
      BY <2>2, <2>4 DEF IInv, Progress
    <3> QED
      BY <1>0, <2>2, <2>4, <3>1, <3>2 DEF Transfer!NextBlock, Last
  <2> QED
    BY <2>3, <2>4
<1>4. CASE ReceiveLast
  <2>1. PICK m \in net : /\ m.op = "DATA" /\ BlockNumber(m) # 0
                         /\ DataSize(m) < BLOCK
                         /\ Store(m) /\ NoteStale(m)
    BY <1>4 DEF ReceiveLast
  <2>2. state = "busy" /\ state' = "TRUE" /\ file' = file
    BY <1>4 DEF ReceiveLast
  <2>3. CASE stale'
    BY <1>0, <2>2, <2>3 DEF Transfer!Spoil
  <2>4. CASE ~ stale'
    <3>1. ~ stale
      BY <2>1, <2>4, Stores
    <3>2. Last' = Last + 1 /\ Last' = Blocks[file]
      BY <2>1, <2>2, <2>4, LastArrives
    <3> QED
      BY <1>0, <2>2, <2>4, <3>1, <3>2 DEF Transfer!LastBlock, Last
  <2> QED
    BY <2>3, <2>4
<1>5. CASE ReceiveOACK
  BY <1>5 DEF ReceiveOACK
<1>6. CASE ReceiveFailure \/ TimeOverflow
  <2>1. /\ state = "busy" /\ state' \in {state, "FALSE"}
        /\ UNCHANGED <<file, __TFTPLastBlockNumber, stale>>
    BY <1>6 DEF ReceiveFailure, TimeOverflow
  <2> QED
    BY <1>0, <2>1 DEF Transfer!GiveUp, Transfer!Spoil
<1>7. CASE TimerMatch \/ Prompt
  BY <1>7 DEF TimerMatch, Prompt, vars, client
<1>8. CASE ServeRequest \/ ServeAck
  BY <1>8 DEF ServeRequest, ServeAck, client
<1>9. CASE UNCHANGED vars
  BY <1>9 DEF vars, client
<1> QED
  BY <1>1, <1>2, <1>3, <1>4, <1>5, <1>6, <1>7, <1>8, <1>9
     DEF Next, Client, Server

(* The loop, its timer and the network together implement FileTransfer:    *)
(* blocks of one file, in order, and TRUE only with the last.              *)
THEOREM ImplementsFileTransfer == Spec => TransferSpec
<1>1. Init => Transfer!Init
  BY DEF Init, Transfer!Init
<1>2. IInv /\ IInv' /\ [Next]_vars => [Transfer!Next]_(Transfer!vars)
  BY TransferStep
<1> QED
  BY <1>1, <1>2, Inductive, PTL DEF Spec, TransferSpec, Transfer!Spec

-----------------------------------------------------------------------------
(* The part of DownloadEnds that does not need fairness: TftpProcess waits *)
(* under its timer all the time, whatever packet restarted it, and every   *)
(* way out of the loop gives the timer back, so the next download has one. *)
TimerGuards == state = "busy" <=> timer # "free"

THEOREM WaitsUnderTimer == Spec => []TimerGuards
<1>1. Init => TimerGuards
  BY DEF Init, TimerGuards
<1>2. TimerGuards /\ [Next]_vars => TimerGuards'
  <2> SUFFICES ASSUME TimerGuards, [Next]_vars PROVE TimerGuards'
    OBVIOUS
  <2> USE DEF TimerGuards
  <2>1. CASE NoNetwork \/ TimeOverflow \/ TimerMatch
    BY <2>1 DEF NoNetwork, TimeOverflow, TimerMatch
  <2>2. ASSUME NEW f \in File, TftpProcess(f) PROVE TimerGuards'
    BY <2>2 DEF TftpProcess
  <2>3. CASE ReceiveBlock \/ ReceiveOACK
    BY <2>3 DEF ReceiveBlock, ReceiveOACK
  <2>4. CASE ReceiveLast
    BY <2>4 DEF ReceiveLast
  <2>5. CASE ReceiveFailure
    BY <2>5 DEF ReceiveFailure
  <2>6. CASE Prompt \/ Server \/ UNCHANGED vars
    BY <2>6 DEF Prompt, Server, ServeRequest, ServeAck, client, vars
  <2>. QED BY <2>1, <2>2, <2>3, <2>4, <2>5, <2>6 DEF Next, Client
<1> QED
  BY <1>1, <1>2, PTL DEF Spec
=============================================================================
