------------------------------- MODULE EzTftp -------------------------------
(***************************************************************************)
(* The TFTP client of src/source/ezboot/main (tftp_cmd.c, net.c): the      *)
(* request, TftpResiveHandler, and the receive loop of TftpProcess with    *)
(* its timer, over a network that loses, duplicates and reorders packets.  *)
(* Commands start one download after the other into the same work memory.  *)
(*                                                                         *)
(* The client's port is always 6666 and the server's is not compared, so a *)
(* packet of an earlier download is a packet like any other.  The server   *)
(* is external: the usual lock-step sender with a port per request.        *)
(***************************************************************************)
EXTENDS Integers

CONSTANTS BLOCK,      \* bytes of a full block (512)
          PAD,        \* data bytes in the shortest Ethernet frame (14)
          BLKMOD,     \* block numbers are taken modulo this (2^16)
          File,       \* files the server has
          Length,     \* Length[f]: bytes of file f
          MAXGET,     \* bound: downloads
          MAXPORT,    \* bound: requests the server answers
          MAXDUP      \* bound: deliveries that leave a copy in the network

ASSUME TftpAssumption ==
  /\ {BLOCK, PAD, BLKMOD, MAXGET, MAXPORT, MAXDUP} \subseteq Nat
  /\ PAD < BLOCK
  /\ 0 \notin File
  /\ BLKMOD > 1
  /\ Length \in [File -> Nat]

VARIABLES state,      \* "none", in the receive loop ("busy"), or the result
          get,        \* which download it is
          file,       \* and of which file
          __TFTPLastBlockNumber,
          __TFTPResiveTotalSize,
          ram,        \* what is in the blocks behind DEFAULT_RAM_WORK_START
          timer,      \* timer 0: "free", "running" or "over"
          failed,     \* history: this download saw TFTP_STATE_FAILURE
          stale,      \* history: it used data sent for another download
          server,     \* external: what each port of the server sends
          net,        \* packets under way
          dup         \* deliveries that left a copy so far

client  == <<state, get, file, __TFTPLastBlockNumber, __TFTPResiveTotalSize,
             ram, timer, failed, stale>>
vars == <<client, server, net, dup>>

-----------------------------------------------------------------------------
Port == 1 .. MAXPORT

(* The last block is the one that is not full, if need be an empty one.    *)
Blocks == [f \in File |-> Length[f] \div BLOCK + 1]

Rest(f) == Length[f] % BLOCK

(* Blocks the work memory is filled with: numbers are 16 bits, 0 is none. *)
Slot == 1 .. BLKMOD - 1

NOTHING == [file |-> 0, num |-> 0]

Content == {NOTHING} \cup [file : File, num : Nat]

NoRequest == [get |-> 0, file |-> 0, num |-> 0]
Request == {NoRequest} \cup [get : 1 .. MAXGET, file : File, num : Nat]

RRQ(d, f)    == [op |-> "RRQ", get |-> d, file |-> f]
DATA(p, n)   == [op |-> "DATA", port |-> p, num |-> n]
OACK(p)      == [op |-> "OACK", port |-> p]
ERROR(p)     == [op |-> "ERROR", port |-> p]
ACK(p, n)    == [op |-> "ACK", port |-> p, num |-> n]

Packet ==
  [op : {"RRQ"}, get : 1 .. MAXGET, file : File] \cup
  [op : {"DATA"}, port : Port, num : Nat] \cup
  [op : {"OACK", "ERROR"}, port : Port] \cup
  [op : {"ACK"}, port : Port, num : 0 .. BLKMOD - 1]

(* A packet is delivered, and others are sent.  A copy may stay behind,    *)
(* duplicated by the network or sent again by a server that had no answer. *)
(* A packet that is never delivered is lost.                               *)
Deliver(m, sent) ==
  \/ net' = (net \ {m}) \cup sent /\ dup' = dup
  \/ net' = net \cup sent /\ dup < MAXDUP /\ dup' = dup + 1

Init == /\ state = "none"
        /\ get = 0
        /\ file \in File
        /\ __TFTPLastBlockNumber = 0
        /\ __TFTPResiveTotalSize = 0
        /\ ram = [n \in Slot |-> NOTHING]
        /\ timer = "free"
        /\ failed = FALSE
        /\ stale = FALSE
        /\ server = [p \in Port |-> NoRequest]
        /\ net = {}
        /\ dup = 0

-----------------------------------------------------------------------------
(* The client. *)

(* AutoRebuildNetworkInfo got no answer: nothing is asked for. *)
NoNetwork ==
  /\ state # "busy"
  /\ state' = "FALSE"
  /\ UNCHANGED <<get, file, __TFTPLastBlockNumber, __TFTPResiveTotalSize, ram,
                 timer, failed, stale, server, net, dup>>

(* Variant with a defect: the block number is that of the download before. *)
TftpProcess_goeson(f) ==
  /\ state # "busy"
  /\ get < MAXGET
  /\ state' = "busy"
  /\ get' = get + 1
  /\ file' = f
  /\ UNCHANGED __TFTPLastBlockNumber
  /\ __TFTPResiveTotalSize' = 0
  /\ timer' = "running"
  /\ net' = net \cup {RRQ(get + 1, f)}
  /\ failed' = FALSE
  /\ stale' = FALSE
  /\ UNCHANGED <<ram, server, dup>>

(* A command downloads file f: the request is sent, once. *)
TftpProcess(f) ==
  /\ state # "busy"
  /\ get < MAXGET
  /\ state' = "busy"
  /\ get' = get + 1
  /\ file' = f
  /\ __TFTPLastBlockNumber' = 0
  /\ __TFTPResiveTotalSize' = 0
  /\ timer' = "running"
  /\ net' = net \cup {RRQ(get + 1, f)}
  /\ failed' = FALSE
  /\ stale' = FALSE
  /\ UNCHANGED <<ram, server, dup>>

(* Variant with a defect: the number keeps all its bits. *)
BlockNumber_wide(m) == m.num

(* The block number in the packet, and DataSize, which is computed from    *)
(* the length of the frame: a short one was padded.                        *)
BlockNumber(m) == m.num % BLKMOD

Payload(f, n) == IF n < Blocks[f] THEN BLOCK ELSE Rest(f)

DataSize(m) == LET n == Payload(server[m.port].file, m.num)
               IN  IF n < PAD THEN PAD ELSE n

(* Variant with a defect: any other number counts. *)
IsNew_other(m) == __TFTPLastBlockNumber # BlockNumber(m)

IsNew(m) == __TFTPLastBlockNumber < BlockNumber(m)

(* A block number above the last one: the block is stored at its place. *)
Store(m) ==
  IF IsNew(m)
  THEN /\ __TFTPLastBlockNumber' = BlockNumber(m)
       /\ __TFTPResiveTotalSize' = __TFTPResiveTotalSize + DataSize(m)
       /\ ram' = [ram EXCEPT ![BlockNumber(m)] =
                     [file |-> server[m.port].file, num |-> m.num]]
  ELSE UNCHANGED <<__TFTPLastBlockNumber, __TFTPResiveTotalSize, ram>>

(* Data of another download that was stored or taken for the end. *)
Uses(m) == IsNew(m) \/ DataSize(m) < BLOCK

NoteStale(m) ==
  stale' = (stale \/ (server[m.port].get # get /\ Uses(m)))

(* Variant with a defect: the block expected next is acknowledged. *)
Acknowledge_next(m) ==
  Deliver(m, {ACK(m.port, (__TFTPLastBlockNumber' + 1) % BLKMOD)})

Acknowledge(m) == Deliver(m, {ACK(m.port, __TFTPLastBlockNumber')})

(* A full block, TFTP_STATE_DATA_OK: old ones are acknowledged too, with   *)
(* the number of the last one, and start the timer again.                  *)
ReceiveBlock ==
  /\ state = "busy"
  /\ \E m \in net :
       /\ m.op = "DATA"
       /\ BlockNumber(m) # 0
       /\ DataSize(m) = BLOCK
       /\ Store(m)
       /\ NoteStale(m)
       /\ Acknowledge(m)
  /\ timer' = "running"
  /\ UNCHANGED <<state, get, file, failed, server>>

(* Less than a full block, TFTP_STATE_END, whatever its number. *)
ReceiveLast ==
  /\ state = "busy"
  /\ \E m \in net :
       /\ m.op = "DATA"
       /\ BlockNumber(m) # 0
       /\ DataSize(m) < BLOCK
       /\ Store(m)
       /\ NoteStale(m)
       /\ Acknowledge(m)
  /\ state' = "TRUE"
  /\ timer' = "free"
  /\ UNCHANGED <<get, file, failed, server>>

ReceiveOACK ==
  /\ state = "busy"
  /\ \E m \in net : /\ m.op = "OACK"
                   /\ Deliver(m, {ACK(m.port, __TFTPLastBlockNumber)})
  /\ timer' = "running"
  /\ UNCHANGED <<state, get, file, __TFTPLastBlockNumber,
                 __TFTPResiveTotalSize, ram, failed, stale, server>>

Fails(m) == m.op = "ERROR" \/ (m.op = "DATA" /\ BlockNumber(m) = 0)

(* TFTP_STATE_FAILURE, for an error or block number 0: the break leaves    *)
(* the switch, and the loop goes on unless its time is over.               *)
ReceiveFailure ==
  /\ state = "busy"
  /\ \E m \in net : Fails(m) /\ Deliver(m, {})
  /\ failed' = TRUE
  /\ IF timer = "over" THEN state' = "FALSE" /\ timer' = "free"
                       ELSE UNCHANGED <<state, timer>>
  /\ UNCHANGED <<get, file, __TFTPLastBlockNumber, __TFTPResiveTotalSize, ram,
                 stale, server>>

(* Variant with a defect: the loop waits once more, every time. *)
TimeOverflow_again ==
  /\ state = "busy"
  /\ timer = "over"
  /\ timer' = "running"
  /\ UNCHANGED <<state, get, file, __TFTPLastBlockNumber,
                 __TFTPResiveTotalSize, ram, failed, stale, server, net, dup>>

(* Nothing was received in time. *)
TimeOverflow ==
  /\ state = "busy"
  /\ timer = "over"
  /\ state' = "FALSE"
  /\ timer' = "free"
  /\ UNCHANGED <<get, file, __TFTPLastBlockNumber, __TFTPResiveTotalSize, ram,
                 failed, stale, server, net, dup>>

(* Five seconds have passed. *)
TimerMatch ==
  /\ timer = "running"
  /\ timer' = "over"
  /\ UNCHANGED <<state, get, file, __TFTPLastBlockNumber,
                 __TFTPResiveTotalSize, ram, failed, stale, server, net, dup>>

Prompt == state # "busy" /\ UNCHANGED vars

Client == \/ NoNetwork
          \/ \E f \in File : TftpProcess(f)
          \/ ReceiveBlock
          \/ ReceiveLast
          \/ ReceiveOACK
          \/ ReceiveFailure
          \/ TimeOverflow
          \/ TimerMatch
          \/ Prompt

-----------------------------------------------------------------------------
(* The server: a request gets a port of its own and is answered with the   *)
(* options the client asked for, the first block, or an error.             *)

FreePort == {p \in Port : server[p].get = 0}

Answers(p) == { [num |-> 0, packet |-> OACK(p)],
                [num |-> 1, packet |-> DATA(p, 1)],
                [num |-> 0, packet |-> ERROR(p)] }

ServeRequest ==
  /\ \E m \in net, p \in FreePort :
       /\ m.op = "RRQ"
       /\ \A q \in FreePort : p <= q
       /\ \E a \in Answers(p) :
            /\ server' = [server EXCEPT ![p] =
                             [get |-> m.get, file |-> m.file, num |-> a.num]]
            /\ Deliver(m, {a.packet})
  /\ UNCHANGED client

(* The block under way is acknowledged: the next one is sent.  The server  *)
(* gives up at the block whose number would be 0, which the client never   *)
(* acknowledges.                                                           *)
ServeAck ==
  /\ \E m \in net :
       /\ m.op = "ACK"
       /\ server[m.port].num = m.num
       /\ m.num < Blocks[server[m.port].file]
       /\ server' = [server EXCEPT ![m.port].num = m.num + 1]
       /\ Deliver(m, {DATA(m.port, m.num + 1)})
  /\ UNCHANGED client

Server == ServeRequest \/ ServeAck

Next == Client \/ Server

Spec == Init /\ [][Next]_vars

(* The timer counts, and TftpProcess polls it when no packet is there.     *)
FairSpec == Spec /\ WF_vars(TimerMatch) /\ WF_vars(TimeOverflow)

-----------------------------------------------------------------------------
(* Properties *)

TypeOK ==
  /\ state \in {"none", "busy", "TRUE", "FALSE"}
  /\ get \in 0 .. MAXGET
  /\ file \in File
  /\ __TFTPLastBlockNumber \in 0 .. BLKMOD - 1
  /\ __TFTPResiveTotalSize \in Nat
  /\ ram \in [Slot -> Content]
  /\ timer \in {"free", "running", "over"}
  /\ failed \in BOOLEAN
  /\ stale \in BOOLEAN
  /\ server \in [Port -> Request]
  /\ net \subseteq Packet
  /\ dup \in 0 .. MAXDUP

(* TftpResiveHandler stores a block at the place its number says, and      *)
(* jumps over blocks that did not come: that there are none, that memory   *)
(* holds all blocks up to the last one, all of the file asked for, is the  *)
(* work of lock-step acknowledgements - until a packet of another download *)
(* is taken for one of this.                                               *)
PrefixStored ==
  state \in {"busy", "TRUE"} /\ ~ stale =>
    \A n \in 1 .. __TFTPLastBlockNumber : ram[n] = [file |-> file, num |-> n]

(* No acknowledgement on its way to the server of this download claims     *)
(* more than what is in memory, however packets were lost, repeated or     *)
(* overtaken, also with two servers answering one request.                 *)
AcksHonest ==
  ~ stale =>
    \A m \in net : m.op = "ACK" /\ server[m.port].get = get =>
                     m.num <= __TFTPLastBlockNumber

(* TRUE means the whole file: the last block came after all the others,    *)
(* and the size the commands go on with is the file's, too large by the    *)
(* padding when the last block was shorter than the smallest frame.        *)
SuccessComplete ==
  state = "TRUE" /\ ~ stale =>
    /\ __TFTPLastBlockNumber = Blocks[file]
    /\ __TFTPResiveTotalSize =
         Length[file] + (IF Rest(file) < PAD THEN PAD - Rest(file) ELSE 0)

(* TftpProcess comes to an end when packets stop coming. *)
DownloadEnds == state = "busy" ~> state # "busy"

(* "Stop all progress" (tftp_cmd.c:280): after an error a download does    *)
(* not succeed any more.                                                   *)
FailureStops == [][failed /\ state = "busy" => state' # "TRUE"]_vars

Transfer == INSTANCE FileTransfer WITH
              got     <- __TFTPLastBlockNumber,
              outcome <- state,
              spoiled <- stale

(* The loop, its timer and the network together do what FileTransfer       *)
(* promises.                                                               *)
TransferSpec == Transfer!Spec
=============================================================================
