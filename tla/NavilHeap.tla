------------------------------ MODULE NavilHeap ------------------------------
(***************************************************************************)
(* The heap of src/navilnux/chap16_driver: mem_malloc and mem_free of      *)
(* navilnux_memory.c.  The heap is a chain of blocks from heap_start to    *)
(* used_end, each behind a header [used, size]; size counts the header.    *)
(* mem_malloc walks the chain for the first free block that is big enough, *)
(* takes the whole of it, and otherwise appends a block.  Nothing is split *)
(* or merged.                                                              *)
(*                                                                         *)
(* Both routines run inside a system call with interrupts masked: one call *)
(* runs at a time.  The walk is modelled one header per step, so that      *)
(* whether it ends is a question the model can answer.                     *)
(***************************************************************************)
EXTENDS Integers

CONSTANTS Task,
          HDR,         \* sizeof(Dy_mem_header)
          HEAP_START,  \* STARTDYMEMADDR
          HEAP_END,    \* ENDUSRSTACKADDR
          ADDRMOD,     \* 2^32: addresses and ints have as many values
          Size,        \* the sizes tasks ask for
          Junk,        \* what memory no header was written to may look like
          Careless     \* TRUE: tasks may free what they no longer hold

ASSUME HeapAssumption ==
  /\ HDR \in Nat \ {0}
  /\ HEAP_START \in Nat \ {0}
  /\ HEAP_END \in Nat
  /\ ADDRMOD \in Nat
  /\ HEAP_START <= HEAP_END
  /\ HEAP_END < ADDRMOD
  /\ 2 * HDR < ADDRMOD
  /\ \A n \in Size : n \in Int /\ - ADDRMOD <= 2 * n /\ 2 * n < ADDRMOD
  /\ Junk \subseteq [used : Int, size : Int]
  /\ Careless \in BOOLEAN

VARIABLES hdr,        \* the headers in memory, by address
          used_end,   \* memmng.used_end
          cur_pos,    \* the walk of mem_malloc, or IDLE
          call,       \* who called mem_malloc, and for how much
          held,       \* what tasks hold, as they see it: [task, at, len]
          given,      \* careless tasks: every pointer ever returned, <<task, at>>
          spoiled     \* why the chain can no longer be relied on

vars == <<hdr, used_end, cur_pos, call, held, given, spoiled>>

-----------------------------------------------------------------------------
IDLE == -1
NoCall == [task |-> 0, size |-> 0]

\* An unsigned int, and the int with the same bits.
UInt(x) == x % ADDRMOD
SInt(x) == IF 2 * UInt(x) >= ADDRMOD THEN UInt(x) - ADDRMOD ELSE UInt(x)

req_size == SInt(call.size + HDR)

Store(a, h) ==
  hdr' = [b \in DOMAIN hdr \cup {a} |-> IF b = a THEN h ELSE hdr[b]]

(* What the walk finds at an address: a header, or whatever is there.      *)
HeaderAt(a) == IF a \in DOMAIN hdr THEN {hdr[a]} ELSE Junk

(* mem_malloc returns the address behind the header at a.                  *)
Grant(a) ==
  /\ held' = held \cup {[task |-> call.task, at |-> a + HDR, len |-> call.size]}
  /\ given' = IF Careless THEN given \cup {<<call.task, a + HDR>>} ELSE given
  /\ cur_pos' = IDLE
  /\ call' = NoCall

(* The pointers a task may free.                                          *)
Freeable == given \cup {<<r.task, r.at>> : r \in held}

Init ==
  /\ hdr = [a \in {} |-> [used |-> 0, size |-> 0]]
  /\ used_end = HEAP_START
  /\ cur_pos = IDLE
  /\ call = NoCall
  /\ held = {}
  /\ given = {}
  /\ spoiled = {}

-----------------------------------------------------------------------------
(* A task calls mem_malloc.  A negative size, or one so large that         *)
(* size + sizeof(Dy_mem_header) is negative, is accepted like any other.   *)
mem_malloc(t, n) ==
  /\ cur_pos = IDLE
  /\ call' = [task |-> t, size |-> n]
  /\ cur_pos' = HEAP_START
  /\ spoiled' = IF SInt(n + HDR) < HDR THEN spoiled \cup {"size"} ELSE spoiled
  /\ UNCHANGED <<hdr, used_end, held, given>>

\* Variant with a defect: the header is forgotten in the comparison.
Fits_noheader(h) == h.used = 0 /\ h.size >= call.size

Fits(h) == h.used = 0 /\ h.size >= req_size

\* Variant with a defect: the block is not marked.
TakeBlock_unmarked ==
  /\ cur_pos \notin {IDLE, used_end}
  /\ \E h \in HeaderAt(cur_pos) : Fits(h) /\ Store(cur_pos, h)
  /\ Grant(cur_pos)
  /\ UNCHANGED <<used_end, spoiled>>

TakeBlock ==
  /\ cur_pos \notin {IDLE, used_end}
  /\ \E h \in HeaderAt(cur_pos) :
        Fits(h) /\ Store(cur_pos, [h EXCEPT !.used = 1])
  /\ Grant(cur_pos)
  /\ UNCHANGED <<used_end, spoiled>>

NextBlock ==
  /\ cur_pos \notin {IDLE, used_end}
  /\ \E h \in HeaderAt(cur_pos) :
        /\ ~ Fits(h)
        /\ Store(cur_pos, h)
        /\ cur_pos' = UInt(cur_pos + h.size)
  /\ UNCHANGED <<used_end, call, held, given, spoiled>>

\* Variant with a defect: the size of the new block is not written.
AppendBlock_nosize ==
  /\ cur_pos = used_end
  /\ used_end' = UInt(used_end + req_size)
  /\ used_end' <= HEAP_END
  /\ Store(used_end, [used |-> 1, size |-> 0])
  /\ Grant(used_end)
  /\ UNCHANGED spoiled

\* Variant with a defect: the heap grows downwards.
AppendBlock_down ==
  /\ cur_pos = used_end
  /\ used_end' = used_end - req_size
  /\ used_end' <= HEAP_END
  /\ Store(used_end, [used |-> 1, size |-> req_size])
  /\ Grant(used_end)
  /\ UNCHANGED spoiled

AppendBlock ==
  /\ cur_pos = used_end
  /\ used_end' = UInt(used_end + req_size)
  /\ used_end' <= HEAP_END
  /\ Store(used_end, [used |-> 1, size |-> req_size])
  /\ Grant(used_end)
  /\ spoiled' = IF used_end + req_size >= ADDRMOD
                THEN spoiled \cup {"size"} ELSE spoiled

(* No room: NULL is returned, and used_end stays past the end.             *)
HeapFull ==
  /\ cur_pos = used_end
  /\ used_end' = UInt(used_end + req_size)
  /\ used_end' > HEAP_END
  /\ cur_pos' = IDLE
  /\ call' = NoCall
  /\ spoiled' = spoiled \cup {"full"}
  /\ UNCHANGED <<hdr, held, given>>

\* Variant with a defect: the block stays marked.
mem_free_keep(t, p) ==
  /\ cur_pos = IDLE
  /\ <<t, p>> \in Freeable
  /\ held' = {r \in held : ~ (r.task = t /\ r.at = p)}
  /\ UNCHANGED <<hdr, used_end, cur_pos, call, given, spoiled>>

(* A task frees a pointer it was once given; a free block is refused.      *)
mem_free(t, p) ==
  /\ cur_pos = IDLE
  /\ <<t, p>> \in Freeable
  /\ IF hdr[p - HDR].used # 1
     THEN UNCHANGED <<hdr, spoiled>>
     ELSE /\ Store(p - HDR, [hdr[p - HDR] EXCEPT !.used = 0])
          /\ spoiled' = IF \E r \in held : r.task = t /\ r.at = p
                        THEN spoiled ELSE spoiled \cup {"stale"}
  /\ held' = {r \in held : ~ (r.task = t /\ r.at = p)}
  /\ UNCHANGED <<used_end, cur_pos, call, given>>

Walk == TakeBlock \/ NextBlock \/ AppendBlock \/ HeapFull

Next ==
  \/ \E t \in Task, n \in Size : mem_malloc(t, n)
  \/ Walk
  \/ \E q \in Freeable : mem_free(q[1], q[2])

Spec == Init /\ [][Next]_vars

(* The processor executes the system call, interrupts masked, to its end.  *)
FairSpec == Spec /\ WF_vars(Walk)

-----------------------------------------------------------------------------
TypeOK ==
  /\ \A a \in DOMAIN hdr : hdr[a] \in [used : Int, size : Int]
  /\ DOMAIN hdr \subseteq Int
  /\ used_end \in 0 .. ADDRMOD - 1
  /\ cur_pos \in {IDLE} \cup 0 .. ADDRMOD - 1
  /\ IF cur_pos = IDLE THEN call = NoCall ELSE call \in [task : Task, size : Size]
  /\ held \subseteq [task : Task, at : Int, len : Size]
  /\ given \subseteq Task \X Int
  /\ spoiled \subseteq {"size", "full", "stale"}

(* mem_malloc never hands a task memory that another holds, or that holds  *)
(* a header, or that is outside the heap - also when tasks free pointers   *)
(* twice - as long as no call asked for a nonsense size, failed for lack   *)
(* of room, or freed a block somebody else had got meanwhile.              *)
LiveDisjoint ==
  spoiled = {} =>
    /\ \A r \in held : HEAP_START + HDR <= r.at /\ r.at + r.len <= HEAP_END
    /\ \A r \in held, a \in DOMAIN hdr : a + HDR <= r.at \/ r.at + r.len <= a
    /\ \A r, s \in held :
          r # s => r.at + r.len <= s.at \/ s.at + s.len <= r.at

(* mem_free gives a block back and mem_malloc marks what it takes: a block *)
(* is marked used exactly as long as some task holds it.                   *)
UsedMeansHeld ==
  spoiled = {} =>
    \A a \in DOMAIN hdr :
      hdr[a].used = 1 <=> \E r \in held : r.at = a + HDR

(* The walk of mem_malloc comes to an end, in a heap that is not spoiled.  *)
WalkEnds == (cur_pos # IDLE /\ spoiled = {}) ~> (cur_pos = IDLE)

(* mem_malloc comes to an end whatever happened before: "NULL pointer. no  *)
(* empty space." is what navilnux_memory.c:106 says a full heap returns.   *)
MallocReturns == cur_pos # IDLE ~> cur_pos = IDLE

(* The heap keeps the promise of HeapService.                              *)
Service == INSTANCE HeapService WITH
  live    <- IF spoiled = {} THEN {[at |-> r.at, len |-> r.len] : r \in held}
                             ELSE {},
  spoiled <- spoiled # {}

ServiceSpec == Service!Spec
=============================================================================
