-------------------------- MODULE NavilHeapProofs --------------------------
(***************************************************************************)
(* Theorems about NavilHeap, for every heap, word size, set of request     *)
(* sizes and content of unwritten memory, and for careless tasks too.      *)
(***************************************************************************)
EXTENDS NavilHeap, TLAPS

(* The headers are the chain the walk follows: one starts where the last   *)
(* one ends, from heap_start to used_end.                                  *)
Chain ==
  /\ HEAP_START \in DOMAIN hdr \cup {used_end}
  /\ used_end <= HEAP_END
  /\ \A a \in DOMAIN hdr :
        /\ HEAP_START <= a
        /\ hdr[a].used \in {0, 1}
        /\ HDR <= hdr[a].size
        /\ a + hdr[a].size <= used_end
        /\ a + hdr[a].size \in DOMAIN hdr \cup {used_end}
  /\ \A a, b \in DOMAIN hdr : a < b => a + hdr[a].size <= b

(* The walk is on the chain, for a request that means what it says.        *)
WalkOnChain ==
  cur_pos # IDLE =>
    /\ cur_pos \in DOMAIN hdr \cup {used_end}
    /\ call.size \in Nat
    /\ req_size = call.size + HDR

(* What a task holds is the inside of one block of the chain, and that     *)
(* block is marked; nobody else holds it.                                  *)
HeldOnChain ==
  /\ \A r \in held :
        /\ r.at - HDR \in DOMAIN hdr
        /\ hdr[r.at - HDR].used = 1
        /\ r.len \in Nat
        /\ r.len + HDR <= hdr[r.at - HDR].size
  /\ \A r, s \in held : r.at = s.at => r = s

(* A pointer handed out lies behind a header, whatever happened since.     *)
GivenHaveHeaders == \A q \in Freeable : q[2] - HDR \in DOMAIN hdr

Typing == TypeOK /\ GivenHaveHeaders

IInv == spoiled = {} => Chain /\ WalkOnChain /\ HeldOnChain /\ UsedMeansHeld

-----------------------------------------------------------------------------
(* Arithmetic on words.                                                    *)
LEMMA UIntType ==
  ASSUME NEW x \in Int
  PROVE  UInt(x) \in 0 .. ADDRMOD - 1
BY HeapAssumption DEF UInt

LEMMA UIntSmall ==
  ASSUME NEW x \in Int, 0 <= x, x < ADDRMOD
  PROVE  UInt(x) = x
BY HeapAssumption DEF UInt

LEMMA UIntNegative ==
  ASSUME NEW x \in Int, - ADDRMOD <= x, x < 0
  PROVE  UInt(x) = x + ADDRMOD
BY HeapAssumption DEF UInt

(* A size that leaves room for its header is not negative and is asked for *)
(* as it stands.                                                           *)
LEMMA ReqSizeHonest ==
  ASSUME NEW n \in Size, SInt(n + HDR) >= HDR
  PROVE  n \in Nat /\ SInt(n + HDR) = n + HDR
<1>1. n \in Int /\ - ADDRMOD <= 2 * n /\ 2 * n < ADDRMOD /\ n + HDR \in Int
  BY HeapAssumption
<1>2. CASE n + HDR < 0
  <2>1. UInt(n + HDR) = n + HDR + ADDRMOD
    BY <1>1, <1>2, UIntNegative, HeapAssumption
  <2> QED BY <1>1, <1>2, <2>1, HeapAssumption DEF SInt
<1>3. CASE n + HDR >= 0
  <2>1. n + HDR < ADDRMOD
    BY <1>1, HeapAssumption
  <2>2. UInt(n + HDR) = n + HDR
    BY <1>1, <1>3, <2>1, UIntSmall
  <2> QED BY <1>1, <1>3, <2>2, HeapAssumption DEF SInt
<1> QED BY <1>1, <1>2, <1>3

LEMMA SIntType ==
  ASSUME NEW x \in Int
  PROVE  SInt(x) \in Int
BY UIntType, HeapAssumption DEF SInt

(* Storing a header changes one place.                                     *)
LEMMA StoreEffect ==
  ASSUME NEW a, NEW h, Store(a, h)
  PROVE  /\ DOMAIN hdr' = DOMAIN hdr \cup {a}
         /\ hdr'[a] = h
         /\ \A b \in DOMAIN hdr : b # a => hdr'[b] = hdr[b]
BY DEF Store

-----------------------------------------------------------------------------
LEMMA InitTyping == Init => Typing
BY HeapAssumption
   DEF Init, Typing, TypeOK, GivenHaveHeaders, Freeable, NoCall, IDLE

LEMMA ReqSizeInt == TypeOK /\ cur_pos # IDLE => req_size \in Int
<1> SUFFICES ASSUME TypeOK, cur_pos # IDLE PROVE req_size \in Int
  OBVIOUS
<1>1. call.size \in Int
  BY HeapAssumption DEF TypeOK
<1> QED BY <1>1, SIntType, HeapAssumption DEF req_size

(* Storing a well-typed header keeps the headers well typed.               *)
LEMMA StoreTyped ==
  ASSUME TypeOK, NEW a \in Int, NEW h \in [used : Int, size : Int], Store(a, h)
  PROVE  /\ \A b \in DOMAIN hdr' : hdr'[b] \in [used : Int, size : Int]
         /\ DOMAIN hdr' \subseteq Int
         /\ DOMAIN hdr' = DOMAIN hdr \cup {a}
<1>1. DOMAIN hdr' = DOMAIN hdr \cup {a} /\ hdr'[a] = h
  BY StoreEffect
<1>2. ASSUME NEW b \in DOMAIN hdr' PROVE hdr'[b] \in [used : Int, size : Int]
  <2>1. CASE b = a
    BY <1>1, <2>1
  <2>2. CASE b # a
    <3>1. b \in DOMAIN hdr
      BY <1>1, <2>2
    <3>2. hdr'[b] = hdr[b]
      BY <2>2, <3>1, StoreEffect
    <3> QED BY <3>1, <3>2 DEF TypeOK
  <2> QED BY <2>1, <2>2
<1>3. DOMAIN hdr' \subseteq Int
  BY <1>1 DEF TypeOK
<1> QED BY <1>1, <1>2, <1>3

(* A grant behind a header keeps the types of what tasks hold.             *)
LEMMA GrantTyped ==
  ASSUME Typing, cur_pos # IDLE, NEW a \in DOMAIN hdr', a \in Int, Grant(a),
         DOMAIN hdr \subseteq DOMAIN hdr'
  PROVE  /\ held' \subseteq [task : Task, at : Int, len : Size]
         /\ given' \subseteq Task \X Int
         /\ cur_pos' = IDLE /\ call' = NoCall
         /\ GivenHaveHeaders'
<1>1. call \in [task : Task, size : Size] /\ a + HDR \in Int
  BY HeapAssumption DEF Typing, TypeOK
<1>2. held' \subseteq [task : Task, at : Int, len : Size]
  BY <1>1 DEF Grant, Typing, TypeOK
<1>3. given' \subseteq Task \X Int
  BY <1>1 DEF Grant, Typing, TypeOK
<1>4. ASSUME NEW q \in Freeable' PROVE q[2] - HDR \in DOMAIN hdr'
  <2>1. q \in Freeable \/ q = <<call.task, a + HDR>>
    BY DEF Grant, Freeable
  <2>2. CASE q \in Freeable
    BY <2>2 DEF Typing, GivenHaveHeaders
  <2>3. CASE q = <<call.task, a + HDR>>
    <3>1. q[2] = a + HDR
      BY <2>3
    <3>2. q[2] - HDR = a
      BY <3>1, HeapAssumption
    <3> QED BY <3>2
  <2> QED BY <2>1, <2>2, <2>3
<1> QED BY <1>2, <1>3, <1>4 DEF Grant, GivenHaveHeaders

LEMMA NextTyping == Typing /\ [Next]_vars => Typing'
<1> SUFFICES ASSUME Typing, [Next]_vars PROVE Typing'
  OBVIOUS
<1>0. TypeOK /\ GivenHaveHeaders
  BY DEF Typing
<1>1. CASE UNCHANGED vars
  BY <1>0, <1>1 DEF Typing, vars, TypeOK, GivenHaveHeaders, Freeable, NoCall
<1>2. ASSUME NEW t \in Task, NEW n \in Size, mem_malloc(t, n) PROVE Typing'
  BY <1>0, <1>2, HeapAssumption
     DEF Typing, mem_malloc, TypeOK, GivenHaveHeaders, Freeable, IDLE
<1>3. CASE TakeBlock
  <2>1. PICK h \in HeaderAt(cur_pos) : Store(cur_pos, [h EXCEPT !.used = 1])
    BY <1>3 DEF TakeBlock
  <2>2. h \in [used : Int, size : Int]
    BY <1>0, HeapAssumption DEF HeaderAt, TypeOK
  <2>3. [h EXCEPT !.used = 1] \in [used : Int, size : Int]
    BY <2>2
  <2>4. cur_pos \in Int /\ cur_pos # IDLE
    BY <1>0, <1>3 DEF TakeBlock, TypeOK, IDLE
  <2>5. /\ \A b \in DOMAIN hdr' : hdr'[b] \in [used : Int, size : Int]
        /\ DOMAIN hdr' \subseteq Int
        /\ DOMAIN hdr' = DOMAIN hdr \cup {cur_pos}
    BY <1>0, <2>1, <2>3, <2>4, StoreTyped
  <2> QED BY <1>0, <1>3, <2>4, <2>5, GrantTyped DEF TakeBlock, TypeOK, Typing
<1>4. CASE NextBlock
  <2>1. PICK h \in HeaderAt(cur_pos) :
          Store(cur_pos, h) /\ cur_pos' = UInt(cur_pos + h.size)
    BY <1>4 DEF NextBlock
  <2>2. h \in [used : Int, size : Int]
    BY <1>0, HeapAssumption DEF HeaderAt, TypeOK
  <2>3. cur_pos \in Int /\ cur_pos # IDLE
    BY <1>0, <1>4 DEF NextBlock, TypeOK, IDLE
  <2>4. /\ \A b \in DOMAIN hdr' : hdr'[b] \in [used : Int, size : Int]
        /\ DOMAIN hdr' \subseteq Int
        /\ DOMAIN hdr' = DOMAIN hdr \cup {cur_pos}
    BY <1>0, <2>1, <2>2, <2>3, StoreTyped
  <2>5. cur_pos' \in 0 .. ADDRMOD - 1
    BY <2>1, <2>2, <2>3, UIntType
  <2>6. TypeOK'
    BY <1>0, <1>4, <2>3, <2>4, <2>5 DEF NextBlock, TypeOK, IDLE
  <2>7. GivenHaveHeaders'
    BY <1>0, <1>4, <2>4 DEF GivenHaveHeaders, Freeable, NextBlock
  <2> QED BY <2>6, <2>7 DEF Typing
<1>5. CASE AppendBlock
  <2>1. cur_pos \in Int /\ cur_pos # IDLE /\ req_size \in Int /\ used_end \in Int
    BY <1>0, <1>5, ReqSizeInt, HeapAssumption DEF AppendBlock, TypeOK, IDLE
  <2>2. used_end' \in 0 .. ADDRMOD - 1
    BY <1>5, <2>1, UIntType DEF AppendBlock
  <2>3. /\ \A b \in DOMAIN hdr' : hdr'[b] \in [used : Int, size : Int]
        /\ DOMAIN hdr' \subseteq Int
        /\ DOMAIN hdr' = DOMAIN hdr \cup {used_end}
    <3>1. Store(used_end, [used |-> 1, size |-> req_size])
      BY <1>5 DEF AppendBlock
    <3>2. [used |-> 1, size |-> req_size] \in [used : Int, size : Int]
      BY <2>1
    <3> QED BY <1>0, <2>1, <3>1, <3>2, StoreTyped
  <2>4. spoiled' \subseteq {"size", "full", "stale"}
    BY <1>0, <1>5 DEF AppendBlock, TypeOK
  <2> QED BY <1>0, <1>5, <2>1, <2>2, <2>3, <2>4, GrantTyped
          DEF AppendBlock, TypeOK, Typing
<1>6. CASE HeapFull
  <2>1. cur_pos \in Int /\ cur_pos # IDLE /\ req_size \in Int
    BY <1>0, <1>6, ReqSizeInt, HeapAssumption DEF HeapFull, TypeOK, IDLE
  <2>2. used_end' \in 0 .. ADDRMOD - 1
    BY <1>0, <1>6, <2>1, UIntType DEF HeapFull, TypeOK
  <2>3. TypeOK'
    BY <1>0, <1>6, <2>2 DEF HeapFull, TypeOK, IDLE, NoCall
  <2>4. GivenHaveHeaders'
    BY <1>0, <1>6 DEF HeapFull, GivenHaveHeaders, Freeable
  <2> QED BY <2>3, <2>4 DEF Typing
<1>7. ASSUME NEW q \in Freeable, mem_free(q[1], q[2]) PROVE Typing'
  <2>1. q[2] - HDR \in DOMAIN hdr /\ q[2] - HDR \in Int
    BY <1>0 DEF GivenHaveHeaders, TypeOK
  <2>2. Freeable' \subseteq Freeable /\ held' \subseteq held
    BY <1>7 DEF mem_free, Freeable
  <2>3. CASE hdr[q[2] - HDR].used # 1
    BY <1>0, <1>7, <2>2, <2>3
       DEF mem_free, Typing, TypeOK, GivenHaveHeaders, NoCall
  <2>4. CASE hdr[q[2] - HDR].used = 1
    <3>1. Store(q[2] - HDR, [hdr[q[2] - HDR] EXCEPT !.used = 0])
      BY <1>7, <2>4 DEF mem_free
    <3>2. [hdr[q[2] - HDR] EXCEPT !.used = 0] \in [used : Int, size : Int]
      BY <1>0, <2>1 DEF TypeOK
    <3>3. /\ \A b \in DOMAIN hdr' : hdr'[b] \in [used : Int, size : Int]
          /\ DOMAIN hdr' \subseteq Int
          /\ DOMAIN hdr' = DOMAIN hdr
      BY <1>0, <2>1, <3>1, <3>2, StoreTyped
    <3>4. GivenHaveHeaders'
      BY <1>0, <2>2, <3>3 DEF GivenHaveHeaders
    <3>5. spoiled' \subseteq {"size", "full", "stale"}
      BY <1>0, <1>7, <2>4 DEF mem_free, TypeOK
    <3>6. UNCHANGED <<used_end, cur_pos, call, given>>
      BY <1>7 DEF mem_free
    <3>7. TypeOK'
      BY <1>0, <2>2, <3>3, <3>5, <3>6 DEF TypeOK, NoCall
    <3> QED BY <3>4, <3>7 DEF Typing
  <2> QED BY <2>3, <2>4
<1> QED BY <1>1, <1>2, <1>3, <1>4, <1>5, <1>6, <1>7 DEF Next, Walk

(* Types, whatever tasks ask for, free, or find in memory.                 *)
THEOREM TypeCorrect == Spec => []TypeOK
<1>1. Init => Typing BY InitTyping
<1>2. Typing /\ [Next]_vars => Typing' BY NextTyping
<1>3. Typing => TypeOK BY DEF Typing
<1> QED BY <1>1, <1>2, <1>3, PTL DEF Spec

-----------------------------------------------------------------------------
(* A step that leaves the headers and the holders alone.                   *)
LEMMA ChainUnchanged ==
  ASSUME Chain, HeldOnChain, UsedMeansHeld, spoiled = {},
         UNCHANGED <<hdr, used_end, held>>
  PROVE  Chain' /\ HeldOnChain' /\ UsedMeansHeld'
BY DEF Chain, HeldOnChain, UsedMeansHeld

LEMMA MallocInv ==
  ASSUME Typing, IInv, NEW t \in Task, NEW n \in Size, mem_malloc(t, n)
  PROVE  IInv'
<1> SUFFICES ASSUME spoiled' = {}
             PROVE  Chain' /\ WalkOnChain' /\ HeldOnChain' /\ UsedMeansHeld'
  BY DEF IInv
<1>1. spoiled = {} /\ SInt(n + HDR) >= HDR
  <2>1. SInt(n + HDR) \in Int
    BY SIntType, HeapAssumption
  <2> QED BY <2>1, HeapAssumption DEF mem_malloc
<1>2. Chain /\ HeldOnChain /\ UsedMeansHeld
  BY <1>1 DEF IInv
<1>3. UNCHANGED <<hdr, used_end, held>>
  BY DEF mem_malloc
<1>4. n \in Nat /\ SInt(n + HDR) = n + HDR
  BY <1>1, ReqSizeHonest
<1>5. call' = [task |-> t, size |-> n] /\ cur_pos' = HEAP_START
  BY DEF mem_malloc
<1>6. req_size' = SInt(call'.size + HDR)
  BY DEF req_size, SInt, UInt
<1>7. WalkOnChain'
  BY <1>2, <1>3, <1>4, <1>5, <1>6 DEF WalkOnChain, Chain
<1> QED BY <1>1, <1>2, <1>3, <1>7, ChainUnchanged

(* What holds while the walk is somewhere on a sound chain.                *)
LEMMA WalkFacts ==
  ASSUME Typing, IInv, spoiled = {}, cur_pos # IDLE
  PROVE  /\ Chain /\ WalkOnChain /\ HeldOnChain /\ UsedMeansHeld
         /\ used_end \in Nat /\ used_end < ADDRMOD
         /\ used_end \notin DOMAIN hdr
         /\ HEAP_START <= used_end
         /\ call.size \in Nat /\ req_size = call.size + HDR
         /\ cur_pos # used_end =>
              cur_pos \in DOMAIN hdr /\ HeaderAt(cur_pos) = {hdr[cur_pos]}
<1>1. Chain /\ WalkOnChain /\ HeldOnChain /\ UsedMeansHeld /\ TypeOK
  BY DEF IInv, Typing
<1>2. used_end \in Nat /\ used_end < ADDRMOD
  BY <1>1, HeapAssumption DEF TypeOK
<1>3. used_end \notin DOMAIN hdr
  BY <1>1, <1>2, HeapAssumption DEF Chain, TypeOK
<1>4. HEAP_START <= used_end
  BY <1>1, <1>2, HeapAssumption DEF Chain, TypeOK
<1> QED BY <1>1, <1>2, <1>3, <1>4 DEF WalkOnChain, HeaderAt

(* A grant of a marked block that nobody holds and that is big enough.     *)
LEMMA GrantInv ==
  ASSUME NEW a \in DOMAIN hdr', a \in Int, Grant(a),
         TypeOK, HeldOnChain, UsedMeansHeld, spoiled = {},
         call.size \in Nat,
         hdr'[a].used = 1, call.size + HDR <= hdr'[a].size,
         a \in DOMAIN hdr => hdr[a].used # 1,
         DOMAIN hdr' = DOMAIN hdr \cup {a},
         \A b \in DOMAIN hdr : b # a => hdr'[b] = hdr[b]
  PROVE  HeldOnChain' /\ UsedMeansHeld'
<1> DEFINE new == [task |-> call.task, at |-> a + HDR, len |-> call.size]
<1>1. held' = held \cup {new}
  BY DEF Grant
<1>2. \A r \in held : r.at \in Int /\ r.at # a + HDR /\ r.at - HDR # a
  <2> SUFFICES ASSUME NEW r \in held
               PROVE  r.at \in Int /\ r.at # a + HDR /\ r.at - HDR # a
    OBVIOUS
  <2>1. r.at \in Int /\ r.at - HDR \in DOMAIN hdr /\ hdr[r.at - HDR].used = 1
    BY DEF TypeOK, HeldOnChain
  <2>2. r.at - HDR # a
    BY <2>1
  <2> QED BY <2>1, <2>2, HeapAssumption
<1>3. new.at = a + HDR /\ new.at - HDR = a /\ new.len = call.size
  BY HeapAssumption
<1>4. ASSUME NEW r \in held'
      PROVE  /\ r.at - HDR \in DOMAIN hdr'
             /\ hdr'[r.at - HDR].used = 1
             /\ r.len \in Nat
             /\ r.len + HDR <= hdr'[r.at - HDR].size
  <2>1. CASE r = new
    <3>1. r.at - HDR = a /\ r.len = call.size
      BY <1>3, <2>1
    <3> QED BY <3>1
  <2>2. CASE r \in held
    <3>1. r.at - HDR \in DOMAIN hdr /\ r.at - HDR # a
      BY <1>2, <2>2 DEF HeldOnChain
    <3>2. hdr'[r.at - HDR] = hdr[r.at - HDR]
      BY <3>1
    <3> QED BY <2>2, <3>1, <3>2 DEF HeldOnChain
  <2> QED BY <1>1, <2>1, <2>2
<1>5. ASSUME NEW r \in held', NEW s \in held', r.at = s.at PROVE r = s
  <2>1. CASE r \in held /\ s \in held
    BY <1>5, <2>1 DEF HeldOnChain
  <2>2. CASE r = new \/ s = new
    BY <1>1, <1>2, <1>3, <1>5, <2>2
  <2> QED BY <1>1, <2>1, <2>2
<1>6. ASSUME NEW b \in DOMAIN hdr'
      PROVE  hdr'[b].used = 1 <=> \E r \in held' : r.at = b + HDR
  <2>1. CASE b = a
    BY <1>1, <1>3, <2>1
  <2>2. CASE b # a
    <3>1. b \in DOMAIN hdr /\ hdr'[b] = hdr[b]
      BY <2>2
    <3>2. hdr[b].used = 1 <=> \E r \in held : r.at = b + HDR
      BY <3>1 DEF UsedMeansHeld
    <3>3. b \in Int /\ new.at # b + HDR
      BY <1>3, <2>2, <3>1, HeapAssumption DEF TypeOK
    <3> QED BY <1>1, <3>1, <3>2, <3>3
  <2> QED BY <2>1, <2>2
<1>7. HeldOnChain'
  BY <1>4, <1>5 DEF HeldOnChain
<1>8. UsedMeansHeld'
  BY <1>6 DEF UsedMeansHeld
<1> QED BY <1>7, <1>8

LEMMA TakeInv ==
  ASSUME Typing, IInv, TakeBlock
  PROVE  IInv'
<1> SUFFICES ASSUME spoiled = {}
             PROVE  Chain' /\ WalkOnChain' /\ HeldOnChain' /\ UsedMeansHeld'
  BY DEF IInv, TakeBlock
<1>1. cur_pos # IDLE /\ cur_pos # used_end /\ used_end' = used_end
  BY DEF TakeBlock
<1>2. /\ Chain /\ HeldOnChain /\ UsedMeansHeld
      /\ call.size \in Nat /\ req_size = call.size + HDR
      /\ cur_pos \in DOMAIN hdr
      /\ HeaderAt(cur_pos) = {hdr[cur_pos]}
  BY <1>1, WalkFacts
<1>3. /\ Fits(hdr[cur_pos])
      /\ Store(cur_pos, [hdr[cur_pos] EXCEPT !.used = 1])
  BY <1>2 DEF TakeBlock
<1>4. hdr[cur_pos] \in [used : Int, size : Int] /\ cur_pos \in Int
  BY <1>2 DEF Typing, TypeOK
<1>5. /\ DOMAIN hdr' = DOMAIN hdr
      /\ hdr'[cur_pos].used = 1 /\ hdr'[cur_pos].size = hdr[cur_pos].size
      /\ \A b \in DOMAIN hdr : b # cur_pos => hdr'[b] = hdr[b]
  BY <1>2, <1>3, <1>4 DEF Store
<1>6. Chain'
  <2>1. \A b \in DOMAIN hdr : hdr'[b].size = hdr[b].size
    BY <1>5
  <2>2. \A b \in DOMAIN hdr : hdr'[b].used \in {0, 1}
    BY <1>2, <1>5 DEF Chain
  <2> QED BY <1>1, <1>2, <1>5, <2>1, <2>2 DEF Chain
<1>7. hdr[cur_pos].used # 1 /\ call.size + HDR <= hdr'[cur_pos].size
  BY <1>2, <1>3, <1>4, <1>5, HeapAssumption DEF Fits
<1>8. Grant(cur_pos)
  BY DEF TakeBlock
<1>9. HeldOnChain' /\ UsedMeansHeld'
  BY <1>2, <1>4, <1>5, <1>7, <1>8, GrantInv DEF Typing
<1>10. WalkOnChain'
  BY <1>8 DEF Grant, WalkOnChain
<1> QED BY <1>6, <1>9, <1>10

LEMMA NextBlockInv ==
  ASSUME Typing, IInv, NextBlock
  PROVE  IInv'
<1> SUFFICES ASSUME spoiled = {}
             PROVE  Chain' /\ WalkOnChain' /\ HeldOnChain' /\ UsedMeansHeld'
  BY DEF IInv, NextBlock
<1>1. cur_pos # IDLE /\ cur_pos # used_end
  BY DEF NextBlock
<1>2. /\ Chain /\ HeldOnChain /\ UsedMeansHeld
      /\ call.size \in Nat /\ req_size = call.size + HDR
      /\ cur_pos \in DOMAIN hdr
      /\ HeaderAt(cur_pos) = {hdr[cur_pos]}
      /\ used_end \in Nat /\ used_end < ADDRMOD
  BY <1>1, WalkFacts
<1>3. Store(cur_pos, hdr[cur_pos]) /\ cur_pos' = UInt(cur_pos + hdr[cur_pos].size)
  BY <1>2 DEF NextBlock
<1>4. hdr[cur_pos].size \in Int /\ cur_pos \in Int
  BY <1>2 DEF Typing, TypeOK
<1>5. /\ DOMAIN hdr' = DOMAIN hdr
      /\ \A b \in DOMAIN hdr : hdr'[b] = hdr[b]
  BY <1>2, <1>3 DEF Store
<1>6. UNCHANGED <<used_end, call, held>>
  BY DEF NextBlock
<1>7. Chain' /\ HeldOnChain' /\ UsedMeansHeld'
  BY <1>2, <1>5, <1>6 DEF Chain, HeldOnChain, UsedMeansHeld
<1>8. cur_pos' = cur_pos + hdr[cur_pos].size
  <2>1. /\ 0 <= cur_pos + hdr[cur_pos].size
        /\ cur_pos + hdr[cur_pos].size < ADDRMOD
    BY <1>2, <1>4, HeapAssumption DEF Chain
  <2> QED BY <1>3, <1>4, <2>1, UIntSmall
<1>9. cur_pos' \in DOMAIN hdr \cup {used_end}
  BY <1>2, <1>8 DEF Chain
<1>10. req_size' = req_size
  BY <1>6 DEF req_size, SInt, UInt
<1>11. WalkOnChain'
  BY <1>2, <1>5, <1>6, <1>9, <1>10 DEF WalkOnChain
<1> QED BY <1>7, <1>11

LEMMA AppendInv ==
  ASSUME Typing, IInv, AppendBlock
  PROVE  IInv'
<1> SUFFICES ASSUME spoiled' = {}
             PROVE  Chain' /\ WalkOnChain' /\ HeldOnChain' /\ UsedMeansHeld'
  BY DEF IInv
<1>1. cur_pos = used_end /\ cur_pos # IDLE
  BY HeapAssumption DEF AppendBlock, Typing, TypeOK, IDLE
<1>2. spoiled = {} /\ ~ (used_end + req_size >= ADDRMOD)
  BY DEF AppendBlock
<1>3. /\ Chain /\ HeldOnChain /\ UsedMeansHeld
      /\ call.size \in Nat /\ req_size = call.size + HDR
      /\ used_end \in Nat /\ used_end \notin DOMAIN hdr
      /\ HEAP_START <= used_end
  BY <1>1, <1>2, WalkFacts
<1>4. used_end' = used_end + req_size /\ used_end' <= HEAP_END
  <2>1. used_end + req_size \in Int /\ 0 <= used_end + req_size
    BY <1>3, HeapAssumption
  <2>2. used_end + req_size < ADDRMOD
    BY <1>2, <2>1, HeapAssumption
  <2> QED BY <2>1, <2>2, UIntSmall DEF AppendBlock
<1>5. Store(used_end, [used |-> 1, size |-> req_size])
  BY DEF AppendBlock
<1>6. /\ DOMAIN hdr' = DOMAIN hdr \cup {used_end}
      /\ hdr'[used_end].used = 1 /\ hdr'[used_end].size = req_size
      /\ \A b \in DOMAIN hdr : b # used_end => hdr'[b] = hdr[b]
  BY <1>5 DEF Store
<1>7. \A b \in DOMAIN hdr : b \in Int /\ hdr'[b] = hdr[b] /\ hdr[b].size \in Int
  BY <1>3, <1>6 DEF Typing, TypeOK
<1>8. Chain'
  <2>1. \A a \in DOMAIN hdr' :
          /\ HEAP_START <= a
          /\ hdr'[a].used \in {0, 1}
          /\ HDR <= hdr'[a].size
          /\ a + hdr'[a].size <= used_end'
          /\ a + hdr'[a].size \in DOMAIN hdr' \cup {used_end'}
    <3> SUFFICES ASSUME NEW a \in DOMAIN hdr'
                 PROVE  /\ HEAP_START <= a
                        /\ hdr'[a].used \in {0, 1}
                        /\ HDR <= hdr'[a].size
                        /\ a + hdr'[a].size <= used_end'
                        /\ a + hdr'[a].size \in DOMAIN hdr' \cup {used_end'}
      OBVIOUS
    <3>1. CASE a = used_end
      BY <1>3, <1>4, <1>6, <3>1, HeapAssumption
    <3>2. CASE a # used_end
      <4>1. a \in DOMAIN hdr
        BY <1>6, <3>2
      <4> QED BY <1>3, <1>4, <1>6, <1>7, <4>1, HeapAssumption DEF Chain
    <3> QED BY <3>1, <3>2
  <2>2. \A a, b \in DOMAIN hdr' : a < b => a + hdr'[a].size <= b
    <3> SUFFICES ASSUME NEW a \in DOMAIN hdr', NEW b \in DOMAIN hdr', a < b
                 PROVE  a + hdr'[a].size <= b
      OBVIOUS
    <3>1. a \in DOMAIN hdr
      <4>1. ASSUME a = used_end PROVE FALSE
        <5>1. b \in DOMAIN hdr /\ b # used_end
          BY <1>3, <1>6, <4>1
        <5> QED BY <1>3, <1>7, <4>1, <5>1, HeapAssumption DEF Chain
      <4> QED BY <1>6, <4>1
    <3>2. CASE b = used_end
      BY <1>3, <1>7, <3>1, <3>2 DEF Chain
    <3>3. CASE b # used_end
      BY <1>3, <1>6, <1>7, <3>1, <3>3 DEF Chain
    <3> QED BY <3>2, <3>3
  <2>3. HEAP_START \in DOMAIN hdr' \cup {used_end'}
    BY <1>3, <1>6 DEF Chain
  <2> QED BY <1>4, <2>1, <2>2, <2>3 DEF Chain
<1>9. Grant(used_end)
  BY DEF AppendBlock
<1>10. call.size + HDR <= hdr'[used_end].size
  BY <1>3, <1>6, HeapAssumption
<1>11. HeldOnChain' /\ UsedMeansHeld'
  BY <1>2, <1>3, <1>6, <1>9, <1>10, GrantInv DEF Typing
<1>12. WalkOnChain'
  BY <1>9 DEF Grant, WalkOnChain
<1> QED BY <1>8, <1>11, <1>12

LEMMA FreeInv ==
  ASSUME Typing, IInv, NEW t, NEW p, mem_free(t, p)
  PROVE  IInv'
<1> SUFFICES ASSUME spoiled' = {}
             PROVE  Chain' /\ WalkOnChain' /\ HeldOnChain' /\ UsedMeansHeld'
  BY DEF IInv
<1> DEFINE a == p - HDR
           Mine(r) == r.task = t /\ r.at = p
<1>1. /\ spoiled = {} /\ cur_pos' = IDLE /\ used_end' = used_end
      /\ held' = {r \in held : ~ Mine(r)}
  BY DEF mem_free
<1>2. Chain /\ HeldOnChain /\ UsedMeansHeld /\ TypeOK
  BY <1>1 DEF IInv, Typing
<1>3. a \in DOMAIN hdr /\ a \in Int /\ p = a + HDR /\ p \in Int
  <2>1. PICK q \in Freeable : q = <<t, p>>
    BY DEF mem_free
  <2>2. a \in DOMAIN hdr
    BY <2>1 DEF Typing, GivenHaveHeaders
  <2>3. p \in Int
    <3>1. CASE q \in given
      BY <1>2, <2>1, <3>1 DEF TypeOK
    <3>2. CASE q \in {<<r.task, r.at>> : r \in held}
      BY <1>2, <2>1, <3>2 DEF TypeOK
    <3> QED BY <3>1, <3>2 DEF Freeable
  <2> QED BY <2>2, <2>3, HeapAssumption
<1>4. WalkOnChain'
  BY <1>1 DEF WalkOnChain
<1>5. CASE hdr[a].used # 1
  <2>1. hdr' = hdr
    BY <1>5 DEF mem_free
  <2>2. held' = held
    BY <1>1, <1>2, <1>3, <1>5 DEF UsedMeansHeld
  <2> QED BY <1>1, <1>2, <1>4, <2>1, <2>2, ChainUnchanged
<1>6. CASE hdr[a].used = 1
  <2>1. Store(a, [hdr[a] EXCEPT !.used = 0])
    BY <1>6 DEF mem_free
  <2>2. hdr[a] \in [used : Int, size : Int]
    BY <1>2, <1>3 DEF TypeOK
  <2>3. /\ DOMAIN hdr' = DOMAIN hdr
        /\ hdr'[a].used = 0 /\ hdr'[a].size = hdr[a].size
        /\ \A b \in DOMAIN hdr : b # a => hdr'[b] = hdr[b]
    BY <1>3, <2>1, <2>2 DEF Store
  <2>4. Chain'
    <3>1. \A b \in DOMAIN hdr : hdr'[b].size = hdr[b].size
      BY <2>3
    <3>2. \A b \in DOMAIN hdr : hdr'[b].used \in {0, 1}
      BY <1>2, <2>3 DEF Chain
    <3> QED BY <1>1, <1>2, <2>3, <3>1, <3>2 DEF Chain
  <2>5. PICK r \in held : Mine(r)
    BY <1>1, <1>6 DEF mem_free
  <2>6. \A s \in held : s \in held' <=> s.at # p
    BY <1>1, <1>2, <2>5 DEF HeldOnChain
  <2>7. \A s \in held' : s \in held /\ s.at \in Int /\ s.at - HDR # a
    BY <1>1, <1>2, <1>3, <2>6, HeapAssumption DEF TypeOK
  <2>8. HeldOnChain'
    BY <1>2, <2>3, <2>7 DEF HeldOnChain
  <2>9. ASSUME NEW b \in DOMAIN hdr'
        PROVE  hdr'[b].used = 1 <=> \E s \in held' : s.at = b + HDR
    <3>1. CASE b = a
      BY <1>3, <2>3, <2>6, <2>7, <3>1
    <3>2. CASE b # a
      <4>1. hdr'[b] = hdr[b] /\ b \in DOMAIN hdr /\ b \in Int
        BY <1>2, <2>3, <3>2 DEF TypeOK
      <4>2. b + HDR # p
        BY <1>3, <3>2, <4>1, HeapAssumption
      <4>3. hdr[b].used = 1 <=> \E s \in held : s.at = b + HDR
        BY <1>1, <1>2, <4>1 DEF UsedMeansHeld
      <4> QED BY <2>6, <2>7, <4>1, <4>2, <4>3
    <3> QED BY <3>1, <3>2
  <2> QED BY <1>4, <2>4, <2>8, <2>9 DEF UsedMeansHeld
<1> QED BY <1>5, <1>6

LEMMA InitIInv == Init => IInv
BY HeapAssumption DEF Init, IInv, Chain, WalkOnChain, HeldOnChain,
                      UsedMeansHeld, IDLE

LEMMA NextIInv == Typing /\ IInv /\ [Next]_vars => IInv'
<1> SUFFICES ASSUME Typing, IInv, [Next]_vars PROVE IInv'
  OBVIOUS
<1>1. CASE UNCHANGED vars
  BY <1>1 DEF vars, IInv, Chain, WalkOnChain, HeldOnChain, UsedMeansHeld,
              req_size, SInt, UInt
<1>2. ASSUME NEW t \in Task, NEW n \in Size, mem_malloc(t, n) PROVE IInv'
  BY <1>2, MallocInv
<1>3. CASE TakeBlock
  BY <1>3, TakeInv
<1>4. CASE NextBlock
  BY <1>4, NextBlockInv
<1>5. CASE AppendBlock
  BY <1>5, AppendInv
<1>6. CASE HeapFull
  BY <1>6 DEF HeapFull, IInv
<1>7. ASSUME NEW q \in Freeable, mem_free(q[1], q[2]) PROVE IInv'
  BY <1>7, FreeInv
<1> QED BY <1>1, <1>2, <1>3, <1>4, <1>5, <1>6, <1>7 DEF Next, Walk

LEMMA Invariance == Spec => [](Typing /\ IInv)
<1>1. Init => Typing /\ IInv BY InitTyping, InitIInv
<1>2. (Typing /\ IInv) /\ [Next]_vars => (Typing /\ IInv)'
  BY NextTyping, NextIInv
<1> QED BY <1>1, <1>2, PTL DEF Spec

-----------------------------------------------------------------------------
(* Blocks of the chain are apart, so what tasks hold inside them is.       *)
LEMMA InvDisjoint == Typing /\ IInv => LiveDisjoint
<1> SUFFICES ASSUME Typing, IInv, spoiled = {}
    PROVE  /\ \A r \in held : HEAP_START + HDR <= r.at /\ r.at + r.len <= HEAP_END
           /\ \A r \in held, a \in DOMAIN hdr :
                 a + HDR <= r.at \/ r.at + r.len <= a
           /\ \A r, s \in held :
                 r # s => r.at + r.len <= s.at \/ s.at + s.len <= r.at
  BY DEF LiveDisjoint
<1>1. Chain /\ HeldOnChain /\ TypeOK
  BY DEF IInv, Typing
<1>2. \A a \in DOMAIN hdr : a \in Int /\ hdr[a].size \in Int
  BY <1>1 DEF TypeOK
<1>3. used_end \in Int
  BY <1>1, HeapAssumption DEF TypeOK
<1>4. ASSUME NEW r \in held
      PROVE  /\ r.at \in Int /\ r.len \in Nat
             /\ r.at - HDR \in DOMAIN hdr
             /\ r.at + r.len <= r.at - HDR + hdr[r.at - HDR].size
  <2>1. r.at \in Int /\ r.len \in Nat /\ r.at - HDR \in DOMAIN hdr
    BY <1>1 DEF TypeOK, HeldOnChain
  <2>2. r.len + HDR <= hdr[r.at - HDR].size
    BY <1>1 DEF HeldOnChain
  <2> QED BY <1>2, <2>1, <2>2, HeapAssumption
<1>5. ASSUME NEW r \in held
      PROVE  HEAP_START + HDR <= r.at /\ r.at + r.len <= HEAP_END
  <2> DEFINE a == r.at - HDR
  <2>1. HEAP_START <= a /\ a + hdr[a].size <= used_end /\ used_end <= HEAP_END
    BY <1>1, <1>4 DEF Chain
  <2> QED BY <1>2, <1>3, <1>4, <2>1, HeapAssumption
<1>6. ASSUME NEW r \in held, NEW b \in DOMAIN hdr
      PROVE  b + HDR <= r.at \/ r.at + r.len <= b
  <2> DEFINE a == r.at - HDR
  <2>1. CASE b = a
    BY <1>4, <2>1, HeapAssumption
  <2>2. CASE b < a
    <3>1. b + hdr[b].size <= a /\ HDR <= hdr[b].size
      BY <1>1, <1>4, <2>2 DEF Chain
    <3> QED BY <1>2, <1>4, <3>1, HeapAssumption
  <2>3. CASE a < b
    <3>1. a + hdr[a].size <= b
      BY <1>1, <1>4, <2>3 DEF Chain
    <3> QED BY <1>2, <1>4, <3>1, HeapAssumption
  <2> QED BY <1>2, <1>4, <2>1, <2>2, <2>3, HeapAssumption
<1>7. ASSUME NEW r \in held, NEW s \in held, r # s
      PROVE  r.at + r.len <= s.at \/ s.at + s.len <= r.at
  <2> DEFINE a == r.at - HDR
             b == s.at - HDR
  <2>1. r.at # s.at
    BY <1>1, <1>7 DEF HeldOnChain
  <2>2. a + hdr[a].size <= b \/ b + hdr[b].size <= a
    <3>1. a < b \/ b < a
      BY <1>4, <2>1, HeapAssumption
    <3> QED BY <1>1, <1>4, <3>1 DEF Chain
  <2> HIDE DEF a, b
  <2>3. /\ r.at + r.len <= a + hdr[a].size /\ b <= s.at
        /\ s.at + s.len <= b + hdr[b].size /\ a <= r.at
        /\ a \in Int /\ b \in Int /\ hdr[a].size \in Int /\ hdr[b].size \in Int
    BY <1>2, <1>4, HeapAssumption DEF a, b
  <2> QED BY <1>4, <2>2, <2>3
<1> QED BY <1>5, <1>6, <1>7

(* No two tasks hold overlapping memory, and none holds a header.          *)
THEOREM HeldDisjoint == Spec => []LiveDisjoint
<1>1. Typing /\ IInv => LiveDisjoint BY InvDisjoint
<1> QED BY <1>1, Invariance, PTL

(* A block is marked used exactly while it is held: none is lost, none is  *)
(* given away twice.                                                       *)
THEOREM UsedIffHeld == Spec => []UsedMeansHeld
<1>1. Typing /\ IInv => UsedMeansHeld BY DEF IInv, UsedMeansHeld
<1> QED BY <1>1, Invariance, PTL

-----------------------------------------------------------------------------
Region(r) == [at |-> r.at, len |-> r.len]
Live == {Region(r) : r \in held}

(* A grant adds one region, apart from the others.                         *)
LEMMA GrantIsMalloc ==
  ASSUME Typing', IInv', NEW a, Grant(a), spoiled = {}, spoiled' = {}
  PROVE  Service!Malloc \/ Live' = Live
<1> DEFINE new == [task |-> call.task, at |-> a + HDR, len |-> call.size]
<1>1. held' = held \cup {new}
  BY DEF Grant
<1>2. CASE new \in held
  <2>1. held' = held
    BY <1>1, <1>2
  <2> QED BY <2>1 DEF Live, Region
<1>3. CASE new \notin held
  <2>1. LiveDisjoint'
    <3>1. Typing /\ IInv => LiveDisjoint
      BY InvDisjoint
    <3> QED BY <3>1, InvDisjoint, PTL
  <2>2. Live' = Live \cup {Region(new)} /\ Region(new) \in Live'
    BY <1>1 DEF Live, Region
  <2>3. /\ HEAP_START + HDR <= new.at /\ new.at + new.len <= HEAP_END
        /\ new.at \in Int
    BY <1>1, <2>1 DEF LiveDisjoint, Typing, TypeOK
  <2>4. Service!InHeap(Region(new))
    BY <2>3, HeapAssumption DEF Service!InHeap, Region
  <2>5. \A s \in Live : Service!Apart(Region(new), s)
    <3> SUFFICES ASSUME NEW s \in held
                 PROVE  Service!Apart(Region(new), Region(s))
      BY DEF Live
    <3>1. new.at + new.len <= s.at \/ s.at + s.len <= new.at
      BY <1>1, <1>3, <2>1 DEF LiveDisjoint
    <3> QED BY <3>1 DEF Service!Apart, Region
  <2> QED BY <2>2, <2>4, <2>5 DEF Service!Malloc, Live, Region
<1> QED BY <1>2, <1>3

(* A free removes one region, or none.                                     *)
LEMMA FreeIsFree ==
  ASSUME Typing, IInv, NEW t, NEW p, mem_free(t, p), spoiled = {}, spoiled' = {}
  PROVE  Service!Free \/ Live' = Live
<1> DEFINE Mine(r) == r.task = t /\ r.at = p
<1>1. held' = {r \in held : ~ Mine(r)}
  BY DEF mem_free
<1>2. CASE \E r \in held : Mine(r)
  <2>1. PICK r \in held : Mine(r)
    BY <1>2
  <2>2. \A s \in held : s.at = r.at => s = r
    BY DEF IInv, HeldOnChain
  <2>3. \A s \in held : Mine(s) <=> Region(s) = Region(r)
    BY <2>1, <2>2 DEF Region
  <2>4. Live' = Live \ {Region(r)} /\ Region(r) \in Live
    BY <1>1, <2>3 DEF Live, Region
  <2> QED BY <2>4 DEF Service!Free, Live, Region
<1>3. CASE ~ \E r \in held : Mine(r)
  <2>1. held' = held
    BY <1>1, <1>3
  <2> QED BY <2>1 DEF Live, Region
<1> QED BY <1>2, <1>3

LEMMA StepImplements ==
  ASSUME Typing, IInv, Typing', IInv', [Next]_vars
  PROVE  [Service!Next]_<<IF spoiled = {} THEN Live ELSE {}, spoiled # {}>>
<1> USE DEF Live, Region
<1>1. CASE spoiled' # {}
  BY <1>1 DEF Service!Next, Service!Spoil
<1>2. ASSUME spoiled' = {}, Next
      PROVE  \/ Service!Malloc \/ Service!Free
             \/ Live' = Live
  <2>0. spoiled = {}
    BY <1>2 DEF Next, Walk, mem_malloc, TakeBlock, NextBlock, AppendBlock,
                HeapFull, mem_free
  <2>1. ASSUME NEW t \in Task, NEW n \in Size, mem_malloc(t, n)
        PROVE  Live' = Live
    BY <2>1 DEF mem_malloc
  <2>2. CASE TakeBlock
    BY <1>2, <2>0, <2>2, GrantIsMalloc DEF TakeBlock
  <2>3. CASE NextBlock
    BY <2>3 DEF NextBlock
  <2>4. CASE AppendBlock
    BY <1>2, <2>0, <2>4, GrantIsMalloc DEF AppendBlock
  <2>5. CASE HeapFull
    BY <2>5 DEF HeapFull
  <2>6. ASSUME NEW q \in Freeable, mem_free(q[1], q[2])
        PROVE  Service!Free \/ Live' = Live
    BY <1>2, <2>0, <2>6, FreeIsFree
  <2> QED BY <1>2, <2>1, <2>2, <2>3, <2>4, <2>5, <2>6 DEF Next, Walk
<1>3. CASE spoiled' = {} /\ Next
  <2>1. spoiled = {}
    BY <1>3 DEF Next, Walk, mem_malloc, TakeBlock, NextBlock, AppendBlock,
                HeapFull, mem_free
  <2> QED BY <1>2, <1>3, <2>1 DEF Service!Next
<1>4. CASE UNCHANGED vars
  BY <1>4 DEF vars
<1> QED BY <1>1, <1>3, <1>4

(* mem_malloc and mem_free implement the heap of HeapService.              *)
THEOREM ImplementsHeapService == Spec => ServiceSpec
<1>1. Init => Service!Init
  BY DEF Init, Service!Init
<1>2. Typing /\ IInv /\ Typing' /\ IInv' /\ [Next]_vars
        => [Service!Next]_<<IF spoiled = {} THEN Live ELSE {}, spoiled # {}>>
  BY StepImplements
<1>3. Typing /\ IInv /\ Typing' /\ IInv' /\ [Next]_vars
        => [Service!Next]_<<IF spoiled = {}
                            THEN {[at |-> r.at, len |-> r.len] : r \in held}
                            ELSE {}, spoiled # {}>>
  BY <1>2 DEF Live, Region
<1> QED BY <1>1, <1>3, Invariance, PTL DEF Spec, ServiceSpec, Service!Spec
-----------------------------------------------------------------------------
(* The part of WalkEnds that does not need fairness.  In a heap that is    *)
(* not spoiled the walk of mem_malloc looks at headers only, never at      *)
(* memory nobody wrote one to,                                             *)
WalkSeesHeaders ==
  spoiled = {} /\ cur_pos # IDLE =>
    /\ cur_pos \in DOMAIN hdr \cup {used_end}
    /\ used_end <= HEAP_END

(* and every step of it ends the call or goes forward by a header or more, *)
(* up to used_end, which the walk does not move: HEAP_END - cur_pos is a   *)
(* number that gets smaller.                                               *)
WalkAdvances ==
  [][spoiled = {} /\ cur_pos # IDLE =>
       \/ cur_pos' = IDLE
       \/ /\ cur_pos + HDR <= cur_pos'
          /\ cur_pos' <= used_end
          /\ used_end' = used_end]_vars

LEMMA StepAdvances ==
  ASSUME Typing, IInv, spoiled = {}, cur_pos # IDLE, Next
  PROVE  \/ cur_pos' = IDLE
         \/ /\ cur_pos + HDR <= cur_pos'
            /\ cur_pos' <= used_end
            /\ used_end' = used_end
<1>1. TakeBlock \/ AppendBlock \/ HeapFull \/ NextBlock
  BY DEF Next, Walk, mem_malloc, mem_free
<1>2. CASE TakeBlock \/ AppendBlock \/ HeapFull
  BY <1>2 DEF TakeBlock, AppendBlock, HeapFull, Grant
<1>3. CASE NextBlock
  <2>1. cur_pos # used_end /\ used_end' = used_end
    BY <1>3 DEF NextBlock
  <2>2. /\ Chain /\ cur_pos \in DOMAIN hdr
        /\ HeaderAt(cur_pos) = {hdr[cur_pos]}
        /\ used_end \in Nat /\ used_end < ADDRMOD
    BY <2>1, WalkFacts
  <2>3. cur_pos' = UInt(cur_pos + hdr[cur_pos].size)
    BY <1>3, <2>2 DEF NextBlock
  <2>4. hdr[cur_pos].size \in Int /\ cur_pos \in Int
    BY <2>2 DEF Typing, TypeOK
  <2>5. /\ HEAP_START <= cur_pos
        /\ HDR <= hdr[cur_pos].size
        /\ cur_pos + hdr[cur_pos].size <= used_end
    BY <2>2 DEF Chain
  <2>6. cur_pos' = cur_pos + hdr[cur_pos].size
    BY <2>2, <2>3, <2>4, <2>5, UIntSmall, HeapAssumption
  <2>. QED
    BY <2>1, <2>2, <2>4, <2>5, <2>6, HeapAssumption
<1> QED BY <1>1, <1>2, <1>3

(* WalkSeesHeaders: what the walk takes for a header is one.               *)
THEOREM WalkOnHeaders == Spec => []WalkSeesHeaders
<1>1. Typing /\ IInv => WalkSeesHeaders
  BY DEF IInv, Chain, WalkOnChain, WalkSeesHeaders
<1> QED BY <1>1, Invariance, PTL

(* WalkAdvances: no walk of mem_malloc runs in a circle.                   *)
THEOREM WalkGoesForward == Spec => WalkAdvances
<1>1. Typing /\ IInv /\ [Next]_vars =>
        [spoiled = {} /\ cur_pos # IDLE =>
           \/ cur_pos' = IDLE
           \/ /\ cur_pos + HDR <= cur_pos'
              /\ cur_pos' <= used_end
              /\ used_end' = used_end]_vars
  BY StepAdvances
<1> QED BY <1>1, Invariance, PTL DEF Spec, WalkAdvances
=============================================================================
