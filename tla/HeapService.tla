---------------------------- MODULE HeapService ----------------------------
(***************************************************************************)
(* What a heap promises its callers: every grant is a region of the heap   *)
(* that overlaps no region still held, and a region stays put until it is  *)
(* given back.  Once the heap has been spoiled nothing is promised.        *)
(***************************************************************************)
EXTENDS Integers

CONSTANTS HEAP_START, HEAP_END

VARIABLES live,      \* the regions held, as [at, len]
          spoiled    \* TRUE once the promise is off

Apart(r, s)  == r.at + r.len <= s.at \/ s.at + s.len <= r.at
InHeap(r)    == HEAP_START <= r.at /\ r.at + r.len <= HEAP_END

Init == live = {} /\ spoiled = FALSE

Malloc ==
  \E r \in live' :
    /\ InHeap(r)
    /\ \A s \in live : Apart(r, s)
    /\ live' = live \cup {r}
    /\ UNCHANGED spoiled

Free ==
  \E r \in live :
    /\ live' = live \ {r}
    /\ UNCHANGED spoiled

Spoil == spoiled' = TRUE

Next == (~ spoiled /\ (Malloc \/ Free)) \/ Spoil

Spec == Init /\ [][Next]_<<live, spoiled>>
=============================================================================
