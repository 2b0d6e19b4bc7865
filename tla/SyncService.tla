---------------------------- MODULE SyncService ----------------------------
(***************************************************************************)
(* What tasks may rely on when they synchronise through the kernel:        *)
(* mutexes with an owner, counting semaphores and one-place mailboxes that *)
(* are independent of each other.  An operation is that of the task        *)
(* running when it takes effect, which is the only one it concerns.        *)
(***************************************************************************)
EXTENDS Integers, Sequences

CONSTANTS Mutex, Sem, Box,    \* the numbers of the objects
          Client,             \* the tasks
          Nobody              \* a mutex without owner; nobody runs

VARIABLES running,    \* the task that runs
          owner,      \* owner[m]: the task that holds mutex m
          units,      \* units[s]: what is left of semaphore s
          box,        \* box[b]: the message in mailbox b, at most one
          got         \* got[t]: the message task t fetched last

vars == <<running, owner, units, box, got>>

Init == /\ owner = [m \in Mutex |-> Nobody]
        /\ units \in [Sem -> Int]
        /\ box = [b \in Box |-> <<>>]
        /\ got \in [Client -> Int]
        /\ running = Nobody

(* Only a free mutex can be taken, and by the running task. *)
Acquire(m) == /\ running \in Client
              /\ owner[m] = Nobody
              /\ owner' = [owner EXCEPT ![m] = running]
              /\ UNCHANGED <<running, units, box, got>>

(* Only its owner gives a mutex back. *)
Release(m) == /\ running \in Client
              /\ owner[m] = running
              /\ owner' = [owner EXCEPT ![m] = Nobody]
              /\ UNCHANGED <<running, units, box, got>>

P(s) == /\ units[s] > 0
        /\ units' = [units EXCEPT ![s] = @ - 1]
        /\ UNCHANGED <<running, owner, box, got>>

V(s) == /\ units' = [units EXCEPT ![s] = @ + 1]
        /\ UNCHANGED <<running, owner, box, got>>

(* A message nobody has fetched is overwritten by the next one. *)
Send(b) == /\ Len(box'[b]) = 1
           /\ box' = [box EXCEPT ![b] = box'[b]]
           /\ UNCHANGED <<running, owner, units, got>>

(* A message is fetched once, by the running task. *)
Fetch(b) == /\ box[b] # <<>>
            /\ running \in Client
            /\ got' = [got EXCEPT ![running] = Head(box[b])]
            /\ box' = [box EXCEPT ![b] = <<>>]
            /\ UNCHANGED <<running, owner, units>>

Reschedule == /\ running' \in Client
              /\ UNCHANGED <<owner, units, box, got>>

Next == \/ \E m \in Mutex : Acquire(m) \/ Release(m)
        \/ \E s \in Sem : P(s) \/ V(s)
        \/ \E b \in Box : Send(b) \/ Fetch(b)
        \/ Reschedule

Spec == Init /\ [][Next]_vars
=============================================================================
