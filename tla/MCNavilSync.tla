---------------------------- MODULE MCNavilSync ----------------------------
(***************************************************************************)
(* User programs for NavilSync.  The pool is scaled down to two slots of   *)
(* each kind; mutex 3, semaphore 5 and message slot 2 of the source become *)
(* number 1 of their kind.                                                 *)
(***************************************************************************)
EXTENDS NavilSync

(* As the user tasks of src/source/chap16/navilnux_user.c do: all share a  *)
(* semaphore of two (user_task_6 to 8), two of them a mutex (user_task_4   *)
(* and 5), and of these one sends what the other fetches (user_task_2 and  *)
(* 3).  They sleep in between, inside and outside their critical sections. *)
UserProgram ==
  [t \in 0 .. 2 |->
     << {Do("sem_p", 1)}, {Do("sleep", 2)},
        {Do("sem_v", 1)}, {Do("sleep", 3)} >> \o
     IF t = 2 THEN <<>>
     ELSE << {Do("mutex_wait", 1)}, {Do("sleep", 2)},
             {Do("mutex_release", 1)},
             IF t = 0 THEN {DoSend(1, 1)} ELSE {Do("itc_get", 1)},
             {Do("sleep", 3)} >>]

(* Any call at any time, with good and bad numbers, and messages kept to   *)
(* the slots that are theirs.                                              *)
AnyCall ==
  {DoSend(0, 1), DoSend(-1, 1), Do("itc_get", 0), Do("itc_get", 6)} \cup
  {Do(c, n) : c \in {"sem_p", "sem_v"}, n \in {1, 2}} \cup
  {Do(c, n) : c \in {"mutex_wait", "mutex_release"}, n \in {-1, 1}} \cup
  {Do("sleep", 2)}

AnyProgram == [t \in 0 .. 1 |-> <<AnyCall>>]

(* Message calls with the numbers the range check lets through. *)
WideProgram ==
  [t \in 0 .. 1 |->
     IF t = 0 THEN << {DoSend(n, 1) : n \in 0 .. 5} >>
              ELSE << {Do("mutex_wait", 1)}, {Do("mutex_release", 1)} >>]
=============================================================================
