------------------------------ MODULE RecvQueue ------------------------------
(***************************************************************************)
(* The circular queue of queue.h, as wifi_mcw1001a_mikro.c uses it for the *)
(* datagrams received and not yet handled (recv_from_buffer, 40 places).   *)
(*                                                                         *)
(* "en" is the place of the last element, not the place after it: the push *)
(* into an empty queue and the pop of the last element leave the indices   *)
(* where they are.                                                         *)
(***************************************************************************)
EXTENDS Naturals, Sequences

CONSTANTS size,      \* queue_alloc(&recv_from_buffer, size)
          Datagrams, \* what a datagram may hold
          NULL       \* no datagram

ASSUME SizeAssumption == size \in Nat \ {0}
ASSUME NullAssumption == NULL \notin Datagrams

VARIABLES arr, st, en, cnt,   \* the fields of queue
          recv_from           \* the datagram wifi_get_recv_from_packet() gave last

queueVars == <<arr, st, en, cnt, recv_from>>

Index == 0..(size - 1)

(* malloc() leaves in the array whatever was there.                        *)
QueueInit ==
  /\ arr \in [Index -> Datagrams \cup {NULL}]
  /\ st = 0 /\ en = 0 /\ cnt = 0
  /\ recv_from = NULL

queue_empty == cnt = 0
queue_full  == cnt = size

(* wifi_process_packet(): a datagram that finds the queue full is dropped. *)
queue_push(datagram) ==
  /\ ~queue_full
  /\ en' = (IF queue_empty THEN en ELSE (en + 1) % size)
  /\ arr' = [arr EXCEPT ![en'] = datagram]
  /\ cnt' = cnt + 1
  /\ UNCHANGED <<st, recv_from>>

(* wifi_get_recv_from_packet(): the pop of an empty queue changes nothing. *)
queue_popAdvancing ==
  /\ ~queue_empty
  /\ recv_from' = arr[st]
  /\ cnt' = cnt - 1
  /\ st' = (st + 1) % size
  /\ UNCHANGED <<arr, en>>

queue_pop ==
  /\ ~queue_empty
  /\ recv_from' = arr[st]
  /\ cnt' = cnt - 1
  /\ st' = (IF cnt = 1 THEN st ELSE (st + 1) % size)
  /\ UNCHANGED <<arr, en>>

QueueNext == (\E datagram \in Datagrams : queue_push(datagram)) \/ queue_pop

QueueSpec == QueueInit /\ [][QueueNext]_queueVars

-----------------------------------------------------------------------------
(* The place of the i-th oldest element.                                   *)
Place(i) == (st + i - 1) % size

QueueTypeOK ==
  /\ arr \in [Index -> Datagrams \cup {NULL}]
  /\ st \in Index /\ en \in Index
  /\ cnt \in 0..size
  /\ recv_from \in Datagrams \cup {NULL}

(* The three redundant fields agree: "en" is the place of the newest       *)
(* element, and "st" and "en" coincide when the queue is empty.  The push  *)
(* into an empty queue overwrites the oldest element if they ever do not.  *)
EndsAgree == en = IF cnt = 0 THEN st ELSE Place(cnt)

(* Only places that were written are read: a datagram handed over is never *)
(* what malloc() left in the array.                                        *)
Written == \A i \in 1..cnt : arr[Place(i)] \in Datagrams

(* The queue is a bounded first-in first-out channel: nothing is lost,     *)
(* repeated or reordered between a push that found room and its pop.       *)
Fifo == INSTANCE BoundedFifo WITH
          Capacity <- size, Item <- Datagrams, None <- NULL,
          contents <- [i \in 1..cnt |-> arr[Place(i)]],
          taken    <- recv_from

ImplementsFifo == Fifo!Spec
=============================================================================
