------------------------------- MODULE Ringbuf --------------------------------
(***************************************************************************)
(* core/lib/ringbuf.c: the byte ring between a device's interrupt handler  *)
(* and a process.  ringbuf_put and ringbuf_get run without a lock, so each *)
(* is split where the other can come in between: the test of the other     *)
(* side's pointer, the access to data[], and the store of its own pointer. *)
(* data[] is an array of uint8_t, which may alias the pointers, so the     *)
(* compiler keeps these accesses in program order; the pointers are single *)
(* bytes, so each access is atomic.                                        *)
(***************************************************************************)
EXTENDS Integers, Sequences

CONSTANTS Size,   \* number of slots; r->mask is Size - 1
          Bytes   \* what a slot may hold

ASSUME SizeAssumption == Size \in Nat /\ Size > 1
ASSUME BytesAssumption == Bytes # {} /\ Bytes \subseteq Nat

VARIABLES data,      \* r->data
          put_ptr,   \* r->put_ptr
          get_ptr,   \* r->get_ptr
          put_pc,    \* where ringbuf_put is: "idle", "store", "advance"
          put_c,     \* its argument c
          put_ret,   \* what it returned last
          get_pc,    \* where ringbuf_get is: "idle", "load", "advance"
          get_c,     \* its local variable c
          get_ret    \* what it returned last

putVars == <<put_ptr, put_pc, put_c, put_ret>>
getVars == <<get_ptr, get_pc, get_c, get_ret>>
vars == <<data, putVars, getVars>>

Index == 0 .. Size - 1
Mask == Size - 1

\* mutated form: the wrap-around is left out
Unmasked(x) == x

\* x & r->mask, for a Size that is a power of two
Masked(x) == x % Size

(***************************************************************************)
(* The number of elements as the code computes it.                         *)
(***************************************************************************)
ringbuf_elements == Masked(put_ptr - get_ptr)

\* mutated form: the slot that tells full from empty is given away
FullAtSize == ringbuf_elements = Size

\* the test of ringbuf_put
Full == ringbuf_elements = Mask

(* ringbuf_init, and no call in progress. The array keeps whatever it held. *)
ringbuf_init ==
  /\ data \in [Index -> Bytes]
  /\ put_ptr = 0 /\ get_ptr = 0
  /\ put_pc = "idle" /\ put_c \in Bytes /\ put_ret = 1
  /\ get_pc = "idle" /\ get_c \in Bytes /\ get_ret = -1

-------------------------------------------------------------------------------
(* ringbuf_put(r, c) *)

PutTest(c) ==
  /\ put_pc = "idle"
  /\ put_c' = c
  /\ IF Full
       THEN put_ret' = 0 /\ UNCHANGED put_pc
       ELSE put_pc' = "store" /\ UNCHANGED put_ret
  /\ UNCHANGED <<data, put_ptr, getVars>>

PutStore ==
  /\ put_pc = "store"
  /\ data' = [data EXCEPT ![put_ptr] = put_c]
  /\ put_pc' = "advance"
  /\ UNCHANGED <<put_ptr, put_c, put_ret, getVars>>

PutAdvance ==
  /\ put_pc = "advance"
  /\ put_ptr' = Masked(put_ptr + 1)
  /\ put_ret' = 1
  /\ put_pc' = "idle"
  /\ UNCHANGED <<data, put_c, getVars>>

ringbuf_put == (\E c \in Bytes : PutTest(c)) \/ PutStore \/ PutAdvance

-------------------------------------------------------------------------------
(* ringbuf_get(r) *)

GetTest ==
  /\ get_pc = "idle"
  /\ IF ringbuf_elements > 0
       THEN get_pc' = "load" /\ UNCHANGED get_ret
       ELSE get_ret' = -1 /\ UNCHANGED get_pc
  /\ UNCHANGED <<data, putVars, get_ptr, get_c>>

GetLoad ==
  /\ get_pc = "load"
  /\ get_c' = data[get_ptr]
  /\ get_pc' = "advance"
  /\ UNCHANGED <<data, putVars, get_ptr, get_ret>>

\* mutated form: the byte is taken after the slot was given back
GetAdvanceThenLoad ==
  /\ get_pc = "advance"
  /\ get_ptr' = Masked(get_ptr + 1)
  /\ get_ret' = data[Masked(get_ptr + 1)]
  /\ get_pc' = "idle"
  /\ UNCHANGED <<data, putVars, get_c>>

GetAdvance ==
  /\ get_pc = "advance"
  /\ get_ptr' = Masked(get_ptr + 1)
  /\ get_ret' = get_c
  /\ get_pc' = "idle"
  /\ UNCHANGED <<data, putVars, get_c>>

ringbuf_get == GetTest \/ GetLoad \/ GetAdvance

-------------------------------------------------------------------------------
Init == ringbuf_init
Next == ringbuf_put \/ ringbuf_get
Spec == Init /\ [][Next]_vars

-------------------------------------------------------------------------------
(* Every variable stays in the range of its C type and of its role. *)
TypeOK ==
  /\ data \in [Index -> Bytes]
  /\ put_ptr \in Index /\ get_ptr \in Index
  /\ put_pc \in {"idle", "store", "advance"} /\ put_c \in Bytes
  /\ put_ret \in {0, 1}
  /\ get_pc \in {"idle", "load", "advance"} /\ get_c \in Bytes
  /\ get_ret \in Bytes \cup {-1}

(* A writer past its test still has a free slot and a reader past its test *)
(* still has an element, however the other side moved in the meantime; and *)
(* the slot a reader has loaded is not written again before it is freed.   *)
Ownership ==
  /\ put_pc # "idle" => ringbuf_elements < Mask
  /\ get_pc # "idle" => ringbuf_elements > 0
  /\ put_pc = "advance" => data[put_ptr] = put_c
  /\ get_pc = "advance" => get_c = data[get_ptr]

(* The queue the ring stands for: the slots from get_ptr up to put_ptr. *)
Contents == [i \in 1 .. ringbuf_elements |-> data[Masked(get_ptr + i - 1)]]

Fifo == INSTANCE ByteFifo WITH q <- Contents, Capacity <- Mask

(* The ring is a FIFO queue of Size - 1 bytes, whatever the interleaving:  *)
(* nothing is lost, duplicated, reordered or torn, 0 is answered only when *)
(* the ring is full and -1 only when it is empty (ringbuf.h).              *)
ImplementsFifo == Fifo!Spec
===============================================================================
