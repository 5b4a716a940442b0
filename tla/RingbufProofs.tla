---------------------------- MODULE RingbufProofs -----------------------------
(***************************************************************************)
(* Ringbuf is a FIFO queue for every ring size.                            *)
(***************************************************************************)
EXTENDS Ringbuf, SequenceTheorems, TLAPS

(* Taking a value of one wrap modulo Size, in the two cases the code uses. *)
LEMMA MaskedFacts ==
  /\ \A x \in Int : Masked(x) \in Index
  /\ \A x \in 0 .. 2 * Size - 1 :
        Masked(x) = IF x < Size THEN x ELSE x - Size
  /\ \A a, b \in Index :
        Masked(a - b) = IF b <= a THEN a - b ELSE a - b + Size
  BY SizeAssumption DEF Masked, Index

(* Every reachable state is well typed (the C types of ringbuf.c). *)
THEOREM TypeCorrect == Spec => []TypeOK
<1>1. Init => TypeOK
  BY SizeAssumption DEF Init, ringbuf_init, TypeOK, Index
<1>2. TypeOK /\ [Next]_vars => TypeOK'
  <2> SUFFICES ASSUME TypeOK, [Next]_vars PROVE TypeOK'
    OBVIOUS
  <2> USE DEF TypeOK
  <2>1. ASSUME NEW c \in Bytes, PutTest(c) PROVE TypeOK'
    BY <2>1 DEF PutTest, getVars
  <2>2. CASE PutStore
    BY <2>2 DEF PutStore, getVars
  <2>3. CASE PutAdvance
    BY <2>3, MaskedFacts DEF PutAdvance, getVars, Index
  <2>4. CASE GetTest
    BY <2>4 DEF GetTest, putVars
  <2>5. CASE GetLoad
    BY <2>5 DEF GetLoad, putVars
  <2>6. CASE GetAdvance
    BY <2>6, MaskedFacts DEF GetAdvance, putVars, Index
  <2>7. CASE UNCHANGED vars
    BY <2>7 DEF vars, putVars, getVars
  <2> QED
    BY <2>1, <2>2, <2>3, <2>4, <2>5, <2>6, <2>7
    DEF Next, ringbuf_put, ringbuf_get
<1> QED
  BY <1>1, <1>2, PTL DEF Spec

(* How the element count moves when one of the pointers advances. *)
LEMMA CountFacts ==
  ASSUME NEW a \in Index, NEW b \in Index
  PROVE  /\ Masked(a - b) \in 0 .. Mask
         /\ Masked(a - b) < Mask =>
              Masked(Masked(a + 1) - b) = Masked(a - b) + 1
         /\ Masked(a - b) > 0 =>
              Masked(a - Masked(b + 1)) = Masked(a - b) - 1
<1>1. /\ Masked(a + 1) = IF a + 1 < Size THEN a + 1 ELSE 0
      /\ Masked(b + 1) = IF b + 1 < Size THEN b + 1 ELSE 0
  BY SizeAssumption, MaskedFacts DEF Index
<1>2. Masked(a + 1) \in Index /\ Masked(b + 1) \in Index
  BY <1>1, SizeAssumption DEF Index
<1>3. /\ Masked(Masked(a + 1) - b)
           = IF b <= Masked(a + 1) THEN Masked(a + 1) - b
                                   ELSE Masked(a + 1) - b + Size
      /\ Masked(a - Masked(b + 1))
           = IF Masked(b + 1) <= a THEN a - Masked(b + 1)
                                   ELSE a - Masked(b + 1) + Size
      /\ Masked(a - b) = IF b <= a THEN a - b ELSE a - b + Size
  BY <1>2, MaskedFacts
<1> QED
  BY <1>1, <1>2, <1>3, SizeAssumption DEF Index, Mask

(* Where the i-th element is, and that it stays there. *)
LEMMA SlotFacts ==
  ASSUME NEW a \in Index, NEW b \in Index
  PROVE  /\ Masked(b + Masked(a - b)) = a
         /\ \A i \in 1 .. Masked(a - b) :
              /\ Masked(b + i - 1) \in Index
              /\ Masked(b + i - 1) # a
         /\ Masked(b) = b
         /\ \A i \in 1 .. Masked(a - b) :
              Masked(Masked(b + 1) + i - 1) = Masked(b + (i + 1) - 1)
<1>1. Masked(a - b) = IF b <= a THEN a - b ELSE a - b + Size
  BY MaskedFacts
<1>2. Masked(b + Masked(a - b)) = a /\ Masked(b) = b
  BY <1>1, MaskedFacts, SizeAssumption DEF Index
<1>3. Masked(b + 1) = IF b + 1 < Size THEN b + 1 ELSE 0
  BY MaskedFacts, SizeAssumption DEF Index
<1>4. ASSUME NEW i \in 1 .. Masked(a - b)
      PROVE  /\ Masked(b + i - 1) \in Index
             /\ Masked(b + i - 1) # a
             /\ Masked(Masked(b + 1) + i - 1) = Masked(b + (i + 1) - 1)
  <2>1. i \in Nat /\ i >= 1 /\ i < Size
    BY <1>1, <1>4, SizeAssumption DEF Index
  <2>2. Masked(b + i - 1)
          = IF b + i - 1 < Size THEN b + i - 1 ELSE b + i - 1 - Size
    BY <2>1, MaskedFacts, SizeAssumption DEF Index
  <2>3. Masked(b + (i + 1) - 1)
          = IF b + i < Size THEN b + i ELSE b + i - Size
    BY <2>1, MaskedFacts, SizeAssumption DEF Index
  <2>4. Masked(Masked(b + 1) + i - 1)
          = IF Masked(b + 1) + i - 1 < Size
              THEN Masked(b + 1) + i - 1 ELSE Masked(b + 1) + i - 1 - Size
    BY <2>1, <1>3, MaskedFacts, SizeAssumption DEF Index
  <2> QED
    BY <2>1, <2>2, <2>3, <2>4, <1>1, <1>3, SizeAssumption DEF Index
<1> QED
  BY <1>2, <1>4

(* What each side owns once it is past its test. *)
THEOREM OwnershipInvariant == Spec => []Ownership
<1>1. Init => Ownership
  BY DEF Init, ringbuf_init, Ownership
<1>2. TypeOK /\ Ownership /\ [Next]_vars => Ownership'
  <2> SUFFICES ASSUME TypeOK, Ownership, [Next]_vars PROVE Ownership'
    OBVIOUS
  <2> USE DEF TypeOK, Ownership, ringbuf_elements
  <2>a. ringbuf_elements \in 0 .. Mask /\ Mask \in Nat
    BY CountFacts, SizeAssumption DEF Mask
  <2>1. ASSUME NEW c \in Bytes, PutTest(c) PROVE Ownership'
    BY <2>1, <2>a DEF PutTest, getVars, Full
  <2>2. CASE PutStore
    <3>1. get_pc = "advance" => get_ptr # put_ptr
      BY <2>a, MaskedFacts, SizeAssumption DEF Index, Mask
    <3> QED
      BY <2>2, <3>1 DEF PutStore, getVars
  <2>3. CASE PutAdvance
    BY <2>3, <2>a, CountFacts DEF PutAdvance, getVars
  <2>4. CASE GetTest
    BY <2>4, <2>a DEF GetTest, putVars
  <2>5. CASE GetLoad
    BY <2>5 DEF GetLoad, putVars
  <2>6. CASE GetAdvance
    BY <2>6, <2>a, CountFacts DEF GetAdvance, putVars
  <2>7. CASE UNCHANGED vars
    BY <2>7 DEF vars, putVars, getVars
  <2> QED
    BY <2>1, <2>2, <2>3, <2>4, <2>5, <2>6, <2>7
    DEF Next, ringbuf_put, ringbuf_get
<1> QED
  BY <1>1, <1>2, TypeCorrect, PTL DEF Spec

(* The ring implements the FIFO queue of ringbuf.h: a store of put_ptr is  *)
(* the insertion, a store of get_ptr is the removal, and no other step is  *)
(* visible except the two refusals.                                        *)
THEOREM Refinement == Spec => ImplementsFifo
<1>1. Init => Fifo!Init
  <2> SUFFICES ASSUME Init PROVE Fifo!Init
    OBVIOUS
  <2>1. ringbuf_elements = 0
    BY MaskedFacts, SizeAssumption DEF Init, ringbuf_init, ringbuf_elements, Index
  <2>2. Contents = << >>
    BY <2>1 DEF Contents
  <2> QED
    BY <2>2 DEF Init, ringbuf_init, Fifo!Init
<1>2. TypeOK /\ Ownership /\ [Next]_vars => [Fifo!Next]_Fifo!fifoVars
  <2> SUFFICES ASSUME TypeOK, Ownership, [Next]_vars
               PROVE  Fifo!Next \/ UNCHANGED Fifo!fifoVars
    OBVIOUS
  <2> DEFINE n == ringbuf_elements
  <2>a. n \in 0 .. Mask /\ Mask \in Nat
    BY CountFacts, SizeAssumption DEF Mask, ringbuf_elements, TypeOK
  <2>b. \A i \in 1 .. n : Masked(get_ptr + i - 1) \in Index
    BY SlotFacts DEF TypeOK, ringbuf_elements
  <2>c. Contents \in Seq(Bytes) /\ Len(Contents) = n
    BY <2>a, <2>b DEF Contents, TypeOK
  <2>1. ASSUME NEW c \in Bytes, PutTest(c)
        PROVE  Fifo!Next \/ UNCHANGED Fifo!fifoVars
    <3>1. Contents' = Contents
      BY <2>1 DEF PutTest, Contents, ringbuf_elements, getVars
    <3>2. CASE Full
      BY <2>1, <3>1, <3>2, <2>c
      DEF PutTest, Full, getVars, Fifo!Next, Fifo!PutFull
    <3>3. CASE ~Full
      BY <2>1, <3>1, <3>3 DEF PutTest, getVars, Fifo!fifoVars
    <3> QED
      BY <3>2, <3>3
  <2>2. CASE PutStore
    <3>1. \A i \in 1 .. n : Masked(get_ptr + i - 1) # put_ptr
      BY SlotFacts DEF TypeOK, ringbuf_elements
    <3>2. n' = n /\ get_ptr' = get_ptr
      BY <2>2 DEF PutStore, ringbuf_elements, getVars
    <3>3. \A i \in 1 .. n : data'[Masked(get_ptr + i - 1)]
                              = data[Masked(get_ptr + i - 1)]
      BY <2>2, <2>b, <3>1 DEF PutStore, TypeOK
    <3>4. Contents' = Contents
      BY <3>2, <3>3 DEF Contents
    <3> QED
      BY <2>2, <3>4 DEF PutStore, getVars, Fifo!fifoVars
  <2>3. CASE PutAdvance
    <3>1. n' = n + 1 /\ n < Mask
      BY <2>3, CountFacts DEF PutAdvance, getVars, TypeOK, Ownership, ringbuf_elements
    <3>2. data[Masked(get_ptr + (n + 1) - 1)] = put_c
      <4>1. get_ptr + (n + 1) - 1 = get_ptr + n
        BY <2>a DEF TypeOK, Index
      <4>2. Masked(get_ptr + n) = put_ptr
        BY SlotFacts DEF TypeOK, ringbuf_elements
      <4> QED
        BY <4>1, <4>2, <2>3 DEF PutAdvance, Ownership
    <3>3. Contents' = [i \in 1 .. n + 1 |-> data[Masked(get_ptr + i - 1)]]
      BY <3>1, <2>3 DEF PutAdvance, Contents, getVars
    <3>4. Contents' = Append(Contents, put_c)
      <4>1. \A i \in 1 .. n + 1 : Append(Contents, put_c)[i]
                                    = data[Masked(get_ptr + i - 1)]
        BY <2>a, <2>c, <3>2 DEF Contents, TypeOK
      <4>2. Append(Contents, put_c) \in Seq(Bytes)
              /\ Len(Append(Contents, put_c)) = n + 1
        BY <2>c DEF TypeOK
      <4>3. \A i \in 1 .. n + 1 : data[Masked(get_ptr + i - 1)] \in Bytes
        BY <4>1, <4>2, ElementOfSeq
      <4>4. Contents' \in Seq(Bytes) /\ Len(Contents') = n + 1
        BY <3>3, <4>3, <2>a
      <4>5. \A i \in 1 .. n + 1 : Contents'[i] = Append(Contents, put_c)[i]
        BY <3>3, <4>1
      <4> QED
        BY <4>2, <4>4, <4>5, SeqEqual
    <3> QED
      BY <3>1, <3>4, <2>3, <2>c
      DEF PutAdvance, getVars, TypeOK, Fifo!Next, Fifo!Put
  <2>4. CASE GetTest
    <3>1. Contents' = Contents
      BY <2>4 DEF GetTest, Contents, ringbuf_elements, putVars
    <3>2. CASE n > 0
      BY <2>4, <3>1, <3>2 DEF GetTest, putVars, Fifo!fifoVars
    <3>3. CASE ~(n > 0)
      <4>1. Contents = << >>
        BY <2>a, <3>3 DEF Contents
      <4> QED
        BY <2>4, <3>1, <3>3, <4>1
        DEF GetTest, putVars, Fifo!Next, Fifo!GetEmpty
    <3> QED
      BY <3>2, <3>3
  <2>5. CASE GetLoad
    <3>1. Contents' = Contents
      BY <2>5 DEF GetLoad, Contents, ringbuf_elements, putVars
    <3> QED
      BY <2>5, <3>1 DEF GetLoad, putVars, Fifo!fifoVars
  <2>6. CASE GetAdvance
    <3>1. n' = n - 1 /\ n > 0
      BY <2>6, CountFacts DEF GetAdvance, putVars, TypeOK, Ownership, ringbuf_elements
    <3>2. Contents[1] = get_c
      BY <2>6, <2>a, <3>1, SlotFacts DEF GetAdvance, Contents, Ownership, TypeOK, Index
    <3>3. \A i \in 1 .. n - 1 :
             Masked(Masked(get_ptr + 1) + i - 1) = Masked(get_ptr + (i + 1) - 1)
      BY <2>a, SlotFacts DEF TypeOK, ringbuf_elements
    <3>4. Contents' = [i \in 1 .. n - 1 |-> data[Masked(get_ptr + (i + 1) - 1)]]
      BY <2>6, <3>1, <3>3 DEF GetAdvance, Contents, putVars
    <3>5. /\ Tail(Contents) \in Seq(Bytes) /\ Len(Tail(Contents)) = n - 1
          /\ \A i \in 1 .. n - 1 : Tail(Contents)[i] = Contents[i + 1]
      BY <2>a, <2>c, <3>1, HeadTailProperties
    <3>6. \A i \in 1 .. n - 1 :
             Contents[i + 1] = data[Masked(get_ptr + (i + 1) - 1)]
      BY <2>a DEF Contents
    <3>7. Contents' = Tail(Contents)
      <4>1. \A i \in 1 .. n - 1 : Contents[i + 1] \in Bytes
        BY <2>a, <2>c, ElementOfSeq
      <4>2. Contents' \in Seq(Bytes) /\ Len(Contents') = n - 1
        BY <2>a, <3>1, <3>4, <3>6, <4>1
      <4>3. \A i \in 1 .. n - 1 : Contents'[i] = Tail(Contents)[i]
        BY <3>4, <3>5, <3>6
      <4> QED
        BY <3>5, <4>2, <4>3, SeqEqual
    <3> QED
      BY <2>6, <2>c, <3>1, <3>2, <3>7
      DEF GetAdvance, putVars, Fifo!Next, Fifo!Get
  <2>7. CASE UNCHANGED vars
    BY <2>7 DEF vars, putVars, getVars, Contents, ringbuf_elements, Fifo!fifoVars
  <2> QED
    BY <2>1, <2>2, <2>3, <2>4, <2>5, <2>6, <2>7
    DEF Next, ringbuf_put, ringbuf_get
<1> QED
  BY <1>1, <1>2, TypeCorrect, OwnershipInvariant, PTL
  DEF Spec, ImplementsFifo, Fifo!Spec
===============================================================================
