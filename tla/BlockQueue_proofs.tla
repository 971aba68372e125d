-------------------------- MODULE BlockQueue_proofs --------------------------
(***************************************************************************)
(* Proofs about dab::queue, for every block size, every set of values and  *)
(* every interleaving of the two threads: its elements stay constructed    *)
(* objects inside the array, nobody sleeps beside what he waits for, and   *)
(* what its users see is a queue of blocks.                                *)
(***************************************************************************)
EXTENDS BlockQueue, SequenceTheorems, TLAPS

(* What the locals of an enqueue are outside of one and at its start.      *)
CallState ==
  /\ ppc = "idle" => block = <<>> /\ ~single
  /\ ppc \in {"idle", "reserve"} => constructed = 0
  /\ single => Len(block) = 1

(* The elements never start in the upper half of the array: a dequeue      *)
(* moves them down before.                                                 *)
HalfFree == 2 * m_current <= m_capacity

(* The ghost covers what the queue holds and what it is asked to take.     *)
DemandCovers ==
  /\ m_size <= demand
  /\ ppc \in {"reserve", "construct"} => m_size + Len(block) <= demand

(* The slots behind the elements hold the block as far as it is copied.    *)
Copies ==
  ppc = "construct" =>
    \A i \in 1 .. constructed : store[m_current + m_size + i - 1] = block[i]

(* The number of objects behind the elements that are not elements yet.    *)
Extra == IF ppc = "construct" THEN constructed ELSE 0

LiveSlots == ~abandoned => Live = m_current .. m_current + m_size + Extra - 1

SleepsForSome == cpc = "waiting" => want > 0

Inv ==
  /\ TypeOK
  /\ ElementsAlive
  /\ RoomReserved
  /\ CallState
  /\ HalfFree
  /\ DemandCovers
  /\ Copies
  /\ LiveSlots
  /\ SleepsForSome
  /\ NoLostWakeup
  /\ CapacityBoundedByDemand

-----------------------------------------------------------------------------
(* What is left of a sequence of len elements without its first n.         *)
LEMMA RestOfSeq ==
  ASSUME NEW S, NEW s, NEW len \in Nat, NEW n \in Nat, n <= len,
         \A i \in n + 1 .. len : s[i] \in S
  PROVE  /\ Len(SubSeq(s, n + 1, len)) = len - n
         /\ \A i \in 1 .. len - n : SubSeq(s, n + 1, len)[i] = s[n + i]
<1>1. /\ len - (n + 1) + 1 = len - n
      /\ len - n = IF n + 1 <= len THEN len - (n + 1) + 1 ELSE 0
  OBVIOUS
<1>2. /\ Len(SubSeq(s, n + 1, len)) = IF n + 1 <= len THEN len - (n + 1) + 1 ELSE 0
      /\ \A i \in 1 .. len - (n + 1) + 1 : SubSeq(s, n + 1, len)[i] = s[(n + 1) + i - 1]
  BY SubSeqProperties
<1>3. \A i \in 1 .. len - n : (n + 1) + i - 1 = n + i
  OBVIOUS
<1> QED
  BY <1>1, <1>2, <1>3

(* Arithmetic of the capacity.                                             *)

LEMMA Quotient ==
  ASSUME NEW n \in Nat, NEW a \in Nat \ {0}
  PROVE  /\ n \div a \in Nat
         /\ n < (n \div a + 1) * a
         /\ (n \div a + 1) * a <= n + a
         /\ (n \div a + 1) * a \in Nat
OBVIOUS

(* More than half of n slots, without the division.                        *)
LEMMA Half ==
  ASSUME NEW n \in Nat, NEW k \in Nat
  PROVE  k > n \div 2 <=> 2 * k > n
OBVIOUS

(* An index of a window of b slots from slot a on, counted from a.         *)
LEMMA InWindow ==
  ASSUME NEW a \in Nat, NEW b \in Nat, NEW k \in a .. a + b - 1
  PROVE  k - a \in 0 .. b - 1 /\ a + (k - a) = k
OBVIOUS

(* A window that ends within the array lies within it.                     *)
LEMMA InArray ==
  ASSUME NEW a \in Nat, NEW b \in Nat, NEW c \in Nat, a + b <= c, NEW k \in a .. a + b - 1
  PROVE  k \in 0 .. c - 1
OBVIOUS

(* What growing gives: room for the block, and no more than the block and  *)
(* one allocation unit beyond what is there.                               *)
LEMMA Growth ==
  ASSUME TypeOK, ElementsAlive, CallState, MustGrow
  PROVE  /\ GrownCapacity \in Nat
         /\ m_capacity <= GrownCapacity
         /\ m_size + Len(block) <= GrownCapacity
         /\ GrownCapacity <= m_current + m_size + Len(block) + AllocSize
         /\ m_capacity - m_current <= m_size + Len(block)
<1> USE QueueAssumption
<1>0. Len(block) \in Nat /\ available \in Nat
  BY LenProperties DEF TypeOK, ElementsAlive, available
<1>1. CASE single
  <2>1. /\ GrownCapacity = m_capacity + AllocSize
        /\ available = 0 /\ Len(block) = 1
    BY <1>1 DEF MustGrow, GrownCapacity, CallState
  <2>2. m_capacity = m_current + m_size
    BY <2>1 DEF available, TypeOK
  <2> QED
    BY <2>1, <2>2 DEF TypeOK
<1>2. CASE ~single
  <2> DEFINE n == Len(block) - available
  <2>1. n \in Nat
    BY <1>0, <1>2 DEF MustGrow
  <2>2. GrownCapacity = m_capacity + (n \div AllocSize + 1) * AllocSize
    BY <1>2 DEF GrownCapacity
  <2> HIDE DEF n
  <2>3. /\ n < (n \div AllocSize + 1) * AllocSize
        /\ (n \div AllocSize + 1) * AllocSize <= n + AllocSize
        /\ (n \div AllocSize + 1) * AllocSize \in Nat
    BY <2>1, Quotient
  <2>4. m_capacity = m_current + m_size + available
    BY <1>0 DEF available, TypeOK
  <2> QED
    BY <1>0, <2>1, <2>2, <2>3, <2>4 DEF TypeOK, n
<1> QED
  BY <1>1, <1>2 DEF TypeOK

-----------------------------------------------------------------------------
(* The elements as a sequence.                                             *)

LEMMA WindowIsSeq ==
  ASSUME NEW S, NEW size \in Nat, NEW current \in Nat, NEW s,
         \A k \in current .. current + size - 1 : s[k] \in S
  PROVE  /\ [i \in 1 .. size |-> s[current + i - 1]] \in Seq(S)
         /\ Len([i \in 1 .. size |-> s[current + i - 1]]) = size
<1> DEFINE f == [i \in 1 .. size |-> s[current + i - 1]]
<1>1. \A i \in 1 .. size : current + i - 1 \in current .. current + size - 1
  OBVIOUS
<1>2. f \in [1 .. size -> S]
  BY <1>1
<1> HIDE DEF f
<1>3. f \in Seq(S) /\ Len(f) = size
  BY <1>2
<1> QED
  BY <1>3 DEF f

(* The elements of the queue are a sequence of values of the length        *)
(* m_size.                                                                 *)
LEMMA ItemsAreSeq ==
  TypeOK /\ ElementsAlive =>
    /\ Items \in Seq(Values)
    /\ Len(Items) = m_size
    /\ \A i \in 1 .. m_size : Items[i] = store[m_current + i - 1]
<1> SUFFICES ASSUME TypeOK, ElementsAlive
    PROVE /\ Items \in Seq(Values)
          /\ Len(Items) = m_size
          /\ \A i \in 1 .. m_size : Items[i] = store[m_current + i - 1]
  OBVIOUS
<1>1. \A k \in m_current .. m_current + m_size - 1 : store[k] \in Values
  BY DEF TypeOK, ElementsAlive, Window
<1>2. m_size \in Nat /\ m_current \in Nat
  BY DEF TypeOK
<1>3. Items \in Seq(Values) /\ Len(Items) = m_size
  BY <1>1, <1>2, WindowIsSeq DEF Items
<1> QED
  BY <1>3 DEF Items

(* What Array makes of a sequence that fits.                               *)
LEMMA ArrayHolds ==
  ASSUME NEW n \in Nat, NEW s \in Seq(Values), Len(s) <= n
  PROVE  /\ Array(n, s) \in [0 .. n - 1 -> Values \cup {Raw}]
         /\ \A k \in 0 .. Len(s) - 1 : Array(n, s)[k] = s[k + 1]
         /\ \A k \in Len(s) .. n - 1 : Array(n, s)[k] = Raw
<1>1. Len(s) \in Nat /\ \A i \in 1 .. Len(s) : s[i] \in Values
  OBVIOUS
<1> QED
  BY <1>1 DEF Array

-----------------------------------------------------------------------------
(* The producer's steps.                                                   *)

(* The call remembers its block and takes the lock; no slot changes.       *)
LEMMA EnqueueInv ==
  ASSUME Inv, NEW b \in Seq(Values), NEW one \in BOOLEAN, Enqueue(b, one)
  PROVE  Inv'
<1> USE DEF Inv, Enqueue, memory, consumer
<1>0. Len(b) \in Nat
  OBVIOUS
<1>1. TypeOK' /\ CallState'
  BY <1>0 DEF TypeOK, CallState, AtLeast
<1>2. ElementsAlive' /\ RoomReserved' /\ HalfFree' /\ Copies'
  BY DEF ElementsAlive, Window, RoomReserved, HalfFree, Copies
<1>3. DemandCovers'
  BY <1>0 DEF TypeOK, DemandCovers, AtLeast
<1>4. LiveSlots'
  <2>1. ppc = "idle" /\ Extra = 0 /\ Extra' = 0
    BY DEF Extra
  <2> QED
    BY <2>1 DEF LiveSlots, Live
<1>5. SleepsForSome' /\ NoLostWakeup'
  BY DEF SleepsForSome, NoLostWakeup
<1>6. CapacityBoundedByDemand'
  BY <1>0, QueueAssumption DEF TypeOK, CapacityBoundedByDemand, AtLeast
<1> QED
  BY <1>1, <1>2, <1>3, <1>4, <1>5, <1>6

(* The room there is suffices: the window of the block ends within the     *)
(* array.                                                                  *)
LEMMA ReserveInv ==
  ASSUME Inv, Reserve
  PROVE  Inv'
<1> USE DEF Inv, Reserve, memory, consumer
<1>0. Len(block) \in Nat /\ constructed = 0
  BY DEF TypeOK, CallState
<1>1. TypeOK' /\ CallState'
  BY DEF TypeOK, CallState
<1>2. ElementsAlive' /\ HalfFree' /\ DemandCovers'
  BY DEF ElementsAlive, Window, HalfFree, DemandCovers
<1>3. RoomReserved'
  <2>1. available \in Nat
    BY DEF TypeOK, ElementsAlive, available
  <2>2. CASE single
    BY <1>0, <2>1, <2>2 DEF RoomReserved, MustGrow, available, TypeOK, CallState
  <2>3. CASE ~single
    BY <1>0, <2>1, <2>3 DEF RoomReserved, MustGrow, available, TypeOK
  <2> QED
    BY <2>2, <2>3
<1>4. Copies'
  BY <1>0 DEF Copies
<1>5. LiveSlots'
  BY <1>0 DEF LiveSlots, Live, Extra
<1>6. SleepsForSome' /\ NoLostWakeup' /\ CapacityBoundedByDemand'
  BY DEF SleepsForSome, NoLostWakeup, CapacityBoundedByDemand
<1> QED
  BY <1>1, <1>2, <1>3, <1>4, <1>5, <1>6

(* The new array is large enough for the elements and the block, and the   *)
(* objects in it are the elements.                                         *)
LEMMA ResizeMemory ==
  ASSUME Inv, Resize
  PROVE  /\ m_capacity' \in Nat /\ m_current' = 0 /\ m_size' = m_size
         /\ store' \in [0 .. m_capacity' - 1 -> Values \cup {Raw}]
         /\ m_size + Len(block) <= m_capacity'
         /\ \A k \in 0 .. m_size - 1 : store'[k] = store[m_current + k] /\ store'[k] # Raw
         /\ \A k \in m_size .. m_capacity' - 1 : store'[k] = Raw
<1>1. /\ GrownCapacity \in Nat
      /\ m_size + Len(block) <= GrownCapacity
  BY Growth DEF Inv, Resize
<1>2. /\ Items \in Seq(Values) /\ Len(Items) = m_size
      /\ \A i \in 1 .. m_size : Items[i] = store[m_current + i - 1]
  BY ItemsAreSeq DEF Inv
<1>3. m_size \in Nat /\ m_current \in Nat /\ Len(block) \in Nat
  BY DEF Inv, TypeOK
<1>4. /\ store' \in [0 .. GrownCapacity - 1 -> Values \cup {Raw}]
      /\ \A k \in 0 .. m_size - 1 : store'[k] = Items[k + 1]
      /\ \A k \in m_size .. GrownCapacity - 1 : store'[k] = Raw
  <2>1. Len(Items) <= GrownCapacity
    BY <1>1, <1>2, <1>3
  <2>2. /\ Array(GrownCapacity, Items) \in [0 .. GrownCapacity - 1 -> Values \cup {Raw}]
        /\ \A k \in 0 .. Len(Items) - 1 : Array(GrownCapacity, Items)[k] = Items[k + 1]
        /\ \A k \in Len(Items) .. GrownCapacity - 1 : Array(GrownCapacity, Items)[k] = Raw
    BY <1>1, <1>2, <2>1, ArrayHolds
  <2> QED
    BY <1>2, <2>2 DEF Resize
<1>5. ASSUME NEW k \in 0 .. m_size - 1
      PROVE  store'[k] = store[m_current + k] /\ store'[k] # Raw
  <2>1. k + 1 \in 1 .. m_size /\ m_current + (k + 1) - 1 = m_current + k
    BY <1>3
  <2>2. store'[k] = Items[k + 1] /\ Items[k + 1] = store[m_current + (k + 1) - 1]
    BY <1>2, <1>4, <2>1
  <2>3. m_current + k \in Window
    BY <1>3 DEF Window
  <2> QED
    BY <2>1, <2>2, <2>3 DEF Inv, ElementsAlive
<1> QED
  BY <1>1, <1>3, <1>4, <1>5 DEF Resize

(* The new store has room for the elements and the block, and the          *)
(* elements move to its front.                                             *)
LEMMA ResizeInv ==
  ASSUME Inv, Resize
  PROVE  Inv'
<1> USE DEF Inv
<1>0. /\ m_capacity' \in Nat /\ m_current' = 0 /\ m_size' = m_size
      /\ store' \in [0 .. m_capacity' - 1 -> Values \cup {Raw}]
      /\ m_size + Len(block) <= m_capacity'
      /\ \A k \in 0 .. m_size - 1 : store'[k] # Raw
      /\ \A k \in m_size .. m_capacity' - 1 : store'[k] = Raw
  BY ResizeMemory
<1>1. /\ block' = block /\ Len(block) \in Nat /\ single' = single
      /\ constructed' = 0 /\ constructed = 0 /\ ppc = "reserve" /\ ppc' = "construct"
      /\ m_size \in Nat /\ demand' = demand /\ m_capacity' = GrownCapacity
      /\ locked' = locked /\ abandoned' = FALSE
      /\ UNCHANGED consumer
  BY DEF Resize, TypeOK, CallState
<1>2. TypeOK'
  BY <1>0, <1>1 DEF TypeOK, consumer
<1>3. ElementsAlive' /\ RoomReserved' /\ HalfFree'
  BY <1>0, <1>1 DEF ElementsAlive, Window, RoomReserved, HalfFree
<1>4. CallState' /\ Copies' /\ DemandCovers'
  BY <1>0, <1>1 DEF CallState, Copies, DemandCovers
<1>5. LiveSlots'
  BY <1>0, <1>1 DEF LiveSlots, Live, Extra
<1>6. SleepsForSome' /\ NoLostWakeup'
  BY <1>0, <1>1 DEF SleepsForSome, NoLostWakeup, consumer
<1>7. CapacityBoundedByDemand'
  <2>1. /\ GrownCapacity <= m_current + m_size + Len(block) + AllocSize
        /\ m_capacity - m_current <= m_size + Len(block)
    BY Growth DEF Resize
  <2>2. m_size + Len(block) <= demand /\ 2 * m_current <= m_capacity
    BY <1>1 DEF DemandCovers, HalfFree
  <2>3. GrownCapacity <= 2 * demand + AllocSize
    BY <1>0, <1>1, <2>1, <2>2, QueueAssumption DEF TypeOK
  <2> QED
    BY <1>0, <1>1, <2>3, QueueAssumption DEF CapacityBoundedByDemand, AtLeast, TypeOK
<1> QED
  BY <1>2, <1>3, <1>4, <1>5, <1>6, <1>7

(* What leaving an enqueue makes of the producer's part of the types.      *)
LEMMA LeaveTypes ==
  ASSUME LeaveEnqueue
  PROVE  /\ locked' \in BOOLEAN /\ ppc' = "idle" /\ (locked' <=> ppc' # "idle")
         /\ block' \in Seq(Values) /\ block' = <<>> /\ single' = FALSE
         /\ constructed' = 0 /\ constructed' \in 0 .. Len(block')
<1>1. block' = <<>> /\ constructed' = 0
  BY DEF LeaveEnqueue
<1>2. block' \in Seq(Values) /\ Len(block') = 0
  BY <1>1, EmptySeq
<1>3. 0 \in 0 .. Len(block')
  BY <1>2
<1> QED
  BY <1>1, <1>2, <1>3 DEF LeaveEnqueue

(* A store that cannot be had leaves the queue as it was.                  *)
LEMMA AllocateThrowsInv ==
  ASSUME Inv, AllocateThrows
  PROVE  Inv'
<1> USE DEF Inv, AllocateThrows, memory, consumer
<1>00. /\ locked' \in BOOLEAN /\ ppc' = "idle" /\ (locked' <=> ppc' # "idle")
      /\ block' \in Seq(Values) /\ block' = <<>> /\ single' = FALSE
      /\ constructed' = 0 /\ constructed' \in 0 .. Len(block')
  BY LeaveTypes
<1>1. TypeOK' /\ CallState'
  BY <1>00 DEF TypeOK, CallState
<1>2. ElementsAlive' /\ RoomReserved' /\ HalfFree' /\ Copies'
  BY <1>00 DEF ElementsAlive, Window, RoomReserved, HalfFree, Copies
<1>3. DemandCovers' /\ SleepsForSome' /\ NoLostWakeup' /\ CapacityBoundedByDemand'
  BY <1>00 DEF DemandCovers, SleepsForSome, NoLostWakeup, CapacityBoundedByDemand
<1>4. LiveSlots'
  BY <1>00 DEF LiveSlots, Live, Extra
<1> QED
  BY <1>1, <1>2, <1>3, <1>4

(* The copy goes to a slot of the array behind the elements and behind the *)
(* copies before it.                                                       *)
LEMMA ConstructInv ==
  ASSUME Inv, Construct
  PROVE  Inv'
<1> USE DEF Inv
<1>0. /\ m_current \in Nat /\ m_size \in Nat /\ m_capacity \in Nat
      /\ constructed \in Nat /\ Len(block) \in Nat /\ constructed < Len(block)
      /\ ppc = "construct"
      /\ store' = [store EXCEPT ![Target] = block[constructed + 1]]
      /\ constructed' = constructed + 1
      /\ UNCHANGED <<m_capacity, m_current, m_size, locked, ppc, block, single, consumer,
                     demand, abandoned>>
  BY DEF Construct, TypeOK
<1>1. block[constructed + 1] \in Values /\ block[constructed + 1] # Raw
  <2>1. constructed + 1 \in 1 .. Len(block)
    BY <1>0
  <2> QED
    BY <2>1, QueueAssumption, ElementOfSeq DEF TypeOK
<1>2. Target \in 0 .. m_capacity - 1 /\ Target = m_current + m_size + constructed
  BY <1>0 DEF RoomReserved, Target
<1>3. /\ store' \in [0 .. m_capacity - 1 -> Values \cup {Raw}]
      /\ store'[Target] = block[constructed + 1]
      /\ \A k \in 0 .. m_capacity - 1 : k # Target => store'[k] = store[k]
  BY <1>0, <1>1, <1>2 DEF TypeOK
<1> HIDE DEF Target
<1>4. TypeOK'
  BY <1>0, <1>3 DEF TypeOK, consumer
<1>5. ElementsAlive'
  BY <1>0, <1>2, <1>3 DEF ElementsAlive, Window
<1>6. RoomReserved' /\ CallState' /\ HalfFree' /\ DemandCovers'
  BY <1>0 DEF RoomReserved, CallState, HalfFree, DemandCovers
<1>7. Copies'
  <2> SUFFICES ASSUME NEW i \in 1 .. constructed + 1
      PROVE store'[m_current + m_size + i - 1] = block[i]
    BY <1>0 DEF Copies
  <2>1. CASE i = constructed + 1
    <3>1. m_current + m_size + i - 1 = Target
      BY <1>0, <1>2, <2>1
    <3> QED
      BY <1>3, <2>1, <3>1
  <2>2. CASE i # constructed + 1
    <3>1. /\ m_current + m_size + i - 1 \in 0 .. m_capacity - 1
          /\ m_current + m_size + i - 1 # Target
          /\ i \in 1 .. constructed
      BY <1>0, <1>2, <2>2
    <3> QED
      BY <1>0, <1>3, <3>1 DEF Copies
  <2> QED
    BY <2>1, <2>2
<1>8. LiveSlots'
  <2> SUFFICES ASSUME ~abandoned
      PROVE Live' = m_current .. m_current + m_size + constructed
    BY <1>0 DEF LiveSlots, Extra
  <2>1. Live = m_current .. m_current + m_size + constructed - 1
    BY <1>0 DEF LiveSlots, Extra
  <2>2. DOMAIN store = 0 .. m_capacity - 1 /\ DOMAIN store' = 0 .. m_capacity - 1
    BY <1>3 DEF TypeOK
  <2>3. Live' = Live \cup {Target}
    BY <1>1, <1>2, <1>3, <2>2 DEF Live
  <2> QED
    BY <1>0, <1>2, <2>1, <2>3
<1>9. SleepsForSome' /\ NoLostWakeup' /\ CapacityBoundedByDemand'
  BY <1>0 DEF SleepsForSome, NoLostWakeup, CapacityBoundedByDemand, consumer
<1> QED
  BY <1>4, <1>5, <1>6, <1>7, <1>8, <1>9

(* The copies made before the one that throws stay behind and are counted  *)
(* as abandoned.                                                           *)
LEMMA ConstructThrowsInv ==
  ASSUME Inv, ConstructThrows
  PROVE  Inv'
<1> USE DEF Inv, ConstructThrows, memory, consumer
<1>0. constructed \in Nat
  BY DEF TypeOK
<1>00. /\ locked' \in BOOLEAN /\ ppc' = "idle" /\ (locked' <=> ppc' # "idle")
      /\ block' \in Seq(Values) /\ block' = <<>> /\ single' = FALSE
      /\ constructed' = 0 /\ constructed' \in 0 .. Len(block')
  BY LeaveTypes
<1>1. TypeOK' /\ CallState'
  BY <1>0, <1>00 DEF TypeOK, CallState
<1>2. ElementsAlive' /\ RoomReserved' /\ HalfFree' /\ Copies'
  BY <1>00 DEF ElementsAlive, Window, RoomReserved, HalfFree, Copies
<1>3. DemandCovers' /\ SleepsForSome' /\ NoLostWakeup' /\ CapacityBoundedByDemand'
  BY <1>00 DEF DemandCovers, SleepsForSome, NoLostWakeup, CapacityBoundedByDemand
<1>4. LiveSlots'
  <2> SUFFICES ASSUME ~abandoned' PROVE Live' = m_current' .. m_current' + m_size' + 0 - 1
    BY <1>00 DEF LiveSlots, Extra
  <2>1. ~abandoned /\ ~(constructed > 0)
    BY Zenon
  <2>2. constructed = 0
    BY <1>0, <2>1
  <2> QED
    BY <1>00, <2>1, <2>2 DEF LiveSlots, Live, Extra
<1> QED
  BY <1>1, <1>2, <1>3, <1>4

(* The copies become elements, and the consumer is about to be notified.   *)
LEMMA PublishInv ==
  ASSUME Inv, Publish
  PROVE  Inv'
<1> USE DEF Inv
<1>0. /\ m_current \in Nat /\ m_size \in Nat /\ m_capacity \in Nat
      /\ Len(block) \in Nat /\ constructed = Len(block)
      /\ ppc = "construct" /\ ppc' = "notify"
      /\ m_size' = m_size + Len(block)
      /\ UNCHANGED <<m_capacity, m_current, store, locked, block, single, constructed,
                     consumer, demand, abandoned>>
  BY DEF Publish, TypeOK
<1>1. TypeOK' /\ CallState'
  BY <1>0 DEF TypeOK, CallState, consumer
<1>2. ElementsAlive'
  <2>1. m_current + m_size + Len(block) <= m_capacity
    BY <1>0 DEF RoomReserved
  <2>2. ASSUME NEW k \in m_current .. m_current + m_size + Len(block) - 1
        PROVE  store[k] # Raw
    <3>1. CASE k <= m_current + m_size - 1
      BY <1>0, <3>1 DEF ElementsAlive, Window
    <3>2. CASE k > m_current + m_size - 1
      <4> DEFINE i == k - m_current - m_size + 1
      <4>1. i \in 1 .. Len(block) /\ k = m_current + m_size + i - 1
        BY <1>0, <3>2
      <4>2. store[k] = block[i]
        BY <1>0, <4>1 DEF Copies
      <4>3. block[i] \in Values
        BY <4>1, ElementOfSeq DEF TypeOK
      <4> QED
        BY <4>2, <4>3, QueueAssumption
    <3> QED
      BY <1>0, <3>1, <3>2
  <2> QED
    BY <1>0, <2>1, <2>2 DEF ElementsAlive, Window
<1>3. RoomReserved' /\ HalfFree' /\ DemandCovers' /\ Copies'
  BY <1>0 DEF RoomReserved, HalfFree, DemandCovers, Copies
<1>4. LiveSlots'
  BY <1>0 DEF LiveSlots, Live, Extra
<1>5. SleepsForSome' /\ NoLostWakeup' /\ CapacityBoundedByDemand'
  BY <1>0 DEF SleepsForSome, NoLostWakeup, CapacityBoundedByDemand, consumer
<1> QED
  BY <1>1, <1>2, <1>3, <1>4, <1>5

(* The consumer is woken, or there is none asleep.                         *)
LEMMA NotifyInv ==
  ASSUME Inv, Notify
  PROVE  Inv'
<1> USE DEF Inv, Notify, memory
<1>00. /\ locked' \in BOOLEAN /\ ppc' = "idle" /\ (locked' <=> ppc' # "idle")
      /\ block' \in Seq(Values) /\ block' = <<>> /\ single' = FALSE
      /\ constructed' = 0 /\ constructed' \in 0 .. Len(block')
  BY LeaveTypes
<1>1. TypeOK' /\ CallState'
  BY <1>00 DEF TypeOK, CallState, Woken
<1>2. ElementsAlive' /\ RoomReserved' /\ HalfFree' /\ Copies' /\ DemandCovers'
  BY <1>00 DEF ElementsAlive, Window, RoomReserved, HalfFree, Copies, DemandCovers
<1>3. SleepsForSome' /\ NoLostWakeup' /\ CapacityBoundedByDemand'
  BY <1>00 DEF SleepsForSome, NoLostWakeup, CapacityBoundedByDemand, Woken
<1>4. LiveSlots'
  BY <1>00 DEF LiveSlots, Live, Extra
<1> QED
  BY <1>1, <1>2, <1>3, <1>4

-----------------------------------------------------------------------------
(* The consumer's steps.                                                   *)

(* What a dequeue leaves in memory: the elements behind those it took, at  *)
(* either of two places, and nothing alive where the elements were.        *)
LEMMA RemoveMemory ==
  ASSUME Inv, ppc = "idle", NEW n \in Nat, n <= m_size, Remove(n)
  PROVE  /\ m_capacity' = m_capacity /\ m_size' = m_size - n /\ m_size' \in Nat
         /\ m_current' \in Nat /\ 2 * m_current' <= m_capacity
         /\ m_current' + m_size' <= m_capacity
         /\ store' \in [0 .. m_capacity - 1 -> Values \cup {Raw}]
         /\ \A k \in 0 .. m_size' - 1 :
              store'[m_current' + k] = store[m_current + n + k] /\ store'[m_current' + k] # Raw
         /\ ~abandoned =>
              \A k \in 0 .. m_capacity - 1 :
                k \notin m_current' .. m_current' + m_size' - 1 => store'[k] = Raw
<1> DEFINE current == m_current + n
<1>1. /\ m_current \in Nat /\ m_size \in Nat /\ m_capacity \in Nat
      /\ m_current + m_size <= m_capacity /\ 2 * m_current <= m_capacity
      /\ store \in [0 .. m_capacity - 1 -> Values \cup {Raw}]
      /\ \A k \in m_current .. m_current + m_size - 1 : store[k] # Raw
  BY DEF Inv, TypeOK, ElementsAlive, HalfFree, Window
<1>2. /\ m_capacity' = m_capacity /\ m_size' = m_size - n /\ m_size - n \in Nat
      /\ current \in Nat
  BY <1>1 DEF Remove
<1>3. ~abandoned => \A k \in 0 .. m_capacity - 1 :
                      k \notin m_current .. m_current + m_size - 1 => store[k] = Raw
  <2>1. ~abandoned => Live = m_current .. m_current + m_size - 1
    BY <1>1 DEF Inv, LiveSlots, Extra
  <2>2. DOMAIN store = 0 .. m_capacity - 1
    BY <1>1
  <2> QED
    BY <2>1, <2>2 DEF Live
<1>4. CASE MustShift(current, m_capacity)
  <2> DEFINE left == Moved(n)
  <2>1. /\ m_current' = 0
        /\ store' = [k \in DOMAIN store |->
                       IF k < Len(left) THEN left[k + 1]
                       ELSE IF k \in Window THEN Raw ELSE store[k]]
    BY <1>4 DEF Remove
  <2>2. /\ Len(left) = m_size - n
        /\ \A k \in 0 .. m_size - n - 1 : left[k + 1] = store[m_current + n + k]
    <3>1. /\ Items \in Seq(Values) /\ Len(Items) = m_size
          /\ \A i \in 1 .. m_size : Items[i] = store[m_current + i - 1]
      BY ItemsAreSeq DEF Inv
    <3>2. \A i \in n + 1 .. m_size : Items[i] \in Values
      BY <1>1, <3>1, ElementOfSeq
    <3>3. /\ Len(SubSeq(Items, n + 1, m_size)) = m_size - n
          /\ \A i \in 1 .. m_size - n : SubSeq(Items, n + 1, m_size)[i] = Items[n + i]
      BY <1>1, <3>2, RestOfSeq
    <3>4. ASSUME NEW k \in 0 .. m_size - n - 1
          PROVE  left[k + 1] = store[m_current + n + k]
      <4>1. /\ k + 1 \in 1 .. m_size - n /\ n + (k + 1) \in 1 .. m_size
            /\ m_current + (n + (k + 1)) - 1 = m_current + n + k
        BY <1>1
      <4> QED
        BY <3>1, <3>3, <4>1 DEF Moved
    <3> QED
      BY <3>3, <3>4 DEF Moved
  <2> HIDE DEF left
  <2>3. ASSUME NEW k \in 0 .. m_capacity - 1
        PROVE  store'[k] = IF k < m_size - n THEN store[m_current + n + k]
                           ELSE IF k \in m_current .. m_current + m_size - 1 THEN Raw ELSE store[k]
    BY <1>1, <1>2, <2>1, <2>2 DEF Window
  <2>4. DOMAIN store' = 0 .. m_capacity - 1
    BY <1>1, <2>1
  <2>5. \A k \in 0 .. m_size - n - 1 :
          /\ k \in 0 .. m_capacity - 1 /\ m_current + n + k \in 0 .. m_capacity - 1
          /\ m_current + n + k \in m_current .. m_current + m_size - 1
    BY <1>1
  <2>6. ASSUME NEW k \in 0 .. m_size - n - 1
        PROVE  store'[k] = store[m_current + n + k] /\ store'[k] # Raw
    <3>1. k < m_size - n /\ k \in 0 .. m_capacity - 1
      BY <1>1, <1>2, <2>5
    <3>2. store'[k] = store[m_current + n + k]
      BY <2>3, <3>1
    <3>3. store[m_current + n + k] # Raw
      BY <1>1, <2>5
    <3> QED
      BY <3>2, <3>3
  <2>7. ASSUME NEW k \in 0 .. m_capacity - 1
        PROVE  store'[k] \in Values \cup {Raw}
    <3>1. CASE k < m_size - n
      <4>1. k \in 0 .. m_size - n - 1
        BY <1>2, <3>1
      <4> QED
        BY <1>1, <2>5, <2>6, <4>1
    <3>2. CASE ~(k < m_size - n)
      BY <1>1, <2>3, <3>2
    <3> QED
      BY <3>1, <3>2
  <2>8. store' \in [0 .. m_capacity - 1 -> Values \cup {Raw}]
    <3>1. store' = [k \in 0 .. m_capacity - 1 |-> store'[k]]
      BY <2>1, <2>4
    <3> QED
      BY <2>7, <3>1
  <2>9. ~abandoned => \A k \in 0 .. m_capacity - 1 :
                        k \notin 0 .. m_size - n - 1 => store'[k] = Raw
    BY <1>1, <1>2, <1>3, <2>3
  <2>10. \A k \in 0 .. m_size - n - 1 : m_current' + k = k
    BY <1>2, <2>1
  <2>11. /\ m_current' \in Nat /\ 2 * m_current' <= m_capacity
         /\ m_current' + m_size' = m_size - n /\ m_size - n <= m_capacity
    BY <1>1, <1>2, <2>1
  <2>12. \A k \in 0 .. m_size' - 1 :
           store'[m_current' + k] = store[m_current + n + k] /\ store'[m_current' + k] # Raw
    <3>1. m_size' - 1 = m_size - n - 1
      BY <1>2
    <3> QED
      BY <2>6, <2>10, <3>1
  <2>13. ~abandoned => \A k \in 0 .. m_capacity - 1 :
                         k \notin m_current' .. m_current' + m_size' - 1 => store'[k] = Raw
    <3>1. m_current' = 0 /\ m_current' + m_size' - 1 = m_size - n - 1
      BY <1>2, <2>1, <2>11
    <3> QED
      BY <2>9, <3>1
  <2> QED
    BY <1>2, <2>8, <2>11, <2>12, <2>13
<1>5. CASE ~MustShift(current, m_capacity)
  <2>1. /\ m_current' = current
        /\ store' = [k \in DOMAIN store |-> IF k \in Emptied(n) THEN Raw ELSE store[k]]
    BY <1>5 DEF Remove
  <2>2. 2 * current <= m_capacity
    BY <1>1, <1>2, <1>5, Half DEF MustShift
  <2>3. /\ store' \in [0 .. m_capacity - 1 -> Values \cup {Raw}]
        /\ \A k \in 0 .. m_capacity - 1 :
             store'[k] = IF k \in m_current .. m_current + n - 1 THEN Raw ELSE store[k]
    BY <1>1, <2>1 DEF Emptied
  <2>4. \A k \in 0 .. m_size - n - 1 :
          store'[current + k] = store[m_current + n + k] /\ store'[current + k] # Raw
    BY <1>1, <2>3
  <2>5. ~abandoned => \A k \in 0 .. m_capacity - 1 :
                        k \notin current .. current + (m_size - n) - 1 => store'[k] = Raw
    BY <1>1, <1>3, <2>3
  <2> QED
    BY <1>1, <1>2, <2>1, <2>2, <2>3, <2>4, <2>5
<1> QED
  BY <1>4, <1>5

(* Both dequeues: dequeue() leaves its call, try_dequeue() was in none.    *)
LEMMA RemoveInv ==
  ASSUME Inv, ~locked, NEW n \in Nat, Satisfied(n), Remove(n),
         UNCHANGED <<producer, demand, abandoned>>,
         cpc' = "idle", want' \in Nat
  PROVE  Inv'
<1>0. /\ ppc = "idle" /\ n <= m_size
      /\ m_current \in Nat /\ m_size \in Nat /\ m_capacity \in Nat
      /\ UNCHANGED <<locked, ppc, block, single, constructed, demand, abandoned>>
  BY DEF Inv, TypeOK, Satisfied, producer
<1>1. /\ m_capacity' = m_capacity /\ m_size' = m_size - n /\ m_size' \in Nat
      /\ m_current' \in Nat /\ 2 * m_current' <= m_capacity
      /\ m_current' + m_size' <= m_capacity
      /\ store' \in [0 .. m_capacity - 1 -> Values \cup {Raw}]
      /\ \A k \in 0 .. m_size' - 1 : store'[m_current' + k] # Raw
      /\ ~abandoned =>
           \A k \in 0 .. m_capacity - 1 :
             k \notin m_current' .. m_current' + m_size' - 1 => store'[k] = Raw
  BY <1>0, RemoveMemory
<1>2. taken' \in Seq(Values)
  <2>1. Items \in Seq(Values) /\ Len(Items) = m_size
    BY ItemsAreSeq DEF Inv
  <2>2. \A i \in 1 .. n : Items[i] \in Values
    BY <1>0, <2>1, ElementOfSeq
  <2> QED
    BY <2>2, SubSeqProperties DEF Remove
<1>3. TypeOK'
  BY <1>0, <1>1, <1>2 DEF Inv, TypeOK
<1>4. \A k \in m_current' .. m_current' + m_size' - 1 : store'[k] # Raw
  <2> TAKE k \in m_current' .. m_current' + m_size' - 1
  <2>1. m_current' \in Nat /\ m_size' \in Nat
    BY <1>1
  <2>2. k - m_current' \in 0 .. m_size' - 1 /\ m_current' + (k - m_current') = k
    BY <2>1, InWindow
  <2> QED
    BY <1>1, <2>2
<1>5. ElementsAlive' /\ HalfFree'
  BY <1>1, <1>4 DEF ElementsAlive, HalfFree, Window
<1>6. RoomReserved' /\ Copies' /\ CallState' /\ DemandCovers'
  BY <1>0, <1>1 DEF Inv, RoomReserved, Copies, CallState, DemandCovers, TypeOK
<1>7. LiveSlots'
  <2> SUFFICES ASSUME ~abandoned PROVE Live' = m_current' .. m_current' + m_size' - 1
    BY <1>0, <1>1 DEF LiveSlots, Extra
  <2>1. DOMAIN store' = 0 .. m_capacity - 1
    BY <1>1
  <2>2. \A k \in m_current' .. m_current' + m_size' - 1 : k \in 0 .. m_capacity - 1
    <3>1. m_current' \in Nat /\ m_size' \in Nat /\ m_current' + m_size' <= m_capacity
      BY <1>1
    <3> QED
      BY <1>0, <3>1, InArray
  <2> QED
    BY <1>1, <1>4, <2>1, <2>2 DEF Live
<1>8. SleepsForSome' /\ NoLostWakeup' /\ CapacityBoundedByDemand'
  BY <1>0, <1>1 DEF Inv, SleepsForSome, NoLostWakeup, CapacityBoundedByDemand
<1> QED
  BY <1>3, <1>5, <1>6, <1>7, <1>8 DEF Inv

(* What the consumer takes is counted out, and the rest moved down if it   *)
(* lies high.                                                              *)
LEMMA TakeInv ==
  ASSUME Inv, Take
  PROVE  Inv'
<1>1. want \in Nat
  BY DEF Inv, TypeOK
<1> QED
  BY <1>1, RemoveInv DEF Take

(* The same without waiting.                                               *)
LEMMA TryDequeueInv ==
  ASSUME Inv, NEW n \in Nat, TryDequeue(n)
  PROVE  Inv'
<1>1. cpc' = "idle" /\ want' \in Nat
  BY DEF TryDequeue, Inv, TypeOK
<1> QED
  BY <1>1, RemoveInv DEF TryDequeue

(* The consumer goes to sleep only while it holds the mutex and does not   *)
(* find enough; that it wants something then is why a try_dequeue() of     *)
(* its own or a clear() cannot satisfy it.                                 *)
LEMMA WaitingInv ==
  ASSUME Inv, NEW n \in Nat, Dequeue(n) \/ Wait \/ SpuriousWakeup
  PROVE  Inv'
<1> USE DEF Inv, Dequeue, Wait, SpuriousWakeup
<1>0. UNCHANGED <<m_capacity, m_current, m_size, store, locked, ppc, block, single,
                  constructed, taken, demand, abandoned>>
  BY DEF memory, producer
<1>1. TypeOK'
  BY <1>0 DEF TypeOK
<1>2. ElementsAlive' /\ RoomReserved' /\ HalfFree' /\ Copies' /\ DemandCovers' /\ CallState'
  BY <1>0 DEF ElementsAlive, Window, RoomReserved, HalfFree, Copies, DemandCovers, CallState
<1>3. LiveSlots' /\ CapacityBoundedByDemand'
  BY <1>0 DEF LiveSlots, Live, Extra, CapacityBoundedByDemand
<1>4. SleepsForSome' /\ NoLostWakeup'
  BY <1>0 DEF SleepsForSome, NoLostWakeup, Satisfied, TypeOK
<1> QED
  BY <1>1, <1>2, <1>3, <1>4

(* All slots that held elements hold abandoned objects.                    *)
LEMMA ClearInv ==
  ASSUME Inv, Clear
  PROVE  Inv'
<1>0. /\ m_size' = 0 /\ m_current' = 0
      /\ UNCHANGED <<m_capacity, store, locked, ppc, block, single, constructed,
                     cpc, want, taken, demand>>
      /\ ~locked
      /\ abandoned' = (abandoned \/ m_size > 0)
  BY DEF Clear, producer, consumer
<1>1. /\ ppc = "idle" /\ m_size \in Nat /\ m_current \in Nat /\ m_capacity \in Nat
      /\ demand \in Nat /\ abandoned' \in BOOLEAN
  BY <1>0 DEF Inv, TypeOK
<1>2. TypeOK' /\ CallState'
  BY <1>0, <1>1 DEF Inv, TypeOK, CallState
<1>3. ElementsAlive' /\ RoomReserved' /\ HalfFree' /\ Copies' /\ DemandCovers'
  BY <1>0, <1>1 DEF Inv, ElementsAlive, Window, RoomReserved, HalfFree, Copies, DemandCovers
<1>4. LiveSlots'
  <2> SUFFICES ASSUME ~abandoned' PROVE Live' = 0 .. 0 - 1
    BY <1>0, <1>1 DEF LiveSlots, Extra
  <2>1. ~abandoned /\ ~(m_size > 0)
    BY <1>0, Zenon
  <2>2. m_size = 0
    BY <1>1, <2>1
  <2>3. Live = m_current .. m_current - 1
    BY <1>1, <2>1, <2>2 DEF Inv, LiveSlots, Extra
  <2> QED
    BY <1>0, <1>1, <2>3 DEF Live
<1>5. SleepsForSome' /\ NoLostWakeup' /\ CapacityBoundedByDemand'
  BY <1>0, <1>1 DEF Inv, SleepsForSome, NoLostWakeup, CapacityBoundedByDemand, TypeOK
<1> QED
  BY <1>2, <1>3, <1>4, <1>5 DEF Inv

-----------------------------------------------------------------------------
(* The invariant.                                                          *)

LEMMA InitInv == Init => Inv
<1> SUFFICES ASSUME Init PROVE Inv
  OBVIOUS
<1>1. InitialGroups * AllocSize \in Nat
  BY QueueAssumption
<1>2. /\ m_capacity = InitialGroups * AllocSize /\ m_current = 0 /\ m_size = 0
      /\ store = [k \in 0 .. m_capacity - 1 |-> Raw]
  BY DEF Init
<1>3. /\ locked = FALSE /\ ppc = "idle" /\ single = FALSE /\ constructed = 0
      /\ block \in Seq(Values) /\ Len(block) = 0 /\ block = <<>>
      /\ cpc = "idle" /\ want = 0 /\ taken \in Seq(Values) /\ demand = 0 /\ abandoned = FALSE
  BY EmptySeq DEF Init
<1>4. TypeOK
  <2>1. store \in [0 .. m_capacity - 1 -> Values \cup {Raw}]
    BY <1>2
  <2>2. constructed \in 0 .. Len(block)
    <3>1. constructed = 0 /\ Len(block) = 0
      BY <1>3
    <3> QED
      BY <3>1
  <2> QED
    BY <1>1, <1>2, <1>3, <2>1, <2>2 DEF TypeOK
<1>5. CallState
  BY <1>3 DEF CallState
<1>6. ElementsAlive /\ RoomReserved /\ HalfFree /\ Copies /\ DemandCovers
  BY <1>1, <1>2, <1>3 DEF ElementsAlive, Window, RoomReserved, HalfFree, Copies, DemandCovers
<1>7. LiveSlots
  BY <1>1, <1>2, <1>3 DEF LiveSlots, Live, Extra
<1>8. SleepsForSome /\ NoLostWakeup /\ CapacityBoundedByDemand
  BY <1>1, <1>2, <1>3, QueueAssumption
     DEF SleepsForSome, NoLostWakeup, CapacityBoundedByDemand, AtLeast
<1> QED
  BY <1>4, <1>5, <1>6, <1>7, <1>8 DEF Inv

(* The invariant is inductive.                                             *)
LEMMA NextInv == Inv /\ [Next]_vars => Inv'
<1> SUFFICES ASSUME Inv, [Next]_vars PROVE Inv'
  OBVIOUS
<1>1. ASSUME NEW b \in Blocks, NEW one \in BOOLEAN, Enqueue(b, one) PROVE Inv'
  BY <1>1, QueueAssumption, EnqueueInv
<1>2. CASE EnqueueStep
  BY <1>2, ReserveInv, ResizeInv, AllocateThrowsInv, ConstructInv, ConstructThrowsInv,
     PublishInv, NotifyInv DEF EnqueueStep
<1>3. ASSUME NEW n \in 0 .. MaxTake, Dequeue(n) \/ TryDequeue(n) PROVE Inv'
  <2>1. n \in Nat
    BY QueueAssumption
  <2> QED
    BY <1>3, <2>1, WaitingInv, TryDequeueInv
<1>4. CASE DequeueStep
  BY <1>4, TakeInv, WaitingInv DEF DequeueStep
<1>5. CASE SpuriousWakeup
  BY <1>5, WaitingInv
<1>6. CASE Clear
  BY <1>6, ClearInv
<1>7. CASE UNCHANGED vars
  <2>1. UNCHANGED <<m_capacity, m_current, m_size, store, locked, ppc, block, single,
                    constructed, cpc, want, taken, demand, abandoned>>
    BY <1>7 DEF vars, memory, producer, consumer
  <2> QED
    BY <2>1 DEF Inv, TypeOK, ElementsAlive, Window, RoomReserved, CallState, HalfFree,
       DemandCovers, Copies, LiveSlots, Live, Extra, SleepsForSome, NoLostWakeup,
       CapacityBoundedByDemand
<1> QED
  BY <1>1, <1>2, <1>3, <1>4, <1>5, <1>6, <1>7 DEF Next

(* The invariant holds of every state: each step of the two threads keeps  *)
(* it.                                                                     *)
THEOREM Invariance == Spec => []Inv
BY InitInv, NextInv, PTL DEF Spec

(* The counters count, the array has a slot for each index, and a call's   *)
(* locals are what its place in the code says.                             *)
THEOREM TypeCorrect == Spec => []TypeOK
<1>1. Inv => TypeOK
  BY DEF Inv
<1> QED
  BY <1>1, Invariance, PTL

(* Whatever was enqueued, dequeued, moved, cleared and thrown before, the  *)
(* elements lie inside the array and each is a constructed object.         *)
THEOREM ElementsStayAlive == Spec => []ElementsAlive
<1>1. Inv => ElementsAlive
  BY DEF Inv
<1> QED
  BY <1>1, Invariance, PTL

(* A copy is never constructed outside of the array.                       *)
THEOREM RoomIsReserved == Spec => []RoomReserved
<1>1. Inv => RoomReserved
  BY DEF Inv
<1> QED
  BY <1>1, Invariance, PTL

(* Outside of the calls only the elements are alive, unless clear() or a   *)
(* throw left objects behind: no other path leaks one.                     *)
THEOREM OnlyClearAndThrowsLeak == Spec => []NothingLeaks
<1>1. Inv => NothingLeaks
  <2> SUFFICES ASSUME Inv, ~locked, ~abandoned PROVE Live = Window
    BY DEF NothingLeaks
  <2>1. ppc = "idle" /\ m_current \in Nat /\ m_size \in Nat
    BY DEF Inv, TypeOK
  <2>2. Live = m_current .. m_current + m_size + 0 - 1
    BY <2>1 DEF Inv, LiveSlots, Extra
  <2> QED
    BY <2>1, <2>2 DEF Window
<1> QED
  BY <1>1, Invariance, PTL

(* A consumer asleep beside the elements it wants is about to be notified, *)
(* however many it wants and however few each enqueue brought.             *)
THEOREM WakeupIsNeverLost == Spec => []NoLostWakeup
<1>1. Inv => NoLostWakeup
  BY DEF Inv
<1> QED
  BY <1>1, Invariance, PTL

(* The array is at most one allocation unit larger than twice what the     *)
(* queue was ever asked to hold, however much passes through it.           *)
THEOREM CapacityIsBounded == Spec => []CapacityBoundedByDemand
<1>1. Inv => CapacityBoundedByDemand
  BY DEF Inv
<1> QED
  BY <1>1, Invariance, PTL

-----------------------------------------------------------------------------
(* What the users see.                                                     *)

LEMMA ItemsAreSeqNext ==
  (TypeOK /\ ElementsAlive)' =>
    /\ Items' \in Seq(Values)
    /\ Len(Items') = m_size'
    /\ \A i \in 1 .. m_size' : Items'[i] = store'[m_current' + i - 1]
<1>1. (TypeOK /\ ElementsAlive =>
        /\ Items \in Seq(Values)
        /\ Len(Items) = m_size
        /\ \A i \in 1 .. m_size : Items[i] = store[m_current + i - 1])'
  BY ItemsAreSeq, PTL
<1> QED
  BY <1>1

(* A step that leaves every element what it was leaves the sequence so,    *)
(* wherever it puts them.                                                  *)
LEMMA SameItems ==
  ASSUME Inv, Inv', m_size' = m_size,
         \A i \in 1 .. m_size : store'[m_current' + i - 1] = store[m_current + i - 1]
  PROVE  Items' = Items
<1>1. /\ Items \in Seq(Values) /\ Len(Items) = m_size
      /\ \A i \in 1 .. m_size : Items[i] = store[m_current + i - 1]
  BY ItemsAreSeq DEF Inv
<1>2. /\ Items' \in Seq(Values) /\ Len(Items') = m_size'
      /\ \A i \in 1 .. m_size' : Items'[i] = store'[m_current' + i - 1]
  BY ItemsAreSeqNext DEF Inv
<1>3. \A i \in 1 .. Len(Items') : Items'[i] = Items[i]
  BY <1>1, <1>2
<1> QED
  BY <1>1, <1>2, <1>3, SeqEqual

(* The new size takes in the slots the block was copied to, and no         *)
(* others.                                                                 *)
LEMMA PublishPuts ==
  ASSUME Inv, Inv', Publish
  PROVE  Items' = Items \o block
<1>0. /\ m_current \in Nat /\ m_size \in Nat /\ Len(block) \in Nat /\ block \in Seq(Values)
      /\ constructed = Len(block) /\ ppc = "construct"
      /\ m_size' = m_size + Len(block) /\ m_current' = m_current /\ store' = store
  BY DEF Inv, TypeOK, Publish
<1>1. /\ Items \in Seq(Values) /\ Len(Items) = m_size
      /\ \A i \in 1 .. m_size : Items[i] = store[m_current + i - 1]
  BY ItemsAreSeq DEF Inv
<1>2. /\ Items' \in Seq(Values) /\ Len(Items') = m_size + Len(block)
      /\ \A i \in 1 .. m_size + Len(block) : Items'[i] = store[m_current + i - 1]
  BY <1>0, ItemsAreSeqNext DEF Inv
<1>3. /\ Items \o block \in Seq(Values)
      /\ Len(Items \o block) = m_size + Len(block)
      /\ \A i \in 1 .. m_size + Len(block) :
           (Items \o block)[i] = IF i <= m_size THEN Items[i] ELSE block[i - m_size]
  BY <1>0, <1>1, ConcatProperties
<1>4. ASSUME NEW i \in 1 .. m_size + Len(block)
      PROVE  Items'[i] = (Items \o block)[i]
  <2>1. CASE i <= m_size
    <3>1. i \in 1 .. m_size
      BY <1>0, <2>1
    <3>2. Items[i] = store[m_current + i - 1]
      BY <1>1, <3>1
    <3> QED
      BY <1>2, <1>3, <2>1, <3>2
  <2>2. CASE ~(i <= m_size)
    <3>1. /\ i - m_size \in 1 .. constructed
          /\ m_current + m_size + (i - m_size) - 1 = m_current + i - 1
      BY <1>0, <2>2
    <3>2. store[m_current + m_size + (i - m_size) - 1] = block[i - m_size]
      BY <1>0, <3>1 DEF Inv, Copies
    <3> QED
      BY <1>2, <1>3, <2>2, <3>1, <3>2
  <2> QED
    BY <2>1, <2>2
<1> QED
  BY <1>2, <1>3, <1>4, SeqEqual

(* Removal takes the first elements, whether or not the rest is moved      *)
(* down.                                                                   *)
LEMMA RemoveTakes ==
  ASSUME Inv, Inv', ppc = "idle", NEW n \in Nat, n <= m_size, Remove(n)
  PROVE  Items' = SubSeq(Items, n + 1, Len(Items))
<1>0. /\ m_current \in Nat /\ m_size \in Nat /\ m_size' = m_size - n /\ m_current' \in Nat
      /\ \A k \in 0 .. m_size - n - 1 : store'[m_current' + k] = store[m_current + n + k]
  BY RemoveMemory DEF Inv, TypeOK
<1>1. /\ Items \in Seq(Values) /\ Len(Items) = m_size
      /\ \A i \in 1 .. m_size : Items[i] = store[m_current + i - 1]
  BY ItemsAreSeq DEF Inv
<1>2. /\ Items' \in Seq(Values) /\ Len(Items') = m_size - n
      /\ \A i \in 1 .. m_size - n : Items'[i] = store'[m_current' + i - 1]
  BY <1>0, ItemsAreSeqNext DEF Inv
<1> DEFINE rest == SubSeq(Items, n + 1, m_size)
<1>3. \A i \in n + 1 .. m_size : Items[i] \in Values
  BY <1>0, <1>1, ElementOfSeq
<1>4. rest \in Seq(Values)
  BY <1>0, <1>3, SubSeqProperties
<1>5. /\ Len(rest) = m_size - n
      /\ \A i \in 1 .. m_size - n : rest[i] = Items[n + i]
  BY <1>0, <1>3, RestOfSeq
<1> HIDE DEF rest
<1>6. ASSUME NEW i \in 1 .. m_size - n
      PROVE  Items'[i] = rest[i]
  <2>1. /\ i - 1 \in 0 .. m_size - n - 1 /\ n + i \in 1 .. m_size
        /\ m_current' + (i - 1) = m_current' + i - 1
        /\ m_current + n + (i - 1) = m_current + (n + i) - 1
    BY <1>0
  <2>2. Items'[i] = store[m_current + n + (i - 1)]
    BY <1>0, <1>2, <2>1
  <2> QED
    BY <1>1, <1>5, <2>1, <2>2
<1>7. Items' = rest
  BY <1>2, <1>4, <1>5, <1>6, SeqEqual
<1> QED
  BY <1>1, <1>7 DEF rest

(* An empty store is an empty queue.                                       *)
LEMMA InitRefines == Init => Fifo!Init
<1> SUFFICES ASSUME Init PROVE Fifo!Init
  OBVIOUS
<1>1. /\ Items \in Seq(Values) /\ Len(Items) = m_size
  BY InitInv, ItemsAreSeq DEF Inv
<1>2. m_size = 0 /\ block = <<>> /\ taken = <<>> /\ ~Pending
  BY DEF Init, Pending
<1>3. Items = <<>>
  BY <1>1, <1>2, EmptySeq
<1> QED
  BY <1>2, <1>3 DEF Fifo!Init

(* The elements change when a block is published, when a dequeue takes     *)
(* some and when the queue is cleared, and in no other step.               *)
LEMMA StepRefines == Inv /\ Inv' /\ [Next]_vars => [Fifo!Next]_(Fifo!vars)
<1> SUFFICES ASSUME Inv, Inv', [Next]_vars PROVE Fifo!Next \/ UNCHANGED Fifo!vars
  OBVIOUS
<1> DEFINE Same == m_size' = m_size /\ m_current' = m_current /\ store' = store
<1>1. ASSUME Same PROVE Items' = Items
  BY <1>1, SameItems
<1>2. ASSUME Same, taken' = taken, block' = block, Pending' = Pending
      PROVE  UNCHANGED Fifo!vars
  BY <1>1, <1>2 DEF Fifo!vars
<1>3. ASSUME Same, taken' = taken, LeaveEnqueue PROVE Fifo!Next
  <2>1. block' = <<>> /\ Pending' = FALSE
    BY <1>3 DEF LeaveEnqueue, Pending
  <2> QED
    BY <1>1, <1>3, <2>1 DEF Fifo!Next, Fifo!Leave
<1>4. ASSUME NEW n \in Nat, ~locked, Satisfied(n), Remove(n), block' = block,
             Pending' = Pending
      PROVE  Fifo!Next
  <2>1. ppc = "idle" /\ n <= m_size /\ m_size \in Nat
    BY <1>4 DEF Inv, TypeOK, Satisfied
  <2>2. Len(Items) = m_size
    BY ItemsAreSeq DEF Inv
  <2>3. Items' = SubSeq(Items, n + 1, Len(Items))
    BY <1>4, <2>1, RemoveTakes
  <2>4. taken' = SubSeq(Items, 1, n)
    BY <1>4 DEF Remove
  <2>5. n \in 0 .. Len(Items)
    BY <2>1, <2>2
  <2>6. n <= Len(Items)
    BY <2>1, <2>2
  <2>7. Fifo!Take(n)
    BY <1>4, <2>3, <2>4, <2>6 DEF Fifo!Take
  <2> QED
    BY <2>5, <2>7 DEF Fifo!Next
<1>5. ASSUME NEW b \in Blocks, NEW one \in BOOLEAN, Enqueue(b, one) PROVE Fifo!Next
  <2>1. Same /\ taken' = taken /\ block' = b
    BY <1>5 DEF Enqueue, memory, consumer
  <2>2. ~Pending /\ Pending' = TRUE
    BY <1>5 DEF Enqueue, Pending
  <2> QED
    BY <1>1, <2>1, <2>2, QueueAssumption DEF Fifo!Next, Fifo!Offer
<1>6. CASE EnqueueStep
  <2>1. CASE Reserve
    <3>1. Same /\ taken' = taken /\ block' = block /\ Pending' = Pending
      BY <2>1 DEF Reserve, memory, consumer, Pending
    <3> QED
      BY <1>2, <3>1
  <2>2. CASE Resize
    <3>1. /\ m_size' = m_size /\ m_current' = 0 /\ m_size \in Nat /\ m_current \in Nat
          /\ \A k \in 0 .. m_size - 1 : store'[k] = store[m_current + k]
      BY <2>2, ResizeMemory DEF Inv, TypeOK
    <3>2. ASSUME NEW i \in 1 .. m_size
          PROVE  store'[m_current' + i - 1] = store[m_current + i - 1]
      <4>1. /\ i - 1 \in 0 .. m_size - 1 /\ m_current' + i - 1 = i - 1
            /\ m_current + (i - 1) = m_current + i - 1
        BY <3>1
      <4>2. store'[i - 1] = store[m_current + (i - 1)]
        BY <3>1, <4>1
      <4> QED
        BY <4>1, <4>2
    <3>3. Items' = Items
      BY <3>1, <3>2, SameItems
    <3> QED
      BY <2>2, <3>3 DEF Resize, consumer, Fifo!vars, Pending
  <2>3. CASE AllocateThrows \/ ConstructThrows
    <3>1. Same /\ taken' = taken /\ LeaveEnqueue
      BY <2>3 DEF AllocateThrows, ConstructThrows, memory, consumer
    <3> QED
      BY <1>3, <3>1
  <2>4. CASE Construct
    <3>1. /\ m_size' = m_size /\ m_current' = m_current
          /\ store' = [store EXCEPT ![Target] = block[constructed + 1]]
          /\ taken' = taken /\ block' = block /\ Pending' = Pending
      BY <2>4 DEF Construct, consumer, Pending
    <3>2. m_size \in Nat /\ m_current \in Nat /\ constructed \in Nat
      BY DEF Inv, TypeOK
    <3>3. \A i \in 1 .. m_size : m_current + i - 1 # Target
      BY <3>2 DEF Target
    <3>4. \A i \in 1 .. m_size :
            m_current + i - 1 \in DOMAIN store
      BY <3>2 DEF Inv, TypeOK, ElementsAlive
    <3> HIDE DEF Target
    <3>5. \A i \in 1 .. m_size : store'[m_current + i - 1] = store[m_current + i - 1]
      BY <3>1, <3>3, <3>4
    <3>6. Items' = Items
      BY <3>1, <3>5, SameItems
    <3> QED
      BY <3>1, <3>6 DEF Fifo!vars
  <2>5. CASE Publish
    <3>1. Items' = Items \o block
      BY <2>5, PublishPuts
    <3>2. Pending /\ Pending' = FALSE
      BY <2>5 DEF Publish, Pending
    <3> QED
      BY <2>5, <3>1, <3>2 DEF Publish, consumer, Fifo!Next, Fifo!Put
  <2>6. CASE Notify
    <3>1. Same /\ taken' = taken /\ LeaveEnqueue
      BY <2>6 DEF Notify, memory
    <3> QED
      BY <1>3, <3>1
  <2> QED
    BY <1>6, <2>1, <2>2, <2>3, <2>4, <2>5, <2>6 DEF EnqueueStep
<1>7. ASSUME NEW n \in 0 .. MaxTake, Dequeue(n) \/ TryDequeue(n)
      PROVE  Fifo!Next \/ UNCHANGED Fifo!vars
  <2>1. CASE Dequeue(n)
    <3>1. Same /\ taken' = taken /\ block' = block /\ Pending' = Pending
      BY <2>1 DEF Dequeue, memory, producer, Pending
    <3> QED
      BY <1>2, <3>1
  <2>2. CASE TryDequeue(n)
    <3>1. n \in Nat /\ block' = block /\ Pending' = Pending
      BY <2>2, QueueAssumption DEF TryDequeue, producer, Pending
    <3> QED
      BY <1>4, <2>2, <3>1 DEF TryDequeue
  <2> QED
    BY <1>7, <2>1, <2>2
<1>8. CASE DequeueStep
  <2>1. CASE Take
    <3>1. want \in Nat /\ block' = block /\ Pending' = Pending
      BY <2>1 DEF Inv, TypeOK, Take, producer, Pending
    <3> QED
      BY <1>4, <2>1, <3>1 DEF Take
  <2>2. CASE Wait
    <3>1. Same /\ taken' = taken /\ block' = block /\ Pending' = Pending
      BY <2>2 DEF Wait, memory, producer, Pending
    <3> QED
      BY <1>2, <3>1
  <2> QED
    BY <1>8, <2>1, <2>2 DEF DequeueStep
<1>9. CASE SpuriousWakeup
  <2>1. Same /\ taken' = taken /\ block' = block /\ Pending' = Pending
    BY <1>9 DEF SpuriousWakeup, memory, producer, Pending
  <2> QED
    BY <1>2, <2>1
<1>10. CASE Clear
  <2>1. m_size' = 0 /\ block' = block /\ taken' = taken /\ Pending' = Pending
    BY <1>10 DEF Clear, producer, consumer, Pending
  <2>2. Items' = <<>>
    <3>1. Items' \in Seq(Values) /\ Len(Items') = 0
      BY <2>1, ItemsAreSeqNext DEF Inv
    <3> QED
      BY <3>1, EmptySeq
  <2> QED
    BY <2>1, <2>2 DEF Fifo!Next, Fifo!Clear
<1>11. CASE UNCHANGED vars
  <2>1. Same /\ taken' = taken /\ block' = block /\ Pending' = Pending
    BY <1>11 DEF vars, memory, producer, consumer, Pending
  <2> QED
    BY <1>2, <2>1
<1> QED
  BY <1>5, <1>6, <1>7, <1>8, <1>9, <1>10, <1>11 DEF Next

(* Whatever the memory does and whatever throws, blocks go in as a whole   *)
(* or not at all and come out in order: every behaviour is one of the      *)
(* abstract queue.                                                         *)
THEOREM ImplementsFifo == Spec => FifoSpec
<1>1. Inv /\ Inv' /\ [Next]_vars => [Fifo!Next]_(Fifo!vars)
  BY StepRefines
<1> QED
  BY <1>1, InitRefines, Invariance, PTL DEF Spec, FifoSpec, Fifo!Spec
=============================================================================
