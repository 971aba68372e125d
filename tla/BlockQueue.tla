------------------------------ MODULE BlockQueue ------------------------------
(***************************************************************************)
(* dab::queue (types/queue.h): a queue between one producer thread and one *)
(* consumer thread, in one growing array of slots.                         *)
(*                                                                         *)
(* The elements are the m_size slots from m_current on.  Dequeueing leaves *)
(* free slots in front of them; when these are more than half of the array *)
(* the elements are moved down to its start.  Enqueueing allocates a       *)
(* larger array when the slots behind the elements do not suffice.         *)
(*                                                                         *)
(* Every member function works under m_mutex.  A dequeue, clear() and a    *)
(* try_dequeue() do all they do without a step that can fail or wait, so   *)
(* each is one action that finds the mutex free.  An enqueue is several    *)
(* actions during which the producer holds the mutex, for its allocation   *)
(* and each copy of an element can throw, and because approximate_size()   *)
(* reads m_size without the mutex.                                         *)
(*                                                                         *)
(* The element type is one whose copies may throw and whose moves do not   *)
(* (std::vector); a slot that holds no constructed object is Raw.  For a   *)
(* trivially copyable type the behaviours are those without a throw.       *)
(***************************************************************************)
EXTENDS Integers, Sequences

CONSTANTS
  Values,
  Raw,           \* a slot without an object
  AllocSize,     \* alloc_size = BlockSize * GroupSize
  InitialGroups, \* the constructor's nofInitialGroups
  Blocks,        \* the blocks the producer enqueues; one of a single element
                 \* may also be enqueued as an element
  MaxSize,       \* bound on the elements the producer lets the queue hold
  MaxTake        \* bound on the elements one dequeue asks for

ASSUME QueueAssumption ==
  /\ Raw \notin Values
  /\ Blocks \subseteq Seq(Values)
  /\ AllocSize \in Nat \ {0}
  /\ InitialGroups \in Nat
  /\ MaxSize \in Nat
  /\ MaxTake \in Nat

VARIABLES
  m_capacity, m_current, m_size,
  store,       \* m_backingStore: what is in each slot
  locked,      \* the producer holds m_mutex between two actions
  ppc,         \* the producer: "idle", or where it is in an enqueue
  block,       \* the argument of the enqueue, <<>> outside of one
  single,      \* it is enqueue(elem), not enqueue(vector)
  constructed, \* elements of block constructed so far
  cpc,         \* the consumer: "idle", "ready" to take the mutex, or "waiting"
               \* on m_hasElements
  want,        \* the number of elements it dequeues, 0 outside of a call
  taken,       \* what its last dequeue returned
  demand,      \* ghost: the most elements the queue was asked to hold at once
  abandoned    \* ghost: clear() or a throw left objects outside the queue

memory   == <<m_capacity, m_current, m_size, store>>
producer == <<locked, ppc, block, single, constructed>>
consumer == <<cpc, want, taken>>
vars == <<memory, producer, consumer, demand, abandoned>>

-----------------------------------------------------------------------------
AtLeast(a, b) == IF a >= b THEN a ELSE b

available == m_capacity - m_current - m_size

(* The slots that hold the elements, and the elements in order.            *)
Window == m_current .. m_current + m_size - 1
Items  == [i \in 1 .. m_size |-> store[m_current + i - 1]]

(* A mutated form; no run or theorem of the project uses it.               *)
Array_OneShort(n, s) == [k \in 0 .. n - 2 |-> IF k < Len(s) THEN s[k + 1] ELSE Raw]

(* An array of n slots with the elements of s in its first ones.           *)
Array(n, s) == [k \in 0 .. n - 1 |-> IF k < Len(s) THEN s[k + 1] ELSE Raw]

(* Mutated forms here and below; no run or theorem of the project uses     *)
(* them.                                                                   *)
MustGrow_BlockTooLate == IF single THEN available = 0 ELSE Len(block) > available + 1

(* A single element grows the array when there is no slot for it, a block  *)
(* already when it would take the last one.                                *)
MustGrow == IF single THEN available = 0 ELSE Len(block) >= available

GrownCapacity_NoSpare ==
  IF single THEN m_capacity + AllocSize
            ELSE m_capacity + ((Len(block) - available) \div AllocSize) * AllocSize

GrownCapacity ==
  IF single THEN m_capacity + AllocSize
            ELSE m_capacity + ((Len(block) - available) \div AllocSize + 1) * AllocSize

Init ==
  /\ m_capacity = InitialGroups * AllocSize
  /\ m_current = 0 /\ m_size = 0
  /\ store = [k \in 0 .. InitialGroups * AllocSize - 1 |-> Raw]
  /\ locked = FALSE /\ ppc = "idle"
  /\ block = <<>> /\ single = FALSE /\ constructed = 0
  /\ cpc = "idle" /\ want = 0 /\ taken = <<>>
  /\ demand = 0 /\ abandoned = FALSE

-----------------------------------------------------------------------------
(* The producer.                                                           *)

(* The call returns or throws: its lock and its locals go.                 *)
LeaveEnqueue ==
  /\ locked' = FALSE
  /\ ppc' = "idle"
  /\ block' = <<>> /\ single' = FALSE /\ constructed' = 0

(* enqueue(elem) or enqueue(vector) is called and has the mutex.           *)
Enqueue(b, one) ==
  /\ ppc = "idle" /\ ~locked
  /\ m_size + Len(b) <= MaxSize
  /\ one => Len(b) = 1
  /\ locked' = TRUE
  /\ ppc' = "reserve"
  /\ block' = b /\ single' = one /\ constructed' = 0
  /\ demand' = AtLeast(demand, m_size + Len(b))
  /\ UNCHANGED <<memory, consumer, abandoned>>

Reserve ==
  /\ ppc = "reserve"
  /\ ~MustGrow
  /\ ppc' = "construct"
  /\ UNCHANGED <<memory, locked, block, single, constructed, consumer, demand, abandoned>>

(* resize(): the elements move into the new array.  The old one is freed   *)
(* without a destructor: objects abandoned in it are gone for good, and no *)
(* slot holds one any more.                                                *)
Resize ==
  /\ ppc = "reserve"
  /\ MustGrow
  /\ store' = Array(GrownCapacity, Items)
  /\ m_capacity' = GrownCapacity
  /\ m_current' = 0
  /\ abandoned' = FALSE
  /\ ppc' = "construct"
  /\ UNCHANGED <<m_size, locked, block, single, constructed, consumer, demand>>

(* The allocation throws; the lock is released on the way out.             *)
AllocateThrows ==
  /\ ppc = "reserve"
  /\ MustGrow
  /\ LeaveEnqueue
  /\ UNCHANGED <<memory, consumer, demand, abandoned>>

(* The slot the next element is constructed in.                            *)
Target == m_current + m_size + constructed

Construct ==
  /\ ppc = "construct"
  /\ constructed < Len(block)
  /\ store' = [store EXCEPT ![Target] = block[constructed + 1]]
  /\ constructed' = constructed + 1
  /\ UNCHANGED <<m_capacity, m_current, m_size>>
  /\ UNCHANGED <<locked, ppc, block, single, consumer, demand, abandoned>>

(* A copy throws.  The copies made before it stay where they are, in slots *)
(* that are not part of the queue.                                         *)
ConstructThrows ==
  /\ ppc = "construct"
  /\ constructed < Len(block)
  /\ LeaveEnqueue
  /\ abandoned' = (abandoned \/ constructed > 0)
  /\ UNCHANGED <<memory, consumer, demand>>

(* m_size takes its new value in one atomic step.                          *)
Publish ==
  /\ ppc = "construct"
  /\ constructed = Len(block)
  /\ m_size' = m_size + Len(block)
  /\ ppc' = "notify"
  /\ UNCHANGED <<m_capacity, m_current, store>>
  /\ UNCHANGED <<locked, block, single, constructed, consumer, demand, abandoned>>

(* Mutated forms.                                                          *)
Woken_IfWasEmpty == IF m_size = Len(block) /\ cpc = "waiting" THEN "ready" ELSE cpc
Woken_Never      == cpc

(* notify_one(): the consumer, if it waits, no longer does.                *)
Woken == IF cpc = "waiting" THEN "ready" ELSE cpc

Notify ==
  /\ ppc = "notify"
  /\ cpc' = Woken
  /\ LeaveEnqueue
  /\ UNCHANGED <<memory, want, taken, demand, abandoned>>

-----------------------------------------------------------------------------
(* The consumer.                                                           *)

(* dequeue(elem) for n = 1, dequeue(vector) for any n, is called.          *)
Dequeue(n) ==
  /\ cpc = "idle"
  /\ cpc' = "ready"
  /\ want' = n
  /\ UNCHANGED <<memory, producer, taken, demand, abandoned>>

(* Mutated forms.                                                          *)
MustShift_Late(current, capacity) == current > capacity
Moved_FromStart(n) == SubSeq(Items, 1, m_size - n)
Emptied_NotTheLast(n) == m_current .. m_current + n - 2

MustShift(current, capacity) == current > capacity \div 2

(* What is left in the queue when its first n elements are gone.           *)
Moved(n) == SubSeq(Items, n + 1, m_size)

(* The slots whose elements are moved out and destroyed.                   *)
Emptied(n) == m_current .. m_current + n - 1

(* do_dequeue_block(), and do_dequeue() for n = 1: the elements are moved  *)
(* out and destroyed.  shift_down() constructs over what lies at the start *)
(* of the array and destroys the elements at their old place.              *)
Remove(n) ==
  /\ taken' = SubSeq(Items, 1, n)
  /\ m_size' = m_size - n
  /\ LET current == m_current + n
         left    == Moved(n)
     IN  IF MustShift(current, m_capacity)
         THEN /\ m_current' = 0
              /\ store' = [k \in DOMAIN store |->
                             IF k < Len(left) THEN left[k + 1]
                             ELSE IF k \in Window THEN Raw ELSE store[k]]
         ELSE /\ m_current' = current
              /\ store' = [k \in DOMAIN store |->
                             IF k \in Emptied(n) THEN Raw ELSE store[k]]
  /\ UNCHANGED m_capacity

(* The predicate a dequeue waits for.                                      *)
Satisfied(n) == m_size >= n

(* The consumer gets the mutex and finds what it wants.                    *)
Take ==
  /\ cpc = "ready" /\ ~locked
  /\ Satisfied(want)
  /\ Remove(want)
  /\ cpc' = "idle" /\ want' = 0
  /\ UNCHANGED <<producer, demand, abandoned>>

(* Or it does not: wait() releases the mutex and blocks in one step.       *)
Wait ==
  /\ cpc = "ready" /\ ~locked
  /\ ~Satisfied(want)
  /\ cpc' = "waiting"
  /\ UNCHANGED <<memory, want, taken, producer, demand, abandoned>>

(* wait() may return without a notification.                               *)
SpuriousWakeup ==
  /\ cpc = "waiting"
  /\ cpc' = "ready"
  /\ UNCHANGED <<memory, want, taken, producer, demand, abandoned>>

(* A try_dequeue() that returns false changes nothing.                     *)
TryDequeue(n) ==
  /\ cpc = "idle" /\ ~locked
  /\ Satisfied(n)
  /\ Remove(n)
  /\ UNCHANGED <<cpc, want, producer, demand, abandoned>>

(* clear(), called by either thread: the counters are reset, the elements  *)
(* are neither destroyed nor moved.  Nobody is notified.                   *)
Clear ==
  /\ ~locked
  /\ m_size' = 0 /\ m_current' = 0
  /\ abandoned' = (abandoned \/ m_size > 0)
  /\ UNCHANGED <<m_capacity, store, producer, consumer, demand>>

-----------------------------------------------------------------------------
EnqueueStep ==
  \/ Reserve \/ Resize \/ AllocateThrows
  \/ Construct \/ ConstructThrows \/ Publish \/ Notify

DequeueStep == Take \/ Wait

Next ==
  \/ \E b \in Blocks, one \in BOOLEAN : Enqueue(b, one)
  \/ EnqueueStep
  \/ \E n \in 0 .. MaxTake : Dequeue(n) \/ TryDequeue(n)
  \/ DequeueStep
  \/ SpuriousWakeup
  \/ Clear

(* A thread inside a call goes on; neither has to make one, a wait() need  *)
(* not return by itself, and the mutex is not assumed to be fair.          *)
Fairness == WF_vars(EnqueueStep) /\ WF_vars(DequeueStep)

Spec     == Init /\ [][Next]_vars
FairSpec == Spec /\ Fairness

-----------------------------------------------------------------------------
TypeOK ==
  /\ m_capacity \in Nat /\ m_current \in Nat /\ m_size \in Nat
  /\ store \in [0 .. m_capacity - 1 -> Values \cup {Raw}]
  /\ locked \in BOOLEAN
  /\ ppc \in {"idle", "reserve", "construct", "notify"}
  /\ locked <=> ppc # "idle"
  /\ block \in Seq(Values) /\ single \in BOOLEAN
  /\ constructed \in 0 .. Len(block)
  /\ cpc \in {"idle", "ready", "waiting"}
  /\ want \in Nat
  /\ taken \in Seq(Values)
  /\ demand \in Nat /\ abandoned \in BOOLEAN

(* The elements lie within the array and each is a constructed object,     *)
(* whatever was enqueued, dequeued, moved, cleared and thrown before: a    *)
(* dequeue never reads a slot that holds none.                             *)
ElementsAlive ==
  /\ m_current + m_size <= m_capacity
  /\ \A k \in Window : store[k] # Raw

(* An enqueue that has reserved its room constructs inside the array,      *)
(* behind the elements.                                                    *)
RoomReserved ==
  ppc = "construct" => m_current + m_size + Len(block) <= m_capacity

(* Outside of the calls no object is alive in the array but the elements,  *)
(* unless clear() or a throw left some there.                              *)
Live == {k \in DOMAIN store : store[k] # Raw}

NothingLeaks == ~locked /\ ~abandoned => Live = Window

(* A consumer asleep while the elements it wants are there is about to be  *)
(* notified, also if it wants several and got them one by one.             *)
NoLostWakeup == cpc = "waiting" /\ m_size >= want => ppc = "notify"

(* The array does not grow with the number of elements that pass through   *)
(* it, only with those it was asked to hold at one time.                   *)
CapacityBoundedByDemand ==
  m_capacity <= AtLeast(InitialGroups * AllocSize, 2 * demand + AllocSize)

(* Whatever the memory does, users see a queue: blocks go in as a whole,   *)
(* once or not at all, and come out in order.  A block is pending until    *)
(* m_size counts its elements.                                             *)
Pending == ppc \in {"reserve", "construct"}

Fifo == INSTANCE FifoQueue WITH items <- Items, given <- block, pending <- Pending

FifoSpec == Fifo!Spec

(* When the producer comes to rest, a consumer whose elements are there    *)
(* gets them.                                                              *)
RestingProducerServes ==
  <>[](ppc = "idle") => []<>~(cpc # "idle" /\ m_size >= want)

(* clear() as its comment has it: it clears the contents of the queue, so  *)
(* none of the objects that were its elements is alive afterwards.         *)
ClearDestroysContents == [][Clear => \A k \in Window : store'[k] = Raw]_vars
=============================================================================
