-------------------------- MODULE KernelQueueProofs --------------------------
(***************************************************************************)
(* Proofs about KernelQueue: the ring of a queue implements BoundedQueue,   *)
(* and no wakeup is lost, for any tasks, priorities, items and length.      *)
(***************************************************************************)
EXTENDS KernelQueue, FiniteSetTheorems, SequenceTheorems, TLAPS

-----------------------------------------------------------------------------
(* The ring.                                                                *)

(* The place n steps after position r. *)
Slot(r, n) == IF r + n >= uxLength THEN r + n - uxLength ELSE r + n

(* The write position is behind the last item, and the count is right. *)
RingInv ==
    /\ pcStorage \in [0 .. uxLength - 1 -> Items \cup {NoItem}]
    /\ pcReadFrom \in 0 .. uxLength - 1
    /\ uxMessagesWaiting \in 0 .. uxLength
    /\ pcWriteTo = After(Slot(pcReadFrom, uxMessagesWaiting))

LEMMA SlotFacts ==
  ASSUME NEW r \in 0 .. uxLength - 1, NEW n \in 0 .. uxLength
  PROVE  (r + n) % uxLength = Slot(r, n) /\ Slot(r, n) \in 0 .. uxLength - 1
<1>1. uxLength \in Nat /\ uxLength > 0
  BY QueueAssumption
<1>2. \A a \in Nat : a < uxLength => a % uxLength = a
  BY <1>1
<1>3. \A a \in Nat : a >= uxLength /\ a < uxLength + uxLength => a % uxLength = a - uxLength
  BY <1>1
<1>4. r + n \in Nat /\ r + n < uxLength + uxLength
  BY <1>1
<1>5. QED
  BY <1>1, <1>2, <1>3, <1>4 DEF Slot

(* Steps along the ring: forward, back, and never to the same place again   *)
(* within one round.                                                        *)
LEMMA AlongTheRing ==
  ASSUME NEW r \in 0 .. uxLength - 1
  PROVE  /\ After(r) = Slot(r, 1) /\ After(r) \in 0 .. uxLength - 1
         /\ Before(r) \in 0 .. uxLength - 1 /\ After(Before(r)) = r
         /\ Slot(r, 0) = r
         /\ \A n \in 0 .. uxLength - 1 : /\ After(Slot(r, n)) = Slot(r, n + 1)
                                         /\ Slot(After(r), n) = Slot(r, n + 1)
                                         /\ Slot(Before(r), n + 1) = Slot(r, n)
         /\ \A m, n \in 1 .. uxLength : Slot(r, m) = Slot(r, n) => m = n
         /\ \A n \in 1 .. uxLength - 1 : Slot(r, n) # r
<1>1. uxLength \in Nat /\ uxLength > 0
  BY QueueAssumption
<1>2. QED
  BY <1>1 DEF After, Before, Slot

LEMMA NextContents ==
  ASSUME pcReadFrom' \in 0 .. uxLength - 1, uxMessagesWaiting' \in 0 .. uxLength
  PROVE  Contents' = [n \in 1 .. uxMessagesWaiting' |-> pcStorage'[Slot(pcReadFrom', n)]]
<1>1. \A n \in 1 .. uxMessagesWaiting' : n \in 0 .. uxLength
  BY QueueAssumption
<1>2. QED
  BY <1>1, SlotFacts DEF Contents

(* What the abstract queue holds: the items one to uxMessagesWaiting steps   *)
(* behind the read position.                                                *)
LEMMA ContentsFacts ==
  ASSUME RingInv
  PROVE  /\ Contents = [n \in 1 .. uxMessagesWaiting |-> pcStorage[Slot(pcReadFrom, n)]]
         /\ Contents \in Seq(Items \cup {NoItem}) /\ Len(Contents) = uxMessagesWaiting
<1>1. \A n \in 1 .. uxMessagesWaiting :
         /\ n \in 0 .. uxLength
         /\ (pcReadFrom + n) % uxLength = Slot(pcReadFrom, n) /\ Slot(pcReadFrom, n) \in 0 .. uxLength - 1
  <2>1. \A n \in 1 .. uxMessagesWaiting : n \in 0 .. uxLength
    BY QueueAssumption DEF RingInv
  <2>2. QED
    BY <2>1, SlotFacts DEF RingInv
<1>2. Contents = [n \in 1 .. uxMessagesWaiting |-> pcStorage[Slot(pcReadFrom, n)]]
  BY <1>1 DEF Contents
<1>3. \A n \in 1 .. uxMessagesWaiting : pcStorage[Slot(pcReadFrom, n)] \in Items \cup {NoItem}
  BY <1>1 DEF RingInv
<1>4. uxMessagesWaiting \in Nat
  BY QueueAssumption DEF RingInv
<1>5. QED
  BY <1>2, <1>3, <1>4

(* A send of an item to the back or the front. *)
LEMMA CopyToQueue ==
  ASSUME RingInv, NEW c \in [op : {"back", "front"}, item : Items, wait : {"none", "limited", "forever"}],
         uxMessagesWaiting < uxLength, prvCopyDataToQueue(c)
  PROVE  /\ RingInv'
         /\ c.op = "back" => Queue!SendToBack(c.item)
         /\ c.op = "front" => Queue!SendToFront(c.item)
<1>1. PICK N \in 0 .. uxLength - 1 : N = uxMessagesWaiting
  BY QueueAssumption DEF RingInv
<1>2. PICK r \in 0 .. uxLength - 1 : r = pcReadFrom
  BY DEF RingInv
<1>3. PICK i \in Items : i = c.item
  OBVIOUS
<1>4. uxLength \in Nat /\ uxLength > 0 /\ N + 1 \in 0 .. uxLength
  BY QueueAssumption
<1>5. /\ pcStorage \in [0 .. uxLength - 1 -> Items \cup {NoItem}]
      /\ pcWriteTo = After(Slot(r, N)) /\ After(Slot(r, N)) = Slot(r, N + 1)
      /\ Slot(r, N + 1) \in 0 .. uxLength - 1
      /\ \A n \in 1 .. N : Slot(r, n) \in 0 .. uxLength - 1
  <2>1. \A n \in 1 .. N : n \in 0 .. uxLength
    BY <1>4
  <2>2. \A n \in 1 .. N : Slot(r, n) \in 0 .. uxLength - 1
    BY <2>1, SlotFacts
  <2>3. After(Slot(r, N)) = Slot(r, N + 1) /\ Slot(r, N + 1) \in 0 .. uxLength - 1
    BY <1>4, SlotFacts, AlongTheRing
  <2>4. QED
    BY <1>1, <1>2, <2>2, <2>3 DEF RingInv
<1>6. /\ uxMessagesWaiting' = N + 1 /\ pvBuffer' = pvBuffer
      /\ Len(Contents) < uxLength
      /\ Contents = [n \in 1 .. N |-> pcStorage[Slot(r, n)]]
      /\ Contents \in Seq(Items \cup {NoItem}) /\ Len(Contents) = N
  BY <1>1, <1>2, ContentsFacts DEF prvCopyDataToQueue
<1>7. CASE c.op = "back"
  <2>1. /\ pcStorage' = [pcStorage EXCEPT ![Slot(r, N + 1)] = i]
        /\ pcWriteTo' = After(Slot(r, N + 1)) /\ pcReadFrom' = r
    BY <1>2, <1>3, <1>5, <1>7 DEF prvCopyDataToQueue
  <2>2. RingInv'
    BY <1>2, <1>4, <1>5, <1>6, <2>1 DEF RingInv
  <2>3. Contents' = [n \in 1 .. N + 1 |-> pcStorage'[Slot(r, n)]]
    BY <1>4, <1>6, <2>1, NextContents
  <2>4. pcStorage'[Slot(r, N + 1)] = i
    BY <1>5, <2>1
  <2>5. ASSUME NEW n \in 1 .. N PROVE pcStorage'[Slot(r, n)] = Contents[n]
    <3>1. Slot(r, n) # Slot(r, N + 1)
      <4>1. n \in 1 .. uxLength /\ N + 1 \in 1 .. uxLength /\ n # N + 1
        BY <1>4
      <4>2. QED
        BY <4>1, AlongTheRing
    <3>2. QED
      BY <1>5, <1>6, <2>1, <3>1
  <2>6. Contents' = Append(Contents, i)
    BY <1>6, <2>3, <2>4, <2>5
  <2>7. QED
    BY <1>3, <1>6, <1>7, <2>2, <2>6 DEF Queue!SendToBack
<1>8. CASE c.op = "front"
  <2>1. PICK q \in 0 .. uxLength - 1 : q = Before(r)
    BY AlongTheRing
  <2>2. /\ pcStorage' = [pcStorage EXCEPT ![r] = i] /\ pcReadFrom' = q
        /\ pcWriteTo' = pcWriteTo
    BY <1>2, <1>3, <1>8, <2>1 DEF prvCopyDataToQueue
  <2>3. \A n \in 0 .. N : Slot(q, n + 1) = Slot(r, n)
    BY <1>4, <2>1, AlongTheRing
  <2>4. RingInv'
    <3>1. Slot(q, N + 1) = Slot(r, N)
      BY <2>3
    <3>2. QED
      BY <1>2, <1>4, <1>5, <1>6, <2>2, <3>1 DEF RingInv
  <2>5. Contents' = [n \in 1 .. N + 1 |-> pcStorage'[Slot(q, n)]]
    BY <1>4, <1>6, <2>2, NextContents
  <2>6. pcStorage'[Slot(q, 1)] = i
    BY <1>5, <2>2, <2>3, AlongTheRing
  <2>7. ASSUME NEW n \in 1 .. N PROVE pcStorage'[Slot(q, n + 1)] = Contents[n]
    <3>1. Slot(r, n) # r
      <4>1. n \in 1 .. uxLength - 1
        BY <1>4
      <4>2. QED
        BY <4>1, AlongTheRing
    <3>2. Slot(q, n + 1) = Slot(r, n)
      BY <2>3
    <3>3. QED
      BY <1>5, <1>6, <2>2, <3>1, <3>2
  <2>8. Contents' = <<i>> \o Contents
    <3>1. /\ <<i>> \o Contents \in Seq(Items \cup {NoItem})
          /\ Len(<<i>> \o Contents) = 1 + N
          /\ \A n \in 1 .. 1 + N : (<<i>> \o Contents)[n] = IF n <= 1 THEN <<i>>[n] ELSE Contents[n - 1]
      <4>1. <<i>> \in Seq(Items \cup {NoItem}) /\ Len(<<i>>) = 1
        OBVIOUS
      <4>2. QED
        BY <1>6, <4>1, ConcatProperties
    <3>2. ASSUME NEW n \in 1 .. N + 1 PROVE pcStorage'[Slot(q, n)] = (<<i>> \o Contents)[n]
      <4>1. CASE n = 1
        BY <2>6, <3>1, <4>1
      <4>2. CASE n # 1
        <5>1. n - 1 \in 1 .. N /\ n - 1 + 1 = n /\ n \in 1 .. 1 + N /\ ~ n <= 1
          BY <4>2
        <5>2. QED
          BY <2>7, <3>1, <5>1
      <4>3. QED
        BY <4>1, <4>2
    <3>3. QED
      BY <2>5, <3>1, <3>2
  <2>9. QED
    BY <1>3, <1>6, <1>8, <2>4, <2>8 DEF Queue!SendToFront
<1>9. QED
  BY <1>7, <1>8

(* The first item is copied out, and stays only if it is peeked at. *)
LEMMA CopyFromQueue ==
  ASSUME RingInv, uxMessagesWaiting > 0
  PROVE  /\ TakeFirst => RingInv' /\ Queue!Receive
         /\ LookAtFirst => RingInv' /\ Queue!Peek
<1>1. PICK N \in 1 .. uxLength : N = uxMessagesWaiting
  BY QueueAssumption DEF RingInv
<1>2. PICK r \in 0 .. uxLength - 1 : r = pcReadFrom
  BY DEF RingInv
<1>3. uxLength \in Nat /\ uxLength > 0 /\ N - 1 \in 0 .. uxLength - 1 /\ N - 1 + 1 = N
  BY QueueAssumption
<1>4. PICK q \in 0 .. uxLength - 1 : q = After(r) /\ q = Slot(r, 1)
  BY AlongTheRing
<1>5. /\ Contents = [n \in 1 .. N |-> pcStorage[Slot(r, n)]]
      /\ Contents \in Seq(Items \cup {NoItem}) /\ Len(Contents) = N
      /\ Contents # <<>> /\ Head(Contents) = pcStorage[q]
  BY <1>1, <1>2, <1>4, ContentsFacts
<1>6. ASSUME LookAtFirst PROVE RingInv' /\ Queue!Peek
  BY <1>2, <1>4, <1>5, <1>6 DEF LookAtFirst, RingInv, Queue!Peek, Contents
<1>7. ASSUME TakeFirst PROVE RingInv' /\ Queue!Receive
  <2>1. /\ pcReadFrom' = q /\ pvBuffer' = pcStorage[q] /\ pcWriteTo' = pcWriteTo
        /\ pcStorage' = [pcStorage EXCEPT ![q] = NoItem] /\ uxMessagesWaiting' = N - 1
    BY <1>1, <1>2, <1>4, <1>7 DEF TakeFirst
  <2>2. \A n \in 0 .. N - 1 : Slot(q, n) = Slot(r, n + 1)
    BY <1>3, <1>4, AlongTheRing
  <2>3. RingInv'
    <3>1. Slot(q, N - 1) = Slot(r, N)
      BY <1>3, <2>2
    <3>2. QED
      BY <1>1, <1>2, <1>3, <2>1, <3>1 DEF RingInv
  <2>4. Contents' = [n \in 1 .. N - 1 |-> pcStorage'[Slot(q, n)]]
    <3>1. N - 1 \in 0 .. uxLength
      BY <1>3
    <3>2. QED
      BY <2>1, <3>1, NextContents
  <2>5. ASSUME NEW n \in 1 .. N - 1 PROVE pcStorage'[Slot(q, n)] = Contents[n + 1]
    <3>1. n + 1 \in 1 .. uxLength /\ 1 \in 1 .. uxLength /\ n + 1 # 1 /\ n + 1 \in 1 .. N
      BY <1>3
    <3>2. Slot(r, n + 1) # q
      BY <1>4, <3>1, AlongTheRing
    <3>3. Slot(q, n) = Slot(r, n + 1) /\ Slot(q, n) \in 0 .. uxLength - 1
      <4>1. n \in 0 .. uxLength /\ n \in 0 .. N - 1
        BY <1>3
      <4>2. QED
        BY <2>2, <4>1, SlotFacts
    <3>4. QED
      BY <1>5, <2>1, <3>1, <3>2, <3>3 DEF RingInv
  <2>6. Contents' = Tail(Contents)
    BY <1>5, <2>4, <2>5
  <2>7. QED
    BY <1>5, <2>1, <2>3, <2>6 DEF Queue!Receive
<1>8. QED
  BY <1>6, <1>7

-----------------------------------------------------------------------------
(* The event lists.                                                         *)

Distinct(list) == \A i, j \in 1 .. Len(list) : list[i] = list[j] => i = j

LEMMA PartFacts ==
  ASSUME NEW list \in Seq(Tasks), NEW b \in 0 .. Len(list)
  PROVE  /\ SubSeq(list, 1, b) \in Seq(Tasks) /\ Len(SubSeq(list, 1, b)) = b
         /\ \A i \in 1 .. b : SubSeq(list, 1, b)[i] = list[i]
         /\ SubSeq(list, b + 1, Len(list)) \in Seq(Tasks)
         /\ Len(SubSeq(list, b + 1, Len(list))) = Len(list) - b
         /\ \A i \in 1 .. Len(list) - b : SubSeq(list, b + 1, Len(list))[i] = list[b + i]
<1>1. /\ Len(list) \in Nat /\ b \in Int /\ b + 1 \in Int /\ 1 \in Int /\ Len(list) \in Int
      /\ \A i \in 1 .. b : list[i] \in Tasks
      /\ \A i \in b + 1 .. Len(list) : list[i] \in Tasks
  OBVIOUS
<1>2. /\ SubSeq(list, 1, b) \in Seq(Tasks)
      /\ Len(SubSeq(list, 1, b)) = IF 1 <= b THEN b - 1 + 1 ELSE 0
      /\ \A i \in 1 .. b - 1 + 1 : SubSeq(list, 1, b)[i] = list[1 + i - 1]
  BY <1>1, SubSeqProperties
<1>3. /\ SubSeq(list, b + 1, Len(list)) \in Seq(Tasks)
      /\ Len(SubSeq(list, b + 1, Len(list))) = IF b + 1 <= Len(list) THEN Len(list) - (b + 1) + 1 ELSE 0
      /\ \A i \in 1 .. Len(list) - (b + 1) + 1 : SubSeq(list, b + 1, Len(list))[i] = list[b + 1 + i - 1]
  BY <1>1, SubSeqProperties
<1>4. Len(SubSeq(list, 1, b)) = b /\ \A i \in 1 .. b : SubSeq(list, 1, b)[i] = list[i]
  <2>1. b - 1 + 1 = b /\ \A i \in 1 .. b : 1 + i - 1 = i
    OBVIOUS
  <2>2. QED
    BY <1>1, <1>2, <2>1
<1>5. /\ Len(SubSeq(list, b + 1, Len(list))) = Len(list) - b
      /\ \A i \in 1 .. Len(list) - b : SubSeq(list, b + 1, Len(list))[i] = list[b + i]
  <2>1. Len(list) - (b + 1) + 1 = Len(list) - b /\ \A i \in 1 .. Len(list) - b : b + 1 + i - 1 = b + i
    BY <1>1
  <2>2. QED
    <3>1. Len(SubSeq(list, b + 1, Len(list))) = Len(list) - b
      BY <1>1, <1>3
    <3>2. ASSUME NEW i \in 1 .. Len(list) - b
          PROVE  SubSeq(list, b + 1, Len(list))[i] = list[b + i]
      <4>1. i \in 1 .. Len(list) - (b + 1) + 1 /\ b + 1 + i - 1 = b + i
        BY <2>1
      <4>2. SubSeq(list, b + 1, Len(list))[i] = list[b + 1 + i - 1]
        BY <1>3, <4>1
      <4>3. QED
        BY <4>1, <4>2
    <3>3. QED
      BY <3>1, <3>2
<1>6. QED
  BY <1>2, <1>3, <1>4, <1>5

(* Where vListInsert puts a task: somewhere in the list. *)
LEMMA InsertedFacts ==
  ASSUME NEW list \in Seq(Tasks), NEW t \in Tasks
  PROVE  /\ Inserted(list, t) \in Seq(Tasks)
         /\ TasksOf(Inserted(list, t)) = TasksOf(list) \cup {t}
         /\ Distinct(list) /\ t \notin TasksOf(list) => Distinct(Inserted(list, t))
<1> DEFINE S == {n \in DOMAIN list : uxPriority[list[n]] >= uxPriority[t]}
           before == Cardinality(S)
<1>1. before \in 0 .. Len(list)
  <2>1. Len(list) \in Nat /\ DOMAIN list = 1 .. Len(list) /\ S \in SUBSET (1 .. Len(list))
    OBVIOUS
  <2>2. IsFiniteSet(1 .. Len(list)) /\ Cardinality(1 .. Len(list)) = Len(list)
    <3>1. 1 \in Int /\ Len(list) \in Int
      BY <2>1
    <3>2. /\ IsFiniteSet(1 .. Len(list))
          /\ Cardinality(1 .. Len(list)) = IF 1 > Len(list) THEN 0 ELSE Len(list) - 1 + 1
      BY <3>1, FS_Interval, Zenon
    <3>3. QED
      BY <2>1, <3>2, SMTT(30)
  <2> HIDE DEF S
  <2>3. IsFiniteSet(S) /\ Cardinality(S) <= Cardinality(1 .. Len(list))
    BY <2>1, <2>2, FS_Subset
  <2>4. Cardinality(S) \in Nat
    BY <2>3, FS_CardinalityType
  <2>5. QED
    BY <2>1, <2>2, <2>3, <2>4
<1>2. Inserted(list, t) = SubSeq(list, 1, before) \o <<t>> \o SubSeq(list, before + 1, Len(list))
  BY DEF Inserted
<1> HIDE DEF before
<1>3. PICK b \in 0 .. Len(list) : b = before
  BY <1>1
<1> DEFINE new == SubSeq(list, 1, b) \o <<t>> \o SubSeq(list, b + 1, Len(list))
<1>4. /\ new \in Seq(Tasks) /\ Len(new) = Len(list) + 1
      /\ \A i \in 1 .. Len(list) + 1 : new[i] = IF i <= b THEN list[i] ELSE IF i = b + 1 THEN t ELSE list[i - 1]
  <2>1. PICK left \in Seq(Tasks) : left = SubSeq(list, 1, b) /\ Len(left) = b
                                   /\ \A i \in 1 .. b : left[i] = list[i]
    BY PartFacts
  <2>2. PICK right \in Seq(Tasks) :
           right = SubSeq(list, b + 1, Len(list)) /\ Len(right) = Len(list) - b
           /\ \A i \in 1 .. Len(list) - b : right[i] = list[b + i]
    BY PartFacts
  <2>3. PICK middle \in Seq(Tasks) : middle = left \o <<t>> /\ Len(middle) = b + 1
                                     /\ \A i \in 1 .. b : middle[i] = list[i]
                                     /\ middle[b + 1] = t
    <3>1. <<t>> \in Seq(Tasks) /\ Len(<<t>>) = 1 /\ <<t>>[1] = t
      OBVIOUS
    <3>2. /\ left \o <<t>> \in Seq(Tasks) /\ Len(left \o <<t>>) = b + 1
          /\ \A i \in 1 .. b + 1 : (left \o <<t>>)[i] = IF i <= b THEN left[i] ELSE <<t>>[i - b]
      BY <2>1, <3>1, ConcatProperties
    <3>3. (left \o <<t>>)[b + 1] = <<t>>[1] /\ \A i \in 1 .. b : (left \o <<t>>)[i] = list[i]
      BY <2>1, <3>2
    <3>4. QED
      BY <3>1, <3>2, <3>3
  <2>4. new = middle \o right
    BY <2>1, <2>2, <2>3
  <2> HIDE DEF new
  <2>5. new \in Seq(Tasks) /\ Len(new) = Len(list) + 1
    <3>1. new \in Seq(Tasks) /\ Len(new) = Len(middle) + Len(right)
      BY <2>4, ConcatProperties
    <3>2. QED
      BY <2>2, <2>3, <3>1
  <2>6. ASSUME NEW i \in 1 .. Len(list) + 1
        PROVE  new[i] = IF i <= b THEN list[i] ELSE IF i = b + 1 THEN t ELSE list[i - 1]
    <3>1. new[i] = IF i <= b + 1 THEN middle[i] ELSE right[i - (b + 1)]
      <4>1. i \in 1 .. Len(middle) + Len(right)
        <5>1. Len(middle) + Len(right) = Len(list) + 1
          <6>1. Len(middle) = b + 1 /\ Len(right) = Len(list) - b /\ Len(list) \in Nat /\ b \in Nat
            BY <2>2, <2>3
          <6>2. QED
            BY <6>1
        <5>2. QED
          BY <5>1
      <4>2. QED
        BY <2>3, <2>4, <4>1, ConcatProperties
    <3>2. CASE i <= b + 1
      BY <2>3, <3>1, <3>2
    <3>3. CASE i > b + 1
      <4>1. i - (b + 1) \in 1 .. Len(list) - b /\ b + (i - (b + 1)) = i - 1
        BY <3>3
      <4>2. QED
        BY <2>2, <3>1, <3>3, <4>1
    <3>4. QED
      BY <3>2, <3>3
  <2>7. QED
    BY <2>5, <2>6
<1> HIDE DEF new
<1>5. Inserted(list, t) = new
  BY <1>2, <1>3 DEF new
<1>6. TasksOf(new) = TasksOf(list) \cup {t}
  <2>1. DOMAIN new = 1 .. Len(list) + 1 /\ DOMAIN list = 1 .. Len(list)
    BY <1>4
  <2>2. ASSUME NEW i \in 1 .. Len(list) PROVE list[i] \in TasksOf(new)
    <3>1. CASE i <= b
      BY <1>4, <2>1, <3>1 DEF TasksOf
    <3>2. CASE i > b
      <4>1. i + 1 \in 1 .. Len(list) + 1 /\ new[i + 1] = list[i]
        BY <1>4, <3>2
      <4>2. QED
        BY <2>1, <4>1 DEF TasksOf
    <3>3. QED
      BY <3>1, <3>2
  <2>3. t \in TasksOf(new)
    <3>1. b + 1 \in 1 .. Len(list) + 1 /\ new[b + 1] = t
      BY <1>4
    <3>2. QED
      BY <2>1, <3>1 DEF TasksOf
  <2>4. ASSUME NEW i \in 1 .. Len(list) + 1 PROVE new[i] \in TasksOf(list) \cup {t}
    <3>1. i <= b => i \in 1 .. Len(list)
      OBVIOUS
    <3>2. i > b + 1 => i - 1 \in 1 .. Len(list)
      OBVIOUS
    <3>3. CASE i <= b
      BY <1>4, <2>1, <3>1, <3>3 DEF TasksOf
    <3>4. CASE i > b + 1
      <4>1. new[i] = list[i - 1]
        BY <1>4, <3>4
      <4>2. QED
        BY <2>1, <3>2, <3>4, <4>1 DEF TasksOf
    <3>5. CASE i = b + 1
      BY <1>4, <3>5
    <3>6. QED
      BY <3>3, <3>4, <3>5
  <2>5. QED
    BY <2>1, <2>2, <2>3, <2>4 DEF TasksOf
<1>7. ASSUME Distinct(list), t \notin TasksOf(list) PROVE Distinct(new)
  <2>1. \A i \in 1 .. Len(list) : list[i] # t
    BY <1>7 DEF TasksOf
  <2>2. ASSUME NEW i \in 1 .. Len(list) + 1, NEW j \in 1 .. Len(list) + 1, new[i] = new[j], i < j
        PROVE  FALSE
    <3>1. CASE i = b + 1
      <4>1. new[i] = t /\ new[j] = list[j - 1] /\ j - 1 \in 1 .. Len(list)
        BY <1>4, <2>2, <3>1
      <4>2. QED
        BY <2>1, <2>2, <4>1
    <3>2. CASE i # b + 1 /\ j = b + 1
      <4>1. new[j] = t /\ new[i] = list[i] /\ i \in 1 .. Len(list)
        BY <1>4, <2>2, <3>2
      <4>2. QED
        BY <2>1, <2>2, <4>1
    <3>3. CASE i # b + 1 /\ j # b + 1
      <4>1. PICK k \in 1 .. Len(list), l \in 1 .. Len(list) : new[i] = list[k] /\ new[j] = list[l] /\ k < l
        <5>1. PICK k \in 1 .. Len(list) : new[i] = list[k] /\ k = IF i <= b THEN i ELSE i - 1
          BY <1>4, <2>2, <3>3
        <5>2. PICK l \in 1 .. Len(list) : new[j] = list[l] /\ l = IF j <= b THEN j ELSE j - 1
          BY <1>4, <2>2, <3>3
        <5>3. k < l
          BY <2>2, <3>3, <5>1, <5>2
        <5>4. QED
          BY <5>1, <5>2, <5>3
      <4>2. list[k] = list[l]
        BY <2>2, <4>1, Zenon
      <4>3. k = l
        BY <1>7, <4>2, Zenon DEF Distinct
      <4>4. k \in Nat /\ k < l
        BY <4>1
      <4>5. QED
        BY <4>3, <4>4
    <3>4. QED
      BY <3>1, <3>2, <3>3
  <2>3. QED
    <3>1. \A i, j \in 1 .. Len(new) : i \in Nat /\ j \in Nat
      BY <1>4
    <3>2. QED
      BY <1>4, <2>2, <3>1 DEF Distinct
<1>8. QED
  BY <1>4, <1>5, <1>6, <1>7

LEMMA UnlinkedFacts ==
  ASSUME NEW list \in Seq(Tasks), Distinct(list), NEW t \in TasksOf(list)
  PROVE  /\ Unlinked(list, t) \in Seq(Tasks)
         /\ TasksOf(Unlinked(list, t)) = TasksOf(list) \ {t}
         /\ Distinct(Unlinked(list, t))
<1> DEFINE i == CHOOSE n \in DOMAIN list : list[n] = t
<1>1. i \in 1 .. Len(list) /\ list[i] = t
  <2>1. DOMAIN list = 1 .. Len(list) /\ \E n \in DOMAIN list : list[n] = t
    BY DEF TasksOf
  <2>2. QED
    BY <2>1
<1>2. Unlinked(list, t) = SubSeq(list, 1, i - 1) \o SubSeq(list, i + 1, Len(list))
  <2>1. ~ \A n \in DOMAIN list : list[n] # t
    BY DEF TasksOf
  <2>2. QED
    BY <2>1 DEF Unlinked
<1> HIDE DEF i
<1>3. PICK b \in 1 .. Len(list) : b = i /\ list[b] = t
  BY <1>1
<1> DEFINE new == SubSeq(list, 1, b - 1) \o SubSeq(list, b + 1, Len(list))
<1>4. /\ new \in Seq(Tasks) /\ Len(new) = Len(list) - 1
      /\ \A n \in 1 .. Len(list) - 1 : new[n] = IF n < b THEN list[n] ELSE list[n + 1]
  <2>1. PICK left \in Seq(Tasks) : left = SubSeq(list, 1, b - 1) /\ Len(left) = b - 1
                                   /\ \A n \in 1 .. b - 1 : left[n] = list[n]
    <3>1. b - 1 \in 0 .. Len(list)
      OBVIOUS
    <3>2. QED
      BY <3>1, PartFacts
  <2>2. PICK right \in Seq(Tasks) :
           right = SubSeq(list, b + 1, Len(list)) /\ Len(right) = Len(list) - b
           /\ \A n \in 1 .. Len(list) - b : right[n] = list[b + n]
    <3>1. b \in 0 .. Len(list)
      OBVIOUS
    <3>2. QED
      BY <3>1, PartFacts
  <2>3. new = left \o right
    BY <2>1, <2>2
  <2> HIDE DEF new
  <2>4. new \in Seq(Tasks) /\ Len(new) = Len(list) - 1
    <3>1. new \in Seq(Tasks) /\ Len(new) = Len(left) + Len(right)
      BY <2>3, ConcatProperties
    <3>2. QED
      BY <2>1, <2>2, <3>1
  <2>5. ASSUME NEW n \in 1 .. Len(list) - 1
        PROVE  new[n] = IF n < b THEN list[n] ELSE list[n + 1]
    <3>1. new[n] = IF n <= b - 1 THEN left[n] ELSE right[n - (b - 1)]
      <4>1. Len(left) + Len(right) = Len(list) - 1
        <5>1. Len(left) = b - 1 /\ Len(right) = Len(list) - b /\ Len(list) \in Nat /\ b \in Nat
          BY <2>1, <2>2
        <5>2. QED
          BY <5>1
      <4>2. QED
        BY <2>1, <2>3, <4>1, ConcatProperties
    <3>2. CASE n < b
      BY <2>1, <3>1, <3>2
    <3>3. CASE n >= b
      <4>1. n - (b - 1) \in 1 .. Len(list) - b /\ b + (n - (b - 1)) = n + 1
        BY <3>3
      <4>2. QED
        BY <2>2, <3>1, <3>3, <4>1
    <3>4. QED
      BY <3>2, <3>3
  <2>6. QED
    BY <2>4, <2>5
<1> HIDE DEF new
<1>5. Unlinked(list, t) = new
  BY <1>2, <1>3 DEF new
<1>6. DOMAIN new = 1 .. Len(list) - 1 /\ DOMAIN list = 1 .. Len(list)
  BY <1>4
<1>7. TasksOf(new) = TasksOf(list) \ {t}
  <2>1. ASSUME NEW n \in 1 .. Len(list), list[n] # t PROVE list[n] \in TasksOf(new)
    <3>1. CASE n < b
      BY <1>4, <1>6, <3>1, SMTT(30) DEF TasksOf
    <3>2. CASE n > b
      <4>1. n - 1 \in 1 .. Len(list) - 1 /\ new[n - 1] = list[n]
        BY <1>4, <3>2
      <4>2. QED
        BY <1>6, <4>1 DEF TasksOf
    <3>3. QED
      BY <1>3, <2>1, <3>1, <3>2
  <2>2. ASSUME NEW n \in 1 .. Len(list) - 1 PROVE new[n] \in TasksOf(list) \ {t}
    <3>1. PICK k \in 1 .. Len(list) : k # b /\ new[n] = list[k]
      BY <1>4, SMTT(30)
    <3>2. list[k] # t
      BY <1>3, <3>1 DEF Distinct
    <3>3. QED
      BY <1>6, <3>1, <3>2 DEF TasksOf
  <2>3. QED
    BY <1>6, <2>1, <2>2 DEF TasksOf
<1>8. Distinct(new)
  BY <1>4, SMTT(30) DEF Distinct
<1>9. QED
  BY <1>4, <1>5, <1>7, <1>8

LEMMA TasksOfSeq ==
  ASSUME NEW list \in Seq(Tasks)
  PROVE  TasksOf(list) \subseteq Tasks
  BY DEF TasksOf

LEMMA NotListed ==
  ASSUME NEW list, NEW t, t \notin TasksOf(list)
  PROVE  Unlinked(list, t) = list
  BY DEF Unlinked, TasksOf

LEMMA UnlinkedAny ==
  ASSUME NEW list \in Seq(Tasks), Distinct(list), NEW t
  PROVE  /\ Unlinked(list, t) \in Seq(Tasks) /\ Distinct(Unlinked(list, t))
         /\ TasksOf(Unlinked(list, t)) = TasksOf(list) \ {t}
         /\ Unlinked(list, t) # <<>> => list # <<>>
<1>1. CASE t \in TasksOf(list)
  <2>1. list # <<>>
    BY <1>1 DEF TasksOf
  <2>2. QED
    BY <1>1, <2>1, UnlinkedFacts
<1>2. CASE t \notin TasksOf(list)
  BY <1>2, NotListed
<1>3. QED
  BY <1>1, <1>2

(* The first tasks of a list and the rest: n of them, unless none is left. *)
LEMMA FirstFacts ==
  ASSUME NEW list \in Seq(Tasks), Distinct(list), NEW n \in Nat
  PROVE  /\ Rest(list, n) \in Seq(Tasks) /\ Distinct(Rest(list, n))
         /\ TasksOf(First(list, n)) \subseteq TasksOf(list)
         /\ TasksOf(Rest(list, n)) = TasksOf(list) \ TasksOf(First(list, n))
         /\ Rest(list, n) # <<>> => Cardinality(TasksOf(First(list, n))) = n
         /\ n = 0 => TasksOf(First(list, n)) = {} /\ Rest(list, n) = list
         /\ n = 1 /\ list # <<>> => TasksOf(First(list, n)) # {}
<1>1. Len(list) \in Nat /\ DOMAIN list = 1 .. Len(list) /\ \A i \in 1 .. Len(list) : list[i] \in Tasks
  OBVIOUS
<1> PICK len \in Nat : len = Len(list)
  BY <1>1
<1>2. PICK b \in 0 .. len : b = IF n < len THEN n ELSE len
  OBVIOUS
<1>3. PICK left \in Seq(Tasks) : left = First(list, n) /\ Len(left) = b
                                 /\ \A i \in 1 .. b : left[i] = list[i]
  <2>1. First(list, n) = SubSeq(list, 1, b)
    BY <1>2 DEF First
  <2>2. QED
    BY <2>1, PartFacts
<1>4. PICK right \in Seq(Tasks) : right = Rest(list, n) /\ Len(right) = len - b
                                  /\ \A i \in 1 .. len - b : right[i] = list[b + i]
  <2>1. CASE n <= len
    <3>1. b = n
      BY <1>2, <2>1
    <3>2. Rest(list, n) = SubSeq(list, b + 1, Len(list))
      BY <3>1 DEF Rest
    <3>3. QED
      BY <3>2, PartFacts
  <2>2. CASE n > len
    <3>1. SubSeq(list, n + 1, len) = <<>>
      BY <1>1, <2>2
    <3>2. len - b = 0 /\ \A i \in 1 .. len - b : FALSE
      BY <1>2, <2>2
    <3>3. <<>> \in Seq(Tasks) /\ Len(<<>>) = 0
      OBVIOUS
    <3>4. QED
      BY <3>1, <3>2, <3>3 DEF Rest
  <2>3. QED
    BY <1>1, <2>1, <2>2
<1>5. DOMAIN left = 1 .. b /\ DOMAIN right = 1 .. len - b
  BY <1>3, <1>4
<1>6. TasksOf(left) = {list[i] : i \in 1 .. b}
  BY <1>3, <1>5 DEF TasksOf
<1>7. TasksOf(right) = {list[i] : i \in b + 1 .. len}
  <2>1. ASSUME NEW i \in b + 1 .. len PROVE list[i] \in TasksOf(right)
    <3>1. i - b \in 1 .. len - b /\ b + (i - b) = i
      BY <1>1
    <3>2. QED
      BY <1>4, <1>5, <3>1 DEF TasksOf
  <2>2. ASSUME NEW i \in 1 .. len - b PROVE b + i \in b + 1 .. len /\ right[i] = list[b + i]
    BY <1>1, <1>4
  <2>3. QED
    BY <1>5, <2>1, <2>2, ZenonT(40) DEF TasksOf
<1>8. TasksOf(list) = {list[i] : i \in 1 .. len}
  BY <1>1 DEF TasksOf
<1>9. TasksOf(right) = TasksOf(list) \ TasksOf(left) /\ TasksOf(left) \subseteq TasksOf(list)
  <2>1. ASSUME NEW i \in 1 .. b, NEW j \in b + 1 .. len PROVE list[i] # list[j]
    <3>1. i \in 1 .. len /\ j \in 1 .. len /\ i # j
      BY <1>1
    <3>2. QED
      BY <3>1 DEF Distinct
  <2>2. \A i \in 1 .. len : i \in 1 .. b \/ i \in b + 1 .. len
    BY <1>1
  <2>3. \A i \in 1 .. b : i \in 1 .. len
    BY <1>1
  <2>4. \A i \in b + 1 .. len : i \in 1 .. len
    BY <1>1
  <2>5. QED
    BY <1>6, <1>7, <1>8, <2>1, <2>2, <2>3, <2>4
<1>10. Distinct(right)
  <2>1. ASSUME NEW i \in 1 .. Len(right), NEW j \in 1 .. Len(right), right[i] = right[j] PROVE i = j
    <3>1. b + i \in 1 .. len /\ b + j \in 1 .. len /\ list[b + i] = list[b + j]
      BY <1>1, <1>4, <2>1, SMTT(30)
    <3>2. b + i = b + j
      BY <3>1 DEF Distinct
    <3>3. QED
      BY <3>2
  <2>2. QED
    BY <2>1 DEF Distinct
<1>11. Cardinality(TasksOf(left)) = b
  <2>1. left \in Bijection(1 .. b, TasksOf(left))
    <3>1. left \in [1 .. b -> TasksOf(left)]
      BY <1>5 DEF TasksOf
    <3>2. \A i, j \in 1 .. b : left[i] = left[j] => i = j
      <4>1. \A i \in 1 .. b : i \in 1 .. len
        BY <1>1
      <4>2. QED
        BY <1>3, <4>1 DEF Distinct
    <3>3. \A t \in TasksOf(left) : \E i \in 1 .. b : left[i] = t
      BY <1>5 DEF TasksOf
    <3>4. QED
      BY <3>1, <3>2, <3>3 DEF Bijection, Injection, Surjection, IsInjective
  <2>2. ExistsBijection(1 .. b, TasksOf(left))
    BY <2>1 DEF ExistsBijection
  <2>3. QED
    BY <2>2, FS_CountingElements
<1>12. right # <<>> => b = n
  <2>1. ASSUME b # n PROVE len - b = 0
    BY <1>2, <2>1
  <2>2. Len(right) = 0 => right = <<>>
    BY <1>4
  <2>3. QED
    BY <1>4, <2>1, <2>2
<1>13. n = 0 => TasksOf(left) = {} /\ right = list
  <2>1. ASSUME n = 0 PROVE b = 0 /\ len - b = len
    BY <1>2, <2>1
  <2>2. ASSUME n = 0 PROVE TasksOf(left) = {}
    BY <1>6, <2>1, <2>2
  <2>3. ASSUME n = 0 PROVE right = list
    <3>1. \A i \in 1 .. len : right[i] = list[i]
      BY <1>4, <2>1, <2>3
    <3>2. QED
      BY <1>4, <2>1, <2>3, <3>1
  <2>4. QED
    BY <2>2, <2>3
<1>14. n = 1 /\ list # <<>> => TasksOf(left) # {}
  <2>1. ASSUME n = 1, list # <<>> PROVE 1 \in 1 .. b
    <3>1. len # 0
      BY <2>1
    <3>2. QED
      BY <1>2, <2>1, <3>1
  <2>2. QED
    BY <1>6, <2>1
<1>15. QED
  BY <1>3, <1>4, <1>9, <1>10, <1>11, <1>12, <1>13, <1>14

-----------------------------------------------------------------------------
(* The invariant.                                                           *)

Receivers == {t \in Tasks : call[t].op \in {"receive", "peek"}}
Senders == {t \in Tasks : Sends(call[t])}

(* Where a task is while it has suspended the scheduler. *)
Inside == {"lock", "look", "place", "unlockTx", "unlockRx", "resume"}

SchedulerInv ==
    /\ at \in [Tasks -> Places]
    /\ call \in [Tasks -> Calls \cup {NoCall}]
    /\ \A t \in Tasks : at[t] = "elsewhere" \/ call[t] \in Calls
    /\ suspendedBy \in Tasks \cup {NoTask}
    /\ \A t \in Tasks : at[t] \in Inside <=> suspendedBy = t
    /\ over \in BOOLEAN
    /\ over => \E t \in Tasks : at[t] \in {"unlockTx", "unlockRx", "resume"} /\ t \notin blocked

LocksInv ==
    /\ {cRxLock, cTxLock} \subseteq queueUNLOCKED .. MaxLock
    /\ cTxLock # queueUNLOCKED <=> \E t \in Tasks : at[t] \in {"look", "place", "unlockTx"}
    /\ cRxLock # queueUNLOCKED <=> \E t \in Tasks : at[t] \in {"look", "place", "unlockTx", "unlockRx"}

Waiting == TasksOf(xTasksWaitingToSend) \cup TasksOf(xTasksWaitingToReceive)

ListsInv ==
    /\ xTasksWaitingToReceive \in Seq(Tasks) /\ Distinct(xTasksWaitingToReceive)
    /\ xTasksWaitingToSend \in Seq(Tasks) /\ Distinct(xTasksWaitingToSend)
    /\ TasksOf(xTasksWaitingToReceive) \cap TasksOf(xTasksWaitingToSend) = {}
    /\ Waiting \subseteq blocked /\ blocked \subseteq Tasks
    /\ xPendingReadyList \subseteq blocked \ Waiting
    /\ suspendedBy = NoTask => xPendingReadyList = {}

(* A task that is blocked has tried, and waits in the list of its call. *)
PlacesInv ==
    /\ TasksOf(xTasksWaitingToReceive) \subseteq Receivers
    /\ TasksOf(xTasksWaitingToSend) \subseteq Senders
    /\ \A t \in blocked : at[t] \in {"try", "unlockTx", "unlockRx", "resume"}

(* What interrupts have left to the task that unlocks the queue. *)
Pended(lock) == IF lock = queueUNLOCKED THEN 0 ELSE lock

(* Somebody waits, or is about to: then for what is there, one task each is *)
(* awake or will be woken.                                                  *)
Covered(list, comes, amount, awake, lock) ==
    list # <<>> \/ comes => amount <= Cardinality(awake) + Pended(lock)

Comes(S) == \E t \in S : at[t] = "place"

ReceiversCovered ==
    Covered(xTasksWaitingToReceive, Comes(Receivers), uxMessagesWaiting,
            Awake(Receivers), cTxLock)
SendersCovered ==
    Covered(xTasksWaitingToSend, Comes(Senders), uxLength - uxMessagesWaiting,
            Awake(Senders), cRxLock)

QueueInv ==
    /\ RingInv /\ SchedulerInv /\ LocksInv /\ ListsInv /\ PlacesInv
    /\ ReceiversCovered /\ SendersCovered

-----------------------------------------------------------------------------
(* Counting the woken.                                                      *)

LEMMA SubsetCount ==
  ASSUME NEW A \in SUBSET Tasks, NEW B \in SUBSET Tasks, A \subseteq B
  PROVE  /\ IsFiniteSet(A) /\ Cardinality(A) \in Nat /\ Cardinality(B) \in Nat
         /\ Cardinality(A) <= Cardinality(B)
<1>1. IsFiniteSet(A) /\ IsFiniteSet(B)
  BY QueueAssumption, FS_Subset
<1>2. QED
  BY <1>1, FS_Subset, FS_CardinalityType

LEMMA LessOne ==
  ASSUME NEW A \in SUBSET Tasks, NEW t
  PROVE  Cardinality(A \ {t}) + 1 >= Cardinality(A)
<1>1. IsFiniteSet(A) /\ Cardinality(A) \in Nat
  BY SubsetCount
<1>2. Cardinality(A \ {t}) = IF t \in A THEN Cardinality(A) - 1 ELSE Cardinality(A)
  BY <1>1, FS_RemoveElement
<1>3. QED
  BY <1>1, <1>2

(* The first n of the list are woken, and some are left: then n more tasks  *)
(* are awake.                                                               *)
LEMMA WokenCount ==
  ASSUME NEW list \in Seq(Tasks), Distinct(list), NEW n \in Nat,
         NEW A \in SUBSET Tasks, NEW B \in SUBSET Tasks,
         A \cap TasksOf(First(list, n)) = {}, A \cup TasksOf(First(list, n)) \subseteq B,
         Rest(list, n) # <<>>
  PROVE  /\ list # <<>>
         /\ Cardinality(A) \in Nat /\ Cardinality(B) \in Nat /\ Cardinality(A) + n <= Cardinality(B)
<1> DEFINE W == TasksOf(First(list, n))
<1>1. W \subseteq TasksOf(list) /\ TasksOf(list) \subseteq Tasks /\ Cardinality(W) = n
  BY FirstFacts, TasksOfSeq
<1> HIDE DEF W
<1>2. list # <<>>
  <2>1. list = <<>> => Len(list) = 0
    OBVIOUS
  <2>2. list = <<>> => SubSeq(list, n + 1, Len(list)) = <<>>
    BY <2>1
  <2>3. QED
    BY <2>2 DEF Rest
<1>3. Cardinality(A \cup W) = Cardinality(A) + n
  <2>1. IsFiniteSet(A) /\ IsFiniteSet(W) /\ A \cap W = {}
    BY <1>1, SubsetCount DEF W
  <2>2. Cardinality(A \cup W) = Cardinality(A) + Cardinality(W) - Cardinality(A \cap W)
    BY <2>1, FS_Union
  <2>3. Cardinality(A \cap W) = 0
    BY <2>1, FS_EmptySet
  <2>4. Cardinality(A) \in Nat
    BY SubsetCount
  <2>5. QED
    BY <1>1, <2>2, <2>3, <2>4
<1>4. A \cup W \in SUBSET Tasks /\ A \cup W \subseteq B
  BY <1>1 DEF W
<1>5. Cardinality(A \cup W) <= Cardinality(B)
  BY <1>4, SubsetCount
<1>6. QED
  BY <1>2, <1>3, <1>5, SubsetCount

(* Nothing of the kind is there. *)
LEMMA NothingToCover ==
  ASSUME NEW list, NEW comes, NEW B \in SUBSET Tasks, NEW lock \in queueUNLOCKED .. MaxLock,
         NEW amount, amount = 0
  PROVE  Covered(list, comes, amount, B, lock)
<1>1. Cardinality(B) \in Nat
  BY SubsetCount
<1>2. Pended(lock) \in Nat
  BY QueueAssumption DEF Pended, queueUNLOCKED
<1>3. QED
  BY <1>1, <1>2 DEF Covered

-----------------------------------------------------------------------------
(* What steps do to the lists and to those awake.                           *)

LEMMA AwakeIs ==
  ASSUME NEW list \in Seq(Tasks), NEW list2 \in Seq(Tasks)
  PROVE  TasksOf(list \o list2) = TasksOf(list) \cup TasksOf(list2)
<1>1. /\ list \o list2 \in Seq(Tasks) /\ Len(list \o list2) = Len(list) + Len(list2)
      /\ \A i \in 1 .. Len(list) + Len(list2) :
            (list \o list2)[i] = IF i <= Len(list) THEN list[i] ELSE list2[i - Len(list)]
  BY ConcatProperties
<1>2. PICK m, n \in Nat : m = Len(list) /\ n = Len(list2)
  OBVIOUS
<1>3. DOMAIN list = 1 .. m /\ DOMAIN list2 = 1 .. n /\ DOMAIN (list \o list2) = 1 .. m + n
  BY <1>1, <1>2
<1> DEFINE both == list \o list2
<1>4. \A i \in 1 .. m + n : both[i] = IF i <= m THEN list[i] ELSE list2[i - m]
  BY <1>1, <1>2
<1>5. DOMAIN both = 1 .. m + n
  BY <1>3
<1> HIDE DEF both
<1>6. \A i \in 1 .. m : i \in 1 .. m + n /\ both[i] = list[i]
  BY <1>4
<1>7. \A i \in 1 .. n : i + m \in 1 .. m + n /\ both[i + m] = list2[i]
  <2>1. ASSUME NEW i \in 1 .. n PROVE i + m \in 1 .. m + n /\ ~ i + m <= m /\ i + m - m = i
    OBVIOUS
  <2>2. QED
    BY <1>4, <2>1
<1>8. \A i \in 1 .. m + n : i \in 1 .. m \/ (i - m \in 1 .. n /\ i - m + m = i)
  OBVIOUS
<1>9. TasksOf(both) \subseteq TasksOf(list) \cup TasksOf(list2)
  <2>1. ASSUME NEW i \in 1 .. m + n PROVE both[i] \in TasksOf(list) \cup TasksOf(list2)
    <3>1. CASE i \in 1 .. m
      BY <1>3, <1>6, <3>1 DEF TasksOf
    <3>2. CASE i - m \in 1 .. n /\ i - m + m = i
      <4>1. both[i] = list2[i - m]
        <5>1. PICK k \in 1 .. n : k = i - m /\ k + m = i
          BY <3>2
        <5>2. QED
          BY <1>7, <5>1
      <4>2. QED
        BY <1>3, <3>2, <4>1 DEF TasksOf
    <3>3. QED
      BY <1>8, <3>1, <3>2
  <2>2. QED
    BY <1>5, <2>1 DEF TasksOf
<1>10. TasksOf(list) \cup TasksOf(list2) \subseteq TasksOf(both)
  BY <1>3, <1>5, <1>6, <1>7 DEF TasksOf
<1>11. QED
  BY <1>9, <1>10 DEF both

(* A task is awake if it will try before it sleeps. *)
IsAwake(t) == /\ at[t] \in {"try", "unlockRx", "resume"}
              /\ ~(over /\ suspendedBy = t)
              /\ t \notin Waiting

LEMMA AwakeTasks ==
  /\ ListsInv => \A S : Awake(S) = {t \in S : IsAwake(t)}
  /\ ListsInv' => /\ Awake(Receivers)' = {t \in Receivers' : IsAwake(t)'}
                  /\ Awake(Senders)' = {t \in Senders' : IsAwake(t)'}
<1>1. ASSUME ListsInv PROVE \A S : Awake(S) = {t \in S : IsAwake(t)}
  <2>1. TasksOf(xTasksWaitingToSend \o xTasksWaitingToReceive) = Waiting
    BY <1>1, AwakeIs DEF ListsInv, Waiting
  <2>2. QED
    BY <2>1 DEF Awake, IsAwake
<1>2. ASSUME ListsInv'
      PROVE  /\ Awake(Receivers)' = {t \in Receivers' : IsAwake(t)'}
             /\ Awake(Senders)' = {t \in Senders' : IsAwake(t)'}
  <2>1. TasksOf(xTasksWaitingToSend' \o xTasksWaitingToReceive') = Waiting'
    BY <1>2, AwakeIs DEF ListsInv, Waiting
  <2>2. QED
    BY <2>1 DEF Awake, IsAwake
<1>3. QED
  BY <1>1, <1>2

LEMMA OthersAwake ==
  ASSUME ListsInv, ListsInv', NEW t,
         \A u \in Tasks \ {t} : at'[u] = at[u] /\ call'[u] = call[u],
         \A u \in Tasks \ {t} : over' /\ suspendedBy' = u => over /\ suspendedBy = u,
         Waiting' \subseteq Waiting \cup {t}
  PROVE  /\ Awake(Receivers) \ {t} \subseteq Awake(Receivers)'
         /\ Awake(Senders) \ {t} \subseteq Awake(Senders)'
         /\ {Awake(Receivers), Awake(Senders), Awake(Receivers)', Awake(Senders)'} \subseteq SUBSET Tasks
<1>1. /\ Awake(Receivers) = {u \in Receivers : IsAwake(u)} /\ Awake(Senders) = {u \in Senders : IsAwake(u)}
      /\ Awake(Receivers)' = {u \in Receivers' : IsAwake(u)'}
      /\ Awake(Senders)' = {u \in Senders' : IsAwake(u)'}
  BY AwakeTasks
<1>2. \A u \in Tasks \ {t} : IsAwake(u) => IsAwake(u)'
  BY DEF IsAwake
<1>3. /\ \A u \in Tasks \ {t} : u \in Receivers => u \in Receivers'
      /\ \A u \in Tasks \ {t} : u \in Senders => u \in Senders'
  BY DEF Receivers, Senders
<1>4. Receivers \cup Senders \cup Receivers' \cup Senders' \subseteq Tasks
  BY DEF Receivers, Senders
<1>5. QED
  BY <1>1, <1>2, <1>3, <1>4

LEMMA AllAwake ==
  ASSUME ListsInv, ListsInv',
         \A u \in Tasks : IsAwake(u) => IsAwake(u)' /\ call'[u] = call[u]
  PROVE  /\ Awake(Receivers) \subseteq Awake(Receivers)' /\ Awake(Senders) \subseteq Awake(Senders)'
         /\ {Awake(Receivers), Awake(Senders), Awake(Receivers)', Awake(Senders)'} \subseteq SUBSET Tasks
<1>1. /\ Awake(Receivers) = {u \in Receivers : IsAwake(u)} /\ Awake(Senders) = {u \in Senders : IsAwake(u)}
      /\ Awake(Receivers)' = {u \in Receivers' : IsAwake(u)'}
      /\ Awake(Senders)' = {u \in Senders' : IsAwake(u)'}
  BY AwakeTasks
<1>2. Receivers \cup Senders \cup Receivers' \cup Senders' \subseteq Tasks
  BY DEF Receivers, Senders
<1>3. /\ \A u \in Receivers : IsAwake(u) => u \in Receivers'
      /\ \A u \in Senders : IsAwake(u) => u \in Senders'
  BY DEF Receivers, Senders
<1>4. QED
  BY <1>1, <1>2, <1>3

(* xTaskRemoveFromEventList, for the first n tasks of a list. *)
LEMMA WokenReceivers ==
  ASSUME ListsInv, NEW n \in Nat, WakeReceivers(n), suspendedBy' = suspendedBy
  PROVE  /\ ListsInv'
         /\ xTasksWaitingToReceive' = Rest(xTasksWaitingToReceive, n)
         /\ xTasksWaitingToSend' = xTasksWaitingToSend
         /\ Waiting' \subseteq Waiting /\ blocked' \subseteq blocked
         /\ TasksOf(xTasksWaitingToReceive') \subseteq TasksOf(xTasksWaitingToReceive)
         /\ TasksOf(First(xTasksWaitingToReceive, n)) \subseteq TasksOf(xTasksWaitingToReceive) \ Waiting'
<1> DEFINE W == TasksOf(First(xTasksWaitingToReceive, n))
<1>1. /\ xTasksWaitingToReceive' = Rest(xTasksWaitingToReceive, n)
      /\ xTasksWaitingToSend' = xTasksWaitingToSend /\ Readied(W)
  BY DEF WakeReceivers
<1>2. /\ xTasksWaitingToReceive' \in Seq(Tasks) /\ Distinct(xTasksWaitingToReceive')
      /\ W \subseteq TasksOf(xTasksWaitingToReceive)
      /\ TasksOf(xTasksWaitingToReceive') = TasksOf(xTasksWaitingToReceive) \ W
  BY <1>1, FirstFacts DEF ListsInv
<1> HIDE DEF W
<1>3. Waiting' = Waiting \ W
  BY <1>1, <1>2 DEF Waiting, ListsInv
<1>4. CASE suspendedBy = NoTask
  BY <1>1, <1>2, <1>3, <1>4 DEF Readied, ListsInv, Waiting, W
<1>5. CASE suspendedBy # NoTask
  BY <1>1, <1>2, <1>3, <1>5 DEF Readied, ListsInv, Waiting, W
<1>6. QED
  BY <1>4, <1>5

LEMMA WokenSenders ==
  ASSUME ListsInv, NEW n \in Nat, WakeSenders(n), suspendedBy' = suspendedBy
  PROVE  /\ ListsInv'
         /\ xTasksWaitingToSend' = Rest(xTasksWaitingToSend, n)
         /\ xTasksWaitingToReceive' = xTasksWaitingToReceive
         /\ Waiting' \subseteq Waiting /\ blocked' \subseteq blocked
         /\ TasksOf(xTasksWaitingToSend') \subseteq TasksOf(xTasksWaitingToSend)
         /\ TasksOf(First(xTasksWaitingToSend, n)) \subseteq TasksOf(xTasksWaitingToSend) \ Waiting'
<1> DEFINE W == TasksOf(First(xTasksWaitingToSend, n))
<1>1. /\ xTasksWaitingToSend' = Rest(xTasksWaitingToSend, n)
      /\ xTasksWaitingToReceive' = xTasksWaitingToReceive /\ Readied(W)
  BY DEF WakeSenders
<1>2. /\ xTasksWaitingToSend' \in Seq(Tasks) /\ Distinct(xTasksWaitingToSend')
      /\ W \subseteq TasksOf(xTasksWaitingToSend)
      /\ TasksOf(xTasksWaitingToSend') = TasksOf(xTasksWaitingToSend) \ W
  BY <1>1, FirstFacts DEF ListsInv
<1> HIDE DEF W
<1>3. Waiting' = Waiting \ W
  BY <1>1, <1>2 DEF Waiting, ListsInv
<1>4. CASE suspendedBy = NoTask
  BY <1>1, <1>2, <1>3, <1>4 DEF Readied, ListsInv, Waiting, W
<1>5. CASE suspendedBy # NoTask
  BY <1>1, <1>2, <1>3, <1>5 DEF Readied, ListsInv, Waiting, W
<1>6. QED
  BY <1>4, <1>5

-----------------------------------------------------------------------------
(* A step of one task that leaves the items and the lists alone.            *)

LEMMA PlaceStep ==
  ASSUME QueueInv, NEW t \in Tasks, t \notin blocked,
         UNCHANGED <<storage, lists>>, SchedulerInv', LocksInv',
         \A u \in Tasks \ {t} : at'[u] = at[u] /\ call'[u] = call[u],
         \A u \in Tasks \ {t} : over' /\ suspendedBy' = u => over /\ suspendedBy = u,
         suspendedBy' = NoTask => xPendingReadyList = {},
         Pended(cTxLock') = Pended(cTxLock), Pended(cRxLock') = Pended(cRxLock),
         uxMessagesWaiting = 0
            \/ (t \notin Awake(Receivers) /\ (Comes(Receivers)' => Comes(Receivers))),
         uxLength - uxMessagesWaiting = 0
            \/ (t \notin Awake(Senders) /\ (Comes(Senders)' => Comes(Senders)))
  PROVE  QueueInv'
<1>1. RingInv'
  BY DEF QueueInv, RingInv, storage
<1>2. ListsInv' /\ Waiting' = Waiting
  BY DEF QueueInv, ListsInv, Waiting, lists
<1>3. PlacesInv'
  <2>1. t \notin Waiting /\ Waiting \subseteq Tasks
    BY DEF QueueInv, ListsInv
  <2>2. QED
    BY <2>1 DEF QueueInv, ListsInv, PlacesInv, Waiting, Receivers, Senders, lists
<1>4. /\ Awake(Receivers) \ {t} \subseteq Awake(Receivers)'
      /\ Awake(Senders) \ {t} \subseteq Awake(Senders)'
      /\ {Awake(Receivers), Awake(Senders), Awake(Receivers)', Awake(Senders)'} \subseteq SUBSET Tasks
  BY <1>2, OthersAwake DEF QueueInv
<1>5. /\ uxMessagesWaiting' = uxMessagesWaiting
      /\ xTasksWaitingToReceive' = xTasksWaitingToReceive
      /\ xTasksWaitingToSend' = xTasksWaitingToSend
      /\ {cTxLock', cRxLock'} \subseteq queueUNLOCKED .. MaxLock
  BY DEF storage, lists, LocksInv
<1>6. ReceiversCovered'
  <2>1. CASE uxMessagesWaiting = 0
    BY <1>4, <1>5, <2>1, NothingToCover DEF ReceiversCovered
  <2>2. CASE t \notin Awake(Receivers) /\ (Comes(Receivers)' => Comes(Receivers))
    <3>1. Awake(Receivers) \subseteq Awake(Receivers)'
      BY <1>4, <2>2
    <3>2. Cardinality(Awake(Receivers)) <= Cardinality(Awake(Receivers)')
          /\ Cardinality(Awake(Receivers)) \in Nat /\ Cardinality(Awake(Receivers)') \in Nat
      BY <1>4, <3>1, SubsetCount
    <3>3. QED
      <4>1. PICK m \in Nat : m = uxMessagesWaiting
        BY QueueAssumption DEF QueueInv, RingInv
      <4>2. PICK a, b, p \in Int : a = Cardinality(Awake(Receivers)) /\ b = Cardinality(Awake(Receivers)')
                                   /\ p = Pended(cTxLock)
        BY <3>2 DEF QueueInv, LocksInv, Pended, queueUNLOCKED
      <4>3. xTasksWaitingToReceive # <<>> \/ Comes(Receivers) => m <= a + p
        BY <4>1, <4>2 DEF QueueInv, ReceiversCovered, Covered
      <4>4. a <= b
        BY <3>2, <4>2
      <4>5. xTasksWaitingToReceive' # <<>> \/ Comes(Receivers)' => m <= b + p
        BY <1>5, <2>2, <4>3, <4>4
      <4>6. QED
        BY <1>5, <4>1, <4>2, <4>5 DEF ReceiversCovered, Covered
  <2>3. QED
    BY <2>1, <2>2
<1>7. SendersCovered'
  <2>1. CASE uxLength - uxMessagesWaiting = 0
    BY <1>4, <1>5, <2>1, NothingToCover DEF SendersCovered
  <2>2. CASE t \notin Awake(Senders) /\ (Comes(Senders)' => Comes(Senders))
    <3>1. Awake(Senders) \subseteq Awake(Senders)'
      BY <1>4, <2>2
    <3>2. Cardinality(Awake(Senders)) <= Cardinality(Awake(Senders)')
          /\ Cardinality(Awake(Senders)) \in Nat /\ Cardinality(Awake(Senders)') \in Nat
      BY <1>4, <3>1, SubsetCount
    <3>3. QED
      <4>1. PICK m \in Int : m = uxLength - uxMessagesWaiting
        BY QueueAssumption DEF QueueInv, RingInv
      <4>2. PICK a, b, p \in Int : a = Cardinality(Awake(Senders)) /\ b = Cardinality(Awake(Senders)')
                                   /\ p = Pended(cRxLock)
        BY <3>2 DEF QueueInv, LocksInv, Pended, queueUNLOCKED
      <4>3. xTasksWaitingToSend # <<>> \/ Comes(Senders) => m <= a + p
        BY <4>1, <4>2 DEF QueueInv, SendersCovered, Covered
      <4>4. a <= b
        BY <3>2, <4>2
      <4>5. xTasksWaitingToSend' # <<>> \/ Comes(Senders)' => m <= b + p
        BY <1>5, <2>2, <4>3, <4>4
      <4>6. QED
        BY <1>5, <4>1, <4>2, <4>5 DEF SendersCovered, Covered
  <2>3. QED
    BY <2>1, <2>2
<1>8. QED
  BY <1>1, <1>2, <1>3, <1>6, <1>7 DEF QueueInv

LEMMA OutsideFacts ==
  ASSUME QueueInv, suspendedBy = NoTask
  PROVE  /\ cTxLock = queueUNLOCKED /\ cRxLock = queueUNLOCKED /\ over = FALSE
         /\ xPendingReadyList = {} /\ \A u \in Tasks : at[u] \notin Inside
<1>1. \A u \in Tasks : at[u] \notin Inside
  BY QueueAssumption DEF QueueInv, SchedulerInv
<1>2. QED
  BY <1>1 DEF QueueInv, SchedulerInv, LocksInv, ListsInv, Inside

LEMMA InsideFacts ==
  ASSUME QueueInv, NEW t \in Tasks, at[t] \in Inside
  PROVE  /\ suspendedBy = t /\ t # NoTask /\ \A u \in Tasks \ {t} : at[u] \notin Inside
         /\ over => t \notin blocked /\ at[t] \in {"unlockTx", "unlockRx", "resume"}
         /\ cTxLock # queueUNLOCKED <=> at[t] \in {"look", "place", "unlockTx"}
         /\ cRxLock # queueUNLOCKED <=> at[t] \in {"look", "place", "unlockTx", "unlockRx"}
<1>1. suspendedBy = t /\ t # NoTask /\ \A u \in Tasks \ {t} : at[u] \notin Inside
  BY QueueAssumption DEF QueueInv, SchedulerInv
<1>2. \A u \in Tasks : at[u] \in {"look", "place", "unlockTx", "unlockRx", "resume"} => u = t
  BY <1>1 DEF Inside
<1>3. QED
  BY <1>1, <1>2 DEF QueueInv, SchedulerInv, LocksInv

LEMMA RunsFacts ==
  ASSUME QueueInv, NEW t \in Tasks, Runs(t), at[t] \notin Inside
  PROVE  suspendedBy = NoTask /\ t \notin blocked
BY DEF Runs, QueueInv, SchedulerInv

LEMMA CallInv ==
  ASSUME QueueInv, NEW t \in Tasks, NEW c \in Calls, Call(t, c)
  PROVE  QueueInv'
<1>1. /\ Runs(t) /\ at[t] = "elsewhere" /\ at' = [at EXCEPT ![t] = "try"]
      /\ call' = [call EXCEPT ![t] = c]
      /\ UNCHANGED <<storage, lists>>
      /\ cTxLock' = cTxLock /\ cRxLock' = cRxLock
      /\ suspendedBy' = suspendedBy /\ over' = over /\ blocked' = blocked
  BY DEF Call, locks, lists
<1>2. suspendedBy = NoTask /\ t \notin blocked
  BY <1>1, RunsFacts DEF Inside
<1>3. /\ cTxLock = queueUNLOCKED /\ cRxLock = queueUNLOCKED /\ over = FALSE
      /\ xPendingReadyList = {} /\ \A u \in Tasks : at[u] \notin Inside
  BY <1>2, OutsideFacts
<1>4. at'[t] = "try" /\ \A u \in Tasks \ {t} : at'[u] = at[u] /\ call'[u] = call[u]
  BY <1>1 DEF QueueInv, SchedulerInv
<1>5. SchedulerInv'
  BY <1>1, <1>2, <1>3, <1>4, QueueAssumption DEF QueueInv, SchedulerInv, Inside, Places
<1>6. LocksInv'
  BY <1>1, <1>3, <1>4 DEF QueueInv, LocksInv, Inside
<1>7. ~ Comes(Receivers)' /\ ~ Comes(Senders)'
  BY <1>3, <1>4 DEF Comes, Inside, Receivers, Senders
<1>8. t \notin Awake(Receivers) /\ t \notin Awake(Senders)
  BY <1>1 DEF Awake
<1>9. QED
  BY <1>1, <1>2, <1>3, <1>4, <1>5, <1>6, <1>7, <1>8, PlaceStep

(* A task that is in no list and outside goes to another place outside, or  *)
(* returns.                                                                 *)
LEMMA OutsideStep ==
  ASSUME QueueInv, NEW t \in Tasks, Runs(t), at[t] \in {"try", "lookAgain"},
         NEW place \in {"try", "suspend", "lookAgain"},
         Return(t) \/ GoOn(t, place),
         UNCHANGED <<storage, locks, lists, suspendedBy, over>>,
         at[t] = "try" => ~ Possible(call[t])
  PROVE  QueueInv'
<1>1. suspendedBy = NoTask /\ t \notin blocked
  BY RunsFacts DEF Inside
<1>2. /\ cTxLock = queueUNLOCKED /\ cRxLock = queueUNLOCKED /\ over = FALSE
      /\ xPendingReadyList = {} /\ \A u \in Tasks : at[u] \notin Inside
  BY <1>1, OutsideFacts
<1>3. /\ cTxLock' = cTxLock /\ cRxLock' = cRxLock
      /\ suspendedBy' = suspendedBy /\ over' = over /\ blocked' = blocked
  BY DEF locks, lists
<1>4. /\ \A u \in Tasks \ {t} : at'[u] = at[u] /\ call'[u] = call[u]
      /\ at' \in [Tasks -> Places] /\ call' \in [Tasks -> Calls \cup {NoCall}]
      /\ \/ at'[t] = "elsewhere"
         \/ at'[t] = place /\ call'[t] = call[t]
  BY DEF QueueInv, SchedulerInv, Return, GoOn, Places
<1>5. SchedulerInv'
  BY <1>1, <1>2, <1>3, <1>4, QueueAssumption DEF QueueInv, SchedulerInv, Inside
<1>6. LocksInv'
  BY <1>2, <1>3, <1>4 DEF QueueInv, LocksInv, Inside
<1>7. ~ Comes(Receivers)' /\ ~ Comes(Senders)'
  BY <1>2, <1>4 DEF Comes, Inside, Receivers, Senders
<1>8. /\ uxMessagesWaiting = 0 \/ t \notin Awake(Receivers)
      /\ uxLength - uxMessagesWaiting = 0 \/ t \notin Awake(Senders)
  <2>1. CASE at[t] = "lookAgain"
    BY <2>1 DEF Awake
  <2>2. CASE at[t] = "try"
    <3>1. PICK m \in 0 .. uxLength : m = uxMessagesWaiting
      BY DEF QueueInv, RingInv
    <3>2. IF Sends(call[t]) THEN ~ m < uxLength ELSE ~ m > 0
      BY <2>2, <3>1 DEF Possible
    <3>3. CASE Sends(call[t])
      <4>1. uxLength - m = 0
        BY <3>2, <3>3, QueueAssumption
      <4>2. t \notin Awake(Receivers)
        BY <3>3 DEF Awake, Receivers, Sends
      <4>3. QED
        BY <3>1, <4>1, <4>2
    <3>4. CASE ~ Sends(call[t])
      <4>1. m = 0
        BY <3>2, <3>4, QueueAssumption
      <4>2. t \notin Awake(Senders)
        BY <3>4 DEF Awake, Senders
      <4>3. QED
        BY <3>1, <4>1, <4>2
    <3>5. QED
      BY <3>3, <3>4
  <2>3. QED
    BY <2>1, <2>2
<1>9. QED
  BY <1>1, <1>2, <1>3, <1>4, <1>5, <1>6, <1>7, <1>8, PlaceStep

LEMMA FailInv ==
  ASSUME QueueInv, NEW t \in Tasks, Fail(t) \/ LookAgain(t)
  PROVE  QueueInv'
<1>1. CASE Fail(t)
  BY <1>1, OutsideStep DEF Fail
<1>2. CASE LookAgain(t)
  BY <1>2, OutsideStep DEF LookAgain
<1>3. QED
  BY <1>1, <1>2

LEMMA SuspendInv ==
  ASSUME QueueInv, NEW t \in Tasks, vTaskSuspendAll(t)
  PROVE  QueueInv'
<1>1. /\ Runs(t) /\ at[t] = "suspend" /\ suspendedBy' = t
      /\ at' = [at EXCEPT ![t] = "lock"] /\ call' = call
      /\ UNCHANGED <<storage, lists>>
      /\ cTxLock' = cTxLock /\ cRxLock' = cRxLock /\ over' = over /\ blocked' = blocked
  BY DEF vTaskSuspendAll, GoOn, locks, lists
<1>2. suspendedBy = NoTask /\ t \notin blocked
  BY <1>1, RunsFacts DEF Inside
<1>3. /\ cTxLock = queueUNLOCKED /\ cRxLock = queueUNLOCKED /\ over = FALSE
      /\ xPendingReadyList = {} /\ \A u \in Tasks : at[u] \notin Inside
  BY <1>2, OutsideFacts
<1>4. at'[t] = "lock" /\ \A u \in Tasks \ {t} : at'[u] = at[u] /\ call'[u] = call[u]
  BY <1>1 DEF QueueInv, SchedulerInv
<1>5. SchedulerInv'
  <2>1. at' \in [Tasks -> Places] /\ call' \in [Tasks -> Calls \cup {NoCall}]
    BY <1>1 DEF QueueInv, SchedulerInv, Places
  <2>2. \A u \in Tasks : at'[u] = "elsewhere" \/ call'[u] \in Calls
    BY <1>1, <1>4 DEF QueueInv, SchedulerInv
  <2>3. \A u \in Tasks : at'[u] \in Inside <=> suspendedBy' = u
    BY <1>1, <1>3, <1>4 DEF Inside
  <2>4. QED
    BY <1>1, <1>3, <2>1, <2>2, <2>3 DEF SchedulerInv
<1>6. LocksInv'
  BY <1>1, <1>3, <1>4 DEF QueueInv, LocksInv, Inside
<1>7. ~ Comes(Receivers)' /\ ~ Comes(Senders)'
  BY <1>3, <1>4 DEF Comes, Inside, Receivers, Senders
<1>8. t \notin Awake(Receivers) /\ t \notin Awake(Senders)
  BY <1>1 DEF Awake
<1>9. QED
  BY <1>1, <1>2, <1>3, <1>4, <1>5, <1>6, <1>7, <1>8, PlaceStep

LEMMA LockInv ==
  ASSUME QueueInv, NEW t \in Tasks, prvLockQueue(t)
  PROVE  QueueInv'
<1>1. /\ at[t] = "lock" /\ suspendedBy' = suspendedBy
      /\ at' = [at EXCEPT ![t] = "look"] /\ call' = call
      /\ UNCHANGED <<storage, lists>> /\ over' = over /\ blocked' = blocked
  BY DEF prvLockQueue, GoOn, lists
<1>2. /\ suspendedBy = t /\ t # NoTask /\ \A u \in Tasks \ {t} : at[u] \notin Inside
      /\ cTxLock = queueUNLOCKED /\ cRxLock = queueUNLOCKED /\ over = FALSE
  BY <1>1, InsideFacts DEF Inside, QueueInv, SchedulerInv
<1>3. cTxLock' = queueLOCKED_UNMODIFIED /\ cRxLock' = queueLOCKED_UNMODIFIED
  BY <1>2 DEF prvLockQueue
<1>4. at'[t] = "look" /\ \A u \in Tasks \ {t} : at'[u] = at[u] /\ call'[u] = call[u]
  BY <1>1 DEF QueueInv, SchedulerInv
<1>5. SchedulerInv'
  <2>1. at' \in [Tasks -> Places] /\ call' \in [Tasks -> Calls \cup {NoCall}]
    BY <1>1 DEF QueueInv, SchedulerInv, Places
  <2>2. \A u \in Tasks : at'[u] = "elsewhere" \/ call'[u] \in Calls
    BY <1>1, <1>4 DEF QueueInv, SchedulerInv
  <2>3. \A u \in Tasks : at'[u] \in Inside <=> suspendedBy' = u
    BY <1>1, <1>2, <1>4 DEF Inside
  <2>4. QED
    BY <1>1, <1>2, <2>1, <2>2, <2>3 DEF SchedulerInv
<1>6. LocksInv'
  <2>1. {cRxLock', cTxLock'} \subseteq queueUNLOCKED .. MaxLock
    BY <1>3, QueueAssumption DEF queueUNLOCKED, queueLOCKED_UNMODIFIED
  <2>2. cTxLock' # queueUNLOCKED /\ cRxLock' # queueUNLOCKED
    BY <1>3 DEF queueUNLOCKED, queueLOCKED_UNMODIFIED
  <2>3. QED
    BY <1>4, <2>1, <2>2 DEF LocksInv
<1>7. ~ Comes(Receivers)' /\ ~ Comes(Senders)'
  BY <1>2, <1>4 DEF Comes, Inside, Receivers, Senders
<1>8. t \notin Awake(Receivers) /\ t \notin Awake(Senders) /\ t \notin blocked
  BY <1>1 DEF Awake, QueueInv, PlacesInv
<1>9. Pended(cTxLock') = Pended(cTxLock) /\ Pended(cRxLock') = Pended(cRxLock)
  BY <1>2, <1>3 DEF Pended, queueUNLOCKED, queueLOCKED_UNMODIFIED
<1>10. QED
  BY <1>1, <1>2, <1>4, <1>5, <1>6, <1>7, <1>8, <1>9, PlaceStep

LEMMA LookInv ==
  ASSUME QueueInv, NEW t \in Tasks, Look(t)
  PROVE  QueueInv'
<1>1. /\ at[t] = "look" /\ suspendedBy' = suspendedBy
      /\ UNCHANGED <<storage, lists>> /\ (over' <=> t \in expired) /\ over' \in BOOLEAN /\ blocked' = blocked
      /\ cTxLock' = cTxLock /\ cRxLock' = cRxLock
  <2>1. over' = (t \in expired)
    BY DEF Look
  <2>2. CASE t \in expired
    <3>1. over' = TRUE
      BY <2>1, <2>2, Zenon
    <3>2. QED
      BY <2>2, <3>1 DEF Look, locks, lists
  <2>3. CASE t \notin expired
    <3>1. (t \in expired) = FALSE
      BY <2>3
    <3>2. over' = FALSE
      BY <2>1, <3>1
    <3>3. QED
      BY <2>3, <3>2 DEF Look, locks, lists
  <2>4. QED
    BY <2>2, <2>3
<1>2. /\ suspendedBy = t /\ t # NoTask /\ \A u \in Tasks \ {t} : at[u] \notin Inside
      /\ cTxLock # queueUNLOCKED /\ cRxLock # queueUNLOCKED
  BY <1>1, InsideFacts DEF Inside
<1>3. t \notin Awake(Receivers) /\ t \notin Awake(Senders) /\ t \notin blocked
  BY <1>1 DEF Awake, QueueInv, PlacesInv
<1>4. call[t] \in Calls
  BY <1>1 DEF QueueInv, SchedulerInv
<1>5. /\ \A u \in Tasks \ {t} : at'[u] = at[u] /\ call'[u] = call[u]
      /\ at' \in [Tasks -> Places] /\ call' \in [Tasks -> Calls \cup {NoCall}]
      /\ call'[t] \in Calls /\ call'[t].op = call[t].op
      /\ \/ at'[t] = "unlockTx"
         \/ at'[t] = "place" /\ ~ over' /\ ~ Possible(call[t])
  <2>1. CASE t \in expired
    <3>1. at' = [at EXCEPT ![t] = "unlockTx"] /\ call' = [call EXCEPT ![t] = [call[t] EXCEPT !.wait = "none"]]
      BY <2>1 DEF Look
    <3>2. [call[t] EXCEPT !.wait = "none"] \in Calls /\ [call[t] EXCEPT !.wait = "none"].op = call[t].op
      BY <1>4 DEF Calls
    <3>3. QED
      BY <3>1, <3>2 DEF QueueInv, SchedulerInv, Places
  <2>2. CASE t \notin expired
    <3>1. PICK place \in Places : place = IF Possible(call[t]) THEN "unlockTx" ELSE "place"
      BY DEF Places
    <3>2. at' = [at EXCEPT ![t] = place] /\ call' = call
      BY <2>2, <3>1 DEF Look, GoOn
    <3>3. at' \in [Tasks -> Places] /\ at'[t] = place /\ \A u \in Tasks \ {t} : at'[u] = at[u]
      BY <3>2 DEF QueueInv, SchedulerInv
    <3>4. call' \in [Tasks -> Calls \cup {NoCall}]
      BY <3>2 DEF QueueInv, SchedulerInv
    <3>5. at'[t] = "unlockTx" \/ (at'[t] = "place" /\ ~ Possible(call[t]))
      BY <3>1, <3>3
    <3>6. ~ over'
      BY <1>1, <2>2
    <3>7. call'[t] \in Calls /\ call'[t].op = call[t].op /\ \A u \in Tasks : call'[u] = call[u]
      BY <1>4, <3>2
    <3>8. QED
      BY <3>3, <3>4, <3>5, <3>6, <3>7
  <2>3. QED
    BY <2>1, <2>2
<1>6. SchedulerInv'
  <2>1. \A u \in Tasks : at'[u] = "elsewhere" \/ call'[u] \in Calls
    BY <1>5 DEF QueueInv, SchedulerInv
  <2>2. \A u \in Tasks : at'[u] \in Inside <=> suspendedBy' = u
    BY <1>1, <1>2, <1>5 DEF Inside
  <2>3. over' \in BOOLEAN /\ suspendedBy' \in Tasks \cup {NoTask}
    BY <1>1, <1>2
  <2>4. over' => at'[t] = "unlockTx" /\ t \notin blocked'
    BY <1>1, <1>3, <1>5
  <2>5. QED
    BY <1>5, <2>1, <2>2, <2>3, <2>4 DEF SchedulerInv
<1>7. LocksInv'
  BY <1>1, <1>2, <1>5 DEF QueueInv, LocksInv
<1>8. /\ uxMessagesWaiting = 0 \/ ~ Comes(Receivers)'
      /\ uxLength - uxMessagesWaiting = 0 \/ ~ Comes(Senders)'
  <2>1. CASE at'[t] = "unlockTx"
    BY <1>2, <1>5, <2>1 DEF Comes, Inside, Receivers, Senders
  <2>2. CASE ~ Possible(call[t])
    <3>1. PICK m \in 0 .. uxLength : m = uxMessagesWaiting
      BY DEF QueueInv, RingInv
    <3>2. IF Sends(call[t]) THEN ~ m < uxLength ELSE ~ m > 0
      BY <2>2, <3>1 DEF Possible
    <3>3. \A u \in Tasks : at'[u] = "place" => u = t
      BY <1>2, <1>5 DEF Inside
    <3>4. CASE Sends(call[t])
      <4>1. uxLength - m = 0
        BY <3>2, <3>4, QueueAssumption
      <4>2. t \notin Receivers'
        BY <1>5, <3>4 DEF Receivers, Sends
      <4>3. QED
        BY <3>1, <3>3, <4>1, <4>2 DEF Comes, Receivers
    <3>5. CASE ~ Sends(call[t])
      <4>1. m = 0
        BY <3>2, <3>5, QueueAssumption
      <4>2. t \notin Senders'
        BY <1>5, <3>5 DEF Senders, Sends
      <4>3. QED
        BY <3>1, <3>3, <4>1, <4>2 DEF Comes, Senders
    <3>6. QED
      BY <3>4, <3>5
  <2>3. QED
    BY <1>5, <2>1, <2>2
<1>9. QED
  BY <1>1, <1>2, <1>3, <1>5, <1>6, <1>7, <1>8, PlaceStep

-----------------------------------------------------------------------------
(* The steps that put tasks to sleep or wake them.                          *)

LEMMA WokenAreAwake ==
  ASSUME QueueInv, ListsInv', NEW W \in SUBSET Waiting, W \cap Waiting' = {},
         \A u \in W : /\ at'[u] \in {"try", "unlockRx", "resume"} /\ call'[u] = call[u]
                      /\ ~(over' /\ suspendedBy' = u)
  PROVE  /\ W \cap TasksOf(xTasksWaitingToReceive) \subseteq Awake(Receivers)'
         /\ W \cap TasksOf(xTasksWaitingToSend) \subseteq Awake(Senders)'
<1>1. /\ Awake(Receivers)' = {u \in Receivers' : IsAwake(u)'}
      /\ Awake(Senders)' = {u \in Senders' : IsAwake(u)'}
  BY AwakeTasks
<1>2. \A u \in W : IsAwake(u)'
  BY DEF IsAwake
<1>3. W \subseteq Tasks
  BY DEF QueueInv, ListsInv
<1>4. W \cap TasksOf(xTasksWaitingToReceive) \subseteq Receivers'
  BY <1>3 DEF QueueInv, PlacesInv, Receivers
<1>5. W \cap TasksOf(xTasksWaitingToSend) \subseteq Senders'
  BY <1>3 DEF QueueInv, PlacesInv, Senders
<1>6. QED
  BY <1>1, <1>2, <1>4, <1>5

(* Numbers of items and places. *)
LEMMA Amounts ==
  ASSUME RingInv
  PROVE  uxMessagesWaiting \in Nat /\ uxLength - uxMessagesWaiting \in Nat
BY QueueAssumption DEF RingInv

(* Tasks that wait for items: the first n are woken, "gone" of those awake are done, and the  *)
(* amount changes accordingly.                                              *)
LEMMA ReceiversWoken ==
  ASSUME QueueInv, NEW n \in Nat, NEW gone \in Nat, NEW D \in SUBSET Tasks,
         xTasksWaitingToReceive' = Rest(xTasksWaitingToReceive, n), ~ Comes(Receivers)',
         uxMessagesWaiting' \in Nat, cTxLock' \in queueUNLOCKED .. MaxLock,
         Awake(Receivers) \in SUBSET Tasks, Awake(Receivers)' \in SUBSET Tasks,
         Cardinality(D) + gone >= Cardinality(Awake(Receivers)),
         D \cap TasksOf(First(xTasksWaitingToReceive, n)) = {},
         D \cup TasksOf(First(xTasksWaitingToReceive, n)) \subseteq Awake(Receivers)',
         uxMessagesWaiting' + Pended(cTxLock) + gone
            <= uxMessagesWaiting + Pended(cTxLock') + n
  PROVE  ReceiversCovered'
<1> SUFFICES ASSUME xTasksWaitingToReceive' # <<>>
             PROVE  uxMessagesWaiting' <= Cardinality(Awake(Receivers)') + Pended(cTxLock')
  BY DEF ReceiversCovered, Covered
<1>1. /\ xTasksWaitingToReceive # <<>>
      /\ Cardinality(D) \in Nat /\ Cardinality(Awake(Receivers)') \in Nat
      /\ Cardinality(D) + n <= Cardinality(Awake(Receivers)')
  <2>1. xTasksWaitingToReceive \in Seq(Tasks) /\ Distinct(xTasksWaitingToReceive)
    BY DEF QueueInv, ListsInv
  <2>2. QED
    BY <2>1, WokenCount
<1>2. PICK a, b, d, p, q, m, k \in Int :
         /\ a = Cardinality(Awake(Receivers)) /\ b = Cardinality(Awake(Receivers)') /\ d = Cardinality(D)
         /\ p = Pended(cTxLock) /\ q = Pended(cTxLock')
         /\ m = uxMessagesWaiting /\ k = uxMessagesWaiting'
  <2>1. Pended(cTxLock) \in Int /\ Pended(cTxLock') \in Int
    BY DEF QueueInv, LocksInv, Pended, queueUNLOCKED
  <2>2. Cardinality(Awake(Receivers)) \in Int
    BY SubsetCount
  <2>3. uxMessagesWaiting \in Int
    BY Amounts DEF QueueInv
  <2> USE <1>1, <2>1, <2>2, <2>3
  <2> WITNESS Cardinality(Awake(Receivers)) \in Int,
              Cardinality(Awake(Receivers)') \in Int,
              Cardinality(D) \in Int,
              Pended(cTxLock) \in Int,
              Pended(cTxLock') \in Int,
              uxMessagesWaiting \in Int,
              uxMessagesWaiting' \in Int
  <2> QED
    OBVIOUS
<1>3. m <= a + p
  BY <1>1, <1>2 DEF QueueInv, ReceiversCovered, Covered
<1>4. d + gone >= a /\ d + n <= b /\ k + p + gone <= m + q + n
  BY <1>1, <1>2
<1>5. k <= b + q
  BY <1>3, <1>4
<1>6. QED
  BY <1>2, <1>5

(* None of them is woken or done. *)
LEMMA ReceiversKept ==
  ASSUME QueueInv, Awake(Receivers) \in SUBSET Tasks, Awake(Receivers)' \in SUBSET Tasks,
         Awake(Receivers) \subseteq Awake(Receivers)',
         xTasksWaitingToReceive' # <<>> \/ Comes(Receivers)' => xTasksWaitingToReceive # <<>> \/ Comes(Receivers),
         uxMessagesWaiting' \in Nat, cTxLock' \in queueUNLOCKED .. MaxLock,
         uxMessagesWaiting' + Pended(cTxLock)
            <= uxMessagesWaiting + Pended(cTxLock')
  PROVE  ReceiversCovered'
<1> SUFFICES ASSUME xTasksWaitingToReceive' # <<>> \/ Comes(Receivers)'
             PROVE  uxMessagesWaiting' <= Cardinality(Awake(Receivers)') + Pended(cTxLock')
  BY DEF ReceiversCovered, Covered
<1>1. PICK a, b, p, q, m, k \in Int :
         /\ a = Cardinality(Awake(Receivers)) /\ b = Cardinality(Awake(Receivers)') /\ a <= b
         /\ p = Pended(cTxLock) /\ q = Pended(cTxLock')
         /\ m = uxMessagesWaiting /\ k = uxMessagesWaiting'
  <2>1. Pended(cTxLock) \in Int /\ Pended(cTxLock') \in Int
    BY DEF QueueInv, LocksInv, Pended, queueUNLOCKED
  <2>2. /\ Cardinality(Awake(Receivers)) \in Int /\ Cardinality(Awake(Receivers)') \in Int
        /\ Cardinality(Awake(Receivers)) <= Cardinality(Awake(Receivers)')
    BY SubsetCount
  <2>3. uxMessagesWaiting \in Int
    BY Amounts DEF QueueInv
  <2> USE <2>1, <2>2, <2>3
  <2> WITNESS Cardinality(Awake(Receivers)) \in Int,
              Cardinality(Awake(Receivers)') \in Int,
              Pended(cTxLock) \in Int,
              Pended(cTxLock') \in Int,
              uxMessagesWaiting \in Int,
              uxMessagesWaiting' \in Int
  <2> QED
    OBVIOUS
<1>2. m <= a + p
  BY <1>1 DEF QueueInv, ReceiversCovered, Covered
<1>3. k + p <= m + q
  BY <1>1
<1>4. k <= b + q
  BY <1>1, <1>2, <1>3, SMTT(30)
<1>5. QED
  BY <1>1, <1>4

(* Tasks that wait for places: the first n are woken, "gone" of those awake are done, and the  *)
(* amount changes accordingly.                                              *)
LEMMA SendersWoken ==
  ASSUME QueueInv, NEW n \in Nat, NEW gone \in Nat, NEW D \in SUBSET Tasks,
         xTasksWaitingToSend' = Rest(xTasksWaitingToSend, n), ~ Comes(Senders)',
         (uxLength - uxMessagesWaiting') \in Nat, cRxLock' \in queueUNLOCKED .. MaxLock,
         Awake(Senders) \in SUBSET Tasks, Awake(Senders)' \in SUBSET Tasks,
         Cardinality(D) + gone >= Cardinality(Awake(Senders)),
         D \cap TasksOf(First(xTasksWaitingToSend, n)) = {},
         D \cup TasksOf(First(xTasksWaitingToSend, n)) \subseteq Awake(Senders)',
         (uxLength - uxMessagesWaiting') + Pended(cRxLock) + gone
            <= uxLength - uxMessagesWaiting + Pended(cRxLock') + n
  PROVE  SendersCovered'
<1> SUFFICES ASSUME xTasksWaitingToSend' # <<>>
             PROVE  (uxLength - uxMessagesWaiting') <= Cardinality(Awake(Senders)') + Pended(cRxLock')
  BY DEF SendersCovered, Covered
<1>1. /\ xTasksWaitingToSend # <<>>
      /\ Cardinality(D) \in Nat /\ Cardinality(Awake(Senders)') \in Nat
      /\ Cardinality(D) + n <= Cardinality(Awake(Senders)')
  <2>1. xTasksWaitingToSend \in Seq(Tasks) /\ Distinct(xTasksWaitingToSend)
    BY DEF QueueInv, ListsInv
  <2>2. QED
    BY <2>1, WokenCount
<1> PICK m, k \in Int : m = uxLength - uxMessagesWaiting /\ k = uxLength - uxMessagesWaiting'
  BY Amounts DEF QueueInv
<1>2. PICK a, b, d, p, q \in Int :
         /\ a = Cardinality(Awake(Senders)) /\ b = Cardinality(Awake(Senders)') /\ d = Cardinality(D)
         /\ p = Pended(cRxLock) /\ q = Pended(cRxLock')
  <2>1. Pended(cRxLock) \in Int /\ Pended(cRxLock') \in Int
    BY DEF QueueInv, LocksInv, Pended, queueUNLOCKED
  <2>2. Cardinality(Awake(Senders)) \in Int
    BY SubsetCount
  <2> USE <1>1, <2>1, <2>2
  <2> WITNESS Cardinality(Awake(Senders)) \in Int,
              Cardinality(Awake(Senders)') \in Int,
              Cardinality(D) \in Int,
              Pended(cRxLock) \in Int,
              Pended(cRxLock') \in Int
  <2> QED
    OBVIOUS
<1>3. m <= a + p
  BY <1>1, <1>2 DEF QueueInv, SendersCovered, Covered
<1>4. d + gone >= a /\ d + n <= b /\ k + p + gone <= m + q + n
  BY <1>1, <1>2
<1>5. k <= b + q
  BY <1>3, <1>4, SMTT(30)
<1>6. QED
  BY <1>2, <1>5

(* None of them is woken or done. *)
LEMMA SendersKept ==
  ASSUME QueueInv, Awake(Senders) \in SUBSET Tasks, Awake(Senders)' \in SUBSET Tasks,
         Awake(Senders) \subseteq Awake(Senders)',
         xTasksWaitingToSend' # <<>> \/ Comes(Senders)' => xTasksWaitingToSend # <<>> \/ Comes(Senders),
         (uxLength - uxMessagesWaiting') \in Nat, cRxLock' \in queueUNLOCKED .. MaxLock,
         (uxLength - uxMessagesWaiting') + Pended(cRxLock)
            <= uxLength - uxMessagesWaiting + Pended(cRxLock')
  PROVE  SendersCovered'
<1> SUFFICES ASSUME xTasksWaitingToSend' # <<>> \/ Comes(Senders)'
             PROVE  (uxLength - uxMessagesWaiting') <= Cardinality(Awake(Senders)') + Pended(cRxLock')
  BY DEF SendersCovered, Covered
<1>1. PICK a, b, p, q, m, k \in Int :
         /\ a = Cardinality(Awake(Senders)) /\ b = Cardinality(Awake(Senders)') /\ a <= b
         /\ p = Pended(cRxLock) /\ q = Pended(cRxLock')
         /\ m = uxLength - uxMessagesWaiting /\ k = (uxLength - uxMessagesWaiting')
  <2>1. Pended(cRxLock) \in Int /\ Pended(cRxLock') \in Int
    BY DEF QueueInv, LocksInv, Pended, queueUNLOCKED
  <2>2. /\ Cardinality(Awake(Senders)) \in Int /\ Cardinality(Awake(Senders)') \in Int
        /\ Cardinality(Awake(Senders)) <= Cardinality(Awake(Senders)')
    BY SubsetCount
  <2>3. uxLength - uxMessagesWaiting \in Int
    BY Amounts DEF QueueInv
  <2> USE <2>1, <2>2, <2>3
  <2> WITNESS Cardinality(Awake(Senders)) \in Int,
              Cardinality(Awake(Senders)') \in Int,
              Pended(cRxLock) \in Int,
              Pended(cRxLock') \in Int,
              uxLength - uxMessagesWaiting \in Int,
              (uxLength - uxMessagesWaiting') \in Int
  <2> QED
    OBVIOUS
<1>2. m <= a + p
  BY <1>1 DEF QueueInv, SendersCovered, Covered
<1>3. k + p <= m + q
  BY <1>1
<1>4. k <= b + q
  BY <1>1, <1>2, <1>3, SMTT(30)
<1>5. QED
  BY <1>1, <1>4

(* The task enters the list that belongs to its call. *)
LEMMA PlaceInv ==
  ASSUME QueueInv, NEW t \in Tasks, vTaskPlaceOnEventList(t)
  PROVE  QueueInv'
<1>1. /\ at[t] = "place" /\ suspendedBy' = suspendedBy /\ over' = over
      /\ at' = [at EXCEPT ![t] = "unlockTx"] /\ call' = call
      /\ UNCHANGED storage /\ xPendingReadyList' = xPendingReadyList
      /\ cTxLock' = cTxLock /\ cRxLock' = cRxLock /\ blocked' = blocked \cup {t}
  BY DEF vTaskPlaceOnEventList, GoOn, locks
<1>2. /\ suspendedBy = t /\ t # NoTask /\ \A u \in Tasks \ {t} : at[u] \notin Inside
      /\ cTxLock # queueUNLOCKED /\ cRxLock # queueUNLOCKED /\ over = FALSE
  BY <1>1, InsideFacts DEF Inside, QueueInv, SchedulerInv
<1>3. t \notin Awake(Receivers) /\ t \notin Awake(Senders) /\ t \notin blocked /\ t \notin Waiting
  BY <1>1 DEF Awake, QueueInv, PlacesInv, ListsInv
<1>4. /\ at'[t] = "unlockTx" /\ \A u \in Tasks \ {t} : at'[u] = at[u] /\ call'[u] = call[u]
      /\ call[t] \in Calls
  BY <1>1 DEF QueueInv, SchedulerInv
<1>5. SchedulerInv'
  <2>1. at' \in [Tasks -> Places] /\ call' \in [Tasks -> Calls \cup {NoCall}]
    BY <1>1 DEF QueueInv, SchedulerInv, Places
  <2>2. \A u \in Tasks : at'[u] = "elsewhere" \/ call'[u] \in Calls
    BY <1>1, <1>4 DEF QueueInv, SchedulerInv
  <2>3. \A u \in Tasks : at'[u] \in Inside <=> suspendedBy' = u
    BY <1>1, <1>2, <1>4 DEF Inside
  <2>4. QED
    BY <1>1, <1>2, <2>1, <2>2, <2>3 DEF SchedulerInv
<1>6. LocksInv'
  BY <1>1, <1>2, <1>4 DEF QueueInv, LocksInv
<1>7. RingInv' /\ uxMessagesWaiting' = uxMessagesWaiting
  BY <1>1 DEF QueueInv, RingInv, storage
<1>8. Sends(call[t]) <=> t \notin Receivers
  BY <1>4 DEF Calls, Sends, Receivers
<1>9. /\ ListsInv' /\ PlacesInv' /\ Waiting' = Waiting \cup {t}
      /\ t \notin Receivers => xTasksWaitingToReceive' = xTasksWaitingToReceive
      /\ t \notin Senders => xTasksWaitingToSend' = xTasksWaitingToSend
  <2>1. CASE Sends(call[t])
    <3>1. xTasksWaitingToSend' = Inserted(xTasksWaitingToSend, t)
          /\ xTasksWaitingToReceive' = xTasksWaitingToReceive
      BY <2>1 DEF vTaskPlaceOnEventList
    <3>2. /\ xTasksWaitingToSend' \in Seq(Tasks) /\ Distinct(xTasksWaitingToSend')
          /\ TasksOf(xTasksWaitingToSend') = TasksOf(xTasksWaitingToSend) \cup {t}
      BY <1>3, <3>1, InsertedFacts DEF QueueInv, ListsInv, Waiting
    <3>3. ListsInv' /\ Waiting' = Waiting \cup {t}
      BY <1>1, <1>2, <1>3, <3>1, <3>2 DEF QueueInv, ListsInv, Waiting
    <3>4. t \in Senders
      BY <2>1 DEF Senders
    <3>5. PlacesInv'
      BY <1>1, <1>4, <3>1, <3>2, <3>4 DEF QueueInv, PlacesInv, ListsInv, Waiting, Receivers, Senders
    <3>6. QED
      BY <3>1, <3>3, <3>4, <3>5
  <2>2. CASE ~ Sends(call[t])
    <3>1. xTasksWaitingToReceive' = Inserted(xTasksWaitingToReceive, t)
          /\ xTasksWaitingToSend' = xTasksWaitingToSend
      BY <2>2 DEF vTaskPlaceOnEventList
    <3>2. /\ xTasksWaitingToReceive' \in Seq(Tasks) /\ Distinct(xTasksWaitingToReceive')
          /\ TasksOf(xTasksWaitingToReceive') = TasksOf(xTasksWaitingToReceive) \cup {t}
      BY <1>3, <3>1, InsertedFacts DEF QueueInv, ListsInv, Waiting
    <3>3. ListsInv' /\ Waiting' = Waiting \cup {t}
      BY <1>1, <1>2, <1>3, <3>1, <3>2 DEF QueueInv, ListsInv, Waiting
    <3>4. t \in Receivers
      BY <1>8, <2>2
    <3>5. PlacesInv'
      BY <1>1, <1>4, <3>1, <3>2, <3>4 DEF QueueInv, PlacesInv, ListsInv, Waiting, Receivers, Senders
    <3>6. QED
      BY <3>1, <3>3, <3>4, <3>5
  <2>3. QED
    BY <2>1, <2>2
<1>10. /\ Awake(Receivers) \subseteq Awake(Receivers)' /\ Awake(Senders) \subseteq Awake(Senders)'
       /\ {Awake(Receivers), Awake(Senders), Awake(Receivers)', Awake(Senders)'} \subseteq SUBSET Tasks
  <2>1. /\ Awake(Receivers) \ {t} \subseteq Awake(Receivers)'
        /\ Awake(Senders) \ {t} \subseteq Awake(Senders)'
        /\ {Awake(Receivers), Awake(Senders), Awake(Receivers)', Awake(Senders)'} \subseteq SUBSET Tasks
    BY <1>1, <1>2, <1>4, <1>9, OthersAwake DEF QueueInv
  <2>2. QED
    BY <1>3, <2>1
<1>11. Comes(Receivers)' = FALSE /\ Comes(Senders)' = FALSE
  BY <1>2, <1>4 DEF Comes, Inside, Receivers, Senders
<1>12. t \in Receivers => Comes(Receivers)
  BY <1>1 DEF Comes
<1>13. t \in Senders => Comes(Senders)
  BY <1>1 DEF Comes
<1>13a. /\ uxMessagesWaiting' \in Nat /\ uxLength - uxMessagesWaiting' \in Nat
       /\ uxMessagesWaiting' + Pended(cTxLock) <= uxMessagesWaiting + Pended(cTxLock')
       /\ uxLength - uxMessagesWaiting' + Pended(cRxLock) <= uxLength - uxMessagesWaiting + Pended(cRxLock')
       /\ cTxLock' \in queueUNLOCKED .. MaxLock /\ cRxLock' \in queueUNLOCKED .. MaxLock
  <2>1. PICK m, k \in Nat : m = uxMessagesWaiting /\ k = uxLength - uxMessagesWaiting
    BY Amounts DEF QueueInv
  <2>2. PICK p, q \in Int : p = Pended(cTxLock) /\ q = Pended(cRxLock)
    BY DEF QueueInv, LocksInv, Pended, queueUNLOCKED
  <2>3. m + p <= m + p /\ k + q <= k + q
    OBVIOUS
  <2>4. QED
    BY <1>1, <1>7, <2>1, <2>2, <2>3 DEF QueueInv, LocksInv
<1>14. ReceiversCovered'
  <2>1. xTasksWaitingToReceive' # <<>> => xTasksWaitingToReceive # <<>> \/ Comes(Receivers)
    BY <1>9, <1>12
  <2>2. QED
    BY <1>1, <1>6, <1>10, <1>11, <1>13a, <2>1, ReceiversKept
<1>15. SendersCovered'
  <2>1. xTasksWaitingToSend' # <<>> => xTasksWaitingToSend # <<>> \/ Comes(Senders)
    BY <1>9, <1>13
  <2>2. QED
    BY <1>1, <1>6, <1>10, <1>11, <1>13a, <2>1, SendersKept
<1>16. QED
  BY <1>5, <1>6, <1>7, <1>9, <1>14, <1>15 DEF QueueInv

(* The first critical section of prvUnlockQueue. *)
LEMMA UnlockTxInv ==
  ASSUME QueueInv, NEW t \in Tasks, prvUnlockQueueTx(t)
  PROVE  QueueInv'
<1>1. /\ at[t] = "unlockTx" /\ suspendedBy' = suspendedBy /\ over' = over
      /\ at' = [at EXCEPT ![t] = "unlockRx"] /\ call' = call
      /\ UNCHANGED storage /\ WakeReceivers(cTxLock)
      /\ cTxLock' = queueUNLOCKED /\ cRxLock' = cRxLock
  BY DEF prvUnlockQueueTx, GoOn
<1>2. /\ suspendedBy = t /\ t # NoTask /\ \A u \in Tasks \ {t} : at[u] \notin Inside
      /\ cTxLock # queueUNLOCKED /\ cRxLock # queueUNLOCKED
      /\ over => t \notin blocked
  BY <1>1, InsideFacts DEF Inside
<1>3. t \notin Awake(Receivers) /\ t \notin Awake(Senders)
  BY <1>1 DEF Awake
<1>4. at'[t] = "unlockRx" /\ \A u \in Tasks \ {t} : at'[u] = at[u] /\ call'[u] = call[u]
  BY <1>1 DEF QueueInv, SchedulerInv
<1>5. PICK n \in Nat : n = cTxLock /\ Pended(cTxLock) = n
  BY <1>2, QueueAssumption DEF QueueInv, LocksInv, queueUNLOCKED, Pended
<1> DEFINE W == TasksOf(First(xTasksWaitingToReceive, n))
<1>6. /\ ListsInv' /\ Waiting' \subseteq Waiting /\ blocked' \subseteq blocked
      /\ xTasksWaitingToReceive' = Rest(xTasksWaitingToReceive, n)
      /\ xTasksWaitingToSend' = xTasksWaitingToSend
      /\ TasksOf(xTasksWaitingToReceive') \subseteq TasksOf(xTasksWaitingToReceive)
      /\ W \subseteq TasksOf(xTasksWaitingToReceive) \ Waiting'
  BY <1>1, <1>5, WokenReceivers DEF QueueInv
<1> HIDE DEF W
<1>7. SchedulerInv'
  <2>1. at' \in [Tasks -> Places] /\ call' \in [Tasks -> Calls \cup {NoCall}]
    BY <1>1 DEF QueueInv, SchedulerInv, Places
  <2>2. \A u \in Tasks : at'[u] = "elsewhere" \/ call'[u] \in Calls
    BY <1>1, <1>4 DEF QueueInv, SchedulerInv
  <2>3. \A u \in Tasks : at'[u] \in Inside <=> suspendedBy' = u
    BY <1>1, <1>2, <1>4 DEF Inside
  <2>4. over' => at'[t] = "unlockRx" /\ t \notin blocked'
    BY <1>1, <1>2, <1>4, <1>6
  <2>5. over' \in BOOLEAN /\ suspendedBy' \in Tasks \cup {NoTask}
    BY <1>1, <1>2 DEF QueueInv, SchedulerInv
  <2>6. QED
    BY <2>1, <2>2, <2>3, <2>4, <2>5 DEF SchedulerInv
<1>8. LocksInv'
  <2>1. {cTxLock', cRxLock'} \subseteq queueUNLOCKED .. MaxLock
    BY <1>1, QueueAssumption DEF QueueInv, LocksInv, queueUNLOCKED
  <2>2. \A u \in Tasks : at'[u] \notin {"look", "place", "unlockTx"}
    BY <1>2, <1>4 DEF Inside
  <2>3. QED
    BY <1>1, <1>2, <1>4, <2>1, <2>2 DEF LocksInv
<1>9. RingInv' /\ uxMessagesWaiting' = uxMessagesWaiting
  BY <1>1 DEF QueueInv, RingInv, storage
<1>10. PlacesInv'
  BY <1>1, <1>4, <1>6 DEF QueueInv, PlacesInv, ListsInv, Receivers, Senders
<1>11. /\ Awake(Receivers) \subseteq Awake(Receivers)' /\ Awake(Senders) \subseteq Awake(Senders)'
       /\ {Awake(Receivers), Awake(Senders), Awake(Receivers)', Awake(Senders)'} \subseteq SUBSET Tasks
  <2>1. /\ Awake(Receivers) \ {t} \subseteq Awake(Receivers)'
        /\ Awake(Senders) \ {t} \subseteq Awake(Senders)'
        /\ {Awake(Receivers), Awake(Senders), Awake(Receivers)', Awake(Senders)'} \subseteq SUBSET Tasks
    BY <1>1, <1>4, <1>6, OthersAwake DEF QueueInv
  <2>2. QED
    BY <1>3, <2>1
<1>12. W \subseteq Awake(Receivers)' /\ W \cap Awake(Receivers) = {}
  <2>1. ASSUME NEW u \in W
        PROVE  at'[u] \in {"try", "unlockRx", "resume"} /\ call'[u] = call[u] /\ ~(over' /\ suspendedBy' = u)
    <3>1. u \in blocked /\ u \in Tasks
      BY <1>6 DEF QueueInv, ListsInv, Waiting
    <3>2. at[u] \in {"try", "unlockTx", "unlockRx", "resume"}
      BY <3>1 DEF QueueInv, PlacesInv
    <3>3. at'[u] \in {"try", "unlockRx", "resume"}
      BY <1>2, <1>4, <3>1, <3>2 DEF Inside
    <3>4. QED
      BY <1>1, <1>2, <3>1, <3>3
  <2>2. W \subseteq Waiting /\ W \cap Waiting' = {}
    BY <1>6 DEF Waiting
  <2>3. W \cap TasksOf(xTasksWaitingToReceive) \subseteq Awake(Receivers)'
    BY <1>6, <2>1, <2>2, WokenAreAwake
  <2>4. W \cap Awake(Receivers) = {}
    BY <2>2, AwakeTasks DEF QueueInv, IsAwake
  <2>5. QED
    BY <1>6, <2>3, <2>4
<1>13. ~ Comes(Receivers)' /\ ~ Comes(Senders)'
  BY <1>2, <1>4 DEF Comes, Inside, Receivers, Senders
<1>13a. /\ uxMessagesWaiting' \in Nat /\ uxLength - uxMessagesWaiting' \in Nat
       /\ uxMessagesWaiting' + Pended(cTxLock) + 0 <= uxMessagesWaiting + Pended(cTxLock') + n
       /\ uxLength - uxMessagesWaiting' + Pended(cRxLock) <= uxLength - uxMessagesWaiting + Pended(cRxLock')
       /\ cTxLock' \in queueUNLOCKED .. MaxLock /\ cRxLock' \in queueUNLOCKED .. MaxLock
  <2>1. PICK m, k \in Nat : m = uxMessagesWaiting /\ k = uxLength - uxMessagesWaiting
    BY Amounts DEF QueueInv
  <2>2. PICK q \in Int : q = Pended(cRxLock)
    BY DEF QueueInv, LocksInv, Pended, queueUNLOCKED
  <2>3. m + n + 0 <= m + 0 + n /\ k + q <= k + q
    OBVIOUS
  <2>4. Pended(cTxLock') = 0
    BY <1>1 DEF Pended
  <2>5. QED
    BY <1>1, <1>5, <1>8, <1>9, <2>1, <2>2, <2>3, <2>4 DEF LocksInv
<1>14. ReceiversCovered'
  <2>1. Awake(Receivers) \cup W \subseteq Awake(Receivers)'
    BY <1>11, <1>12
  <2>2. Cardinality(Awake(Receivers)) + 0 >= Cardinality(Awake(Receivers))
    BY <1>11, SubsetCount
  <2>3. QED
    BY <1>6, <1>11, <1>12, <1>13, <1>13a, <2>1, <2>2, ReceiversWoken DEF W
<1>15. SendersCovered'
  BY <1>6, <1>11, <1>13, <1>13a, SendersKept
<1>16. QED
  BY <1>6, <1>7, <1>8, <1>9, <1>10, <1>14, <1>15 DEF QueueInv

(* The second critical section of prvUnlockQueue. *)
LEMMA UnlockRxInv ==
  ASSUME QueueInv, NEW t \in Tasks, prvUnlockQueueRx(t)
  PROVE  QueueInv'
<1>1. /\ at[t] = "unlockRx" /\ suspendedBy' = suspendedBy /\ over' = over
      /\ at' = [at EXCEPT ![t] = "resume"] /\ call' = call
      /\ UNCHANGED storage /\ WakeSenders(cRxLock)
      /\ cRxLock' = queueUNLOCKED /\ cTxLock' = cTxLock
  BY DEF prvUnlockQueueRx, GoOn
<1>2. /\ suspendedBy = t /\ t # NoTask /\ \A u \in Tasks \ {t} : at[u] \notin Inside
      /\ cTxLock = queueUNLOCKED /\ cRxLock # queueUNLOCKED
      /\ over => t \notin blocked
  BY <1>1, InsideFacts DEF Inside
<1>4. at'[t] = "resume" /\ \A u \in Tasks \ {t} : at'[u] = at[u] /\ call'[u] = call[u]
  BY <1>1 DEF QueueInv, SchedulerInv
<1>5. PICK n \in Nat : n = cRxLock /\ Pended(cRxLock) = n
  BY <1>2, QueueAssumption DEF QueueInv, LocksInv, queueUNLOCKED, Pended
<1> DEFINE W == TasksOf(First(xTasksWaitingToSend, n))
<1>6. /\ ListsInv' /\ Waiting' \subseteq Waiting /\ blocked' \subseteq blocked
      /\ xTasksWaitingToSend' = Rest(xTasksWaitingToSend, n)
      /\ xTasksWaitingToReceive' = xTasksWaitingToReceive
      /\ TasksOf(xTasksWaitingToSend') \subseteq TasksOf(xTasksWaitingToSend)
      /\ W \subseteq TasksOf(xTasksWaitingToSend) \ Waiting'
  BY <1>1, <1>5, WokenSenders DEF QueueInv
<1> HIDE DEF W
<1>7. SchedulerInv'
  <2>1. at' \in [Tasks -> Places] /\ call' \in [Tasks -> Calls \cup {NoCall}]
    BY <1>1 DEF QueueInv, SchedulerInv, Places
  <2>2. \A u \in Tasks : at'[u] = "elsewhere" \/ call'[u] \in Calls
    BY <1>1, <1>4 DEF QueueInv, SchedulerInv
  <2>3. \A u \in Tasks : at'[u] \in Inside <=> suspendedBy' = u
    BY <1>1, <1>2, <1>4 DEF Inside
  <2>4. over' => at'[t] = "resume" /\ t \notin blocked'
    BY <1>1, <1>2, <1>4, <1>6
  <2>5. over' \in BOOLEAN /\ suspendedBy' \in Tasks \cup {NoTask}
    BY <1>1, <1>2 DEF QueueInv, SchedulerInv
  <2>6. QED
    BY <2>1, <2>2, <2>3, <2>4, <2>5 DEF SchedulerInv
<1>8. LocksInv'
  <2>1. {cTxLock', cRxLock'} \subseteq queueUNLOCKED .. MaxLock
    BY <1>1, QueueAssumption DEF QueueInv, LocksInv, queueUNLOCKED
  <2>2. \A u \in Tasks : at'[u] \notin {"look", "place", "unlockTx"}
    BY <1>2, <1>4 DEF Inside
  <2>3. \A u \in Tasks : at'[u] # "unlockRx"
    BY <1>2, <1>4 DEF Inside
  <2>4. QED
    BY <1>1, <1>2, <1>4, <2>1, <2>2, <2>3 DEF LocksInv
<1>9. RingInv' /\ uxMessagesWaiting' = uxMessagesWaiting
  BY <1>1 DEF QueueInv, RingInv, storage
<1>10. PlacesInv'
  BY <1>1, <1>4, <1>6 DEF QueueInv, PlacesInv, ListsInv, Receivers, Senders
<1>11. /\ Awake(Receivers) \subseteq Awake(Receivers)' /\ Awake(Senders) \subseteq Awake(Senders)'
       /\ {Awake(Receivers), Awake(Senders), Awake(Receivers)', Awake(Senders)'} \subseteq SUBSET Tasks
  <2>1. \A u \in Tasks : IsAwake(u) => IsAwake(u)' /\ call'[u] = call[u]
    BY <1>1, <1>4, <1>6 DEF IsAwake
  <2>2. QED
    BY <1>6, <2>1, AllAwake DEF QueueInv
<1>12. W \subseteq Awake(Senders)' /\ W \cap Awake(Senders) = {}
  <2>1. ASSUME NEW u \in W
        PROVE  at'[u] \in {"try", "unlockRx", "resume"} /\ call'[u] = call[u] /\ ~(over' /\ suspendedBy' = u)
    <3>1. u \in blocked /\ u \in Tasks
      BY <1>6 DEF QueueInv, ListsInv, Waiting
    <3>2. at[u] \in {"try", "unlockTx", "unlockRx", "resume"}
      BY <3>1 DEF QueueInv, PlacesInv
    <3>3. at'[u] \in {"try", "unlockRx", "resume"}
      BY <1>2, <1>4, <3>1, <3>2 DEF Inside
    <3>4. QED
      BY <1>1, <1>2, <3>1, <3>3
  <2>2. W \subseteq Waiting /\ W \cap Waiting' = {}
    BY <1>6 DEF Waiting
  <2>3. W \cap TasksOf(xTasksWaitingToSend) \subseteq Awake(Senders)'
    BY <1>6, <2>1, <2>2, WokenAreAwake
  <2>4. W \cap Awake(Senders) = {}
    BY <2>2, AwakeTasks DEF QueueInv, IsAwake
  <2>5. QED
    BY <1>6, <2>3, <2>4
<1>13. ~ Comes(Receivers)' /\ ~ Comes(Senders)'
  BY <1>2, <1>4 DEF Comes, Inside, Receivers, Senders
<1>13a. /\ uxMessagesWaiting' \in Nat /\ uxLength - uxMessagesWaiting' \in Nat
       /\ uxMessagesWaiting' + Pended(cTxLock) <= uxMessagesWaiting + Pended(cTxLock')
       /\ uxLength - uxMessagesWaiting' + Pended(cRxLock) + 0 <= uxLength - uxMessagesWaiting + Pended(cRxLock') + n
       /\ cTxLock' \in queueUNLOCKED .. MaxLock /\ cRxLock' \in queueUNLOCKED .. MaxLock
  <2>1. PICK m, k \in Nat : m = uxMessagesWaiting /\ k = uxLength - uxMessagesWaiting
    BY Amounts DEF QueueInv
  <2>2. PICK q \in Int : q = Pended(cTxLock)
    BY DEF QueueInv, LocksInv, Pended, queueUNLOCKED
  <2>3. k + n + 0 <= k + 0 + n /\ m + q <= m + q
    OBVIOUS
  <2>4. Pended(cRxLock') = 0
    BY <1>1 DEF Pended
  <2>5. QED
    BY <1>1, <1>5, <1>8, <1>9, <2>1, <2>2, <2>3, <2>4 DEF LocksInv
<1>14. ReceiversCovered'
  BY <1>6, <1>11, <1>13, <1>13a, ReceiversKept
<1>15. SendersCovered'
  <2>1. Awake(Senders) \cup W \subseteq Awake(Senders)'
    BY <1>11, <1>12
  <2>2. Cardinality(Awake(Senders)) + 0 >= Cardinality(Awake(Senders))
    BY <1>11, SubsetCount
  <2>3. QED
    BY <1>6, <1>11, <1>12, <1>13, <1>13a, <2>1, <2>2, SendersWoken DEF W
<1>16. QED
  BY <1>6, <1>7, <1>8, <1>9, <1>10, <1>14, <1>15 DEF QueueInv

(* What these two steps leave of both conditions. *)
LEMMA BothKept ==
  ASSUME QueueInv, ListsInv',
         uxMessagesWaiting' = uxMessagesWaiting, cTxLock' = cTxLock, cRxLock' = cRxLock,
         \A u \in Tasks : IsAwake(u) => IsAwake(u)' /\ call'[u] = call[u],
         xTasksWaitingToReceive' # <<>> => xTasksWaitingToReceive # <<>>,
         xTasksWaitingToSend' # <<>> => xTasksWaitingToSend # <<>>,
         ~ Comes(Receivers)', ~ Comes(Senders)'
  PROVE  ReceiversCovered' /\ SendersCovered'
<1>1. /\ Awake(Receivers) \subseteq Awake(Receivers)' /\ Awake(Senders) \subseteq Awake(Senders)'
      /\ {Awake(Receivers), Awake(Senders), Awake(Receivers)', Awake(Senders)'} \subseteq SUBSET Tasks
  BY AllAwake DEF QueueInv
<1>2. /\ uxMessagesWaiting' \in Nat /\ uxLength - uxMessagesWaiting' \in Nat
      /\ uxMessagesWaiting' + Pended(cTxLock) <= uxMessagesWaiting + Pended(cTxLock')
      /\ uxLength - uxMessagesWaiting' + Pended(cRxLock) <= uxLength - uxMessagesWaiting + Pended(cRxLock')
      /\ cTxLock' \in queueUNLOCKED .. MaxLock /\ cRxLock' \in queueUNLOCKED .. MaxLock
  <2>1. PICK m, k \in Nat : m = uxMessagesWaiting /\ k = uxLength - uxMessagesWaiting
    BY Amounts DEF QueueInv
  <2>2. PICK p, q \in Int : p = Pended(cTxLock) /\ q = Pended(cRxLock)
    BY DEF QueueInv, LocksInv, Pended, queueUNLOCKED
  <2>3. m + p <= m + p /\ k + q <= k + q
    OBVIOUS
  <2>4. QED
    BY <2>1, <2>2, <2>3 DEF QueueInv, LocksInv
<1>3. ReceiversCovered'
  BY <1>1, <1>2, ReceiversKept
<1>4. SendersCovered'
  BY <1>1, <1>2, SendersKept
<1>5. QED
  BY <1>3, <1>4

(* xTaskResumeAll makes the pending tasks ready. *)
LEMMA ResumeAllInv ==
  ASSUME QueueInv, NEW t \in Tasks, xTaskResumeAll(t)
  PROVE  QueueInv'
<1>1. /\ at[t] = "resume" /\ suspendedBy' = NoTask /\ over' = FALSE
      /\ blocked' = blocked \ xPendingReadyList /\ xPendingReadyList' = {}
      /\ UNCHANGED storage /\ cTxLock' = cTxLock /\ cRxLock' = cRxLock
      /\ xTasksWaitingToSend' = xTasksWaitingToSend
      /\ xTasksWaitingToReceive' = xTasksWaitingToReceive
  BY DEF xTaskResumeAll, locks
<1>2. /\ suspendedBy = t /\ t # NoTask /\ \A u \in Tasks \ {t} : at[u] \notin Inside
      /\ cTxLock = queueUNLOCKED /\ cRxLock = queueUNLOCKED
      /\ over => t \notin blocked
  BY <1>1, InsideFacts DEF Inside
<1>3. /\ at' \in [Tasks -> Places] /\ call' \in [Tasks -> Calls \cup {NoCall}]
      /\ \A u \in Tasks \ {t} : at'[u] = at[u] /\ call'[u] = call[u]
      /\ at'[t] \in {"elsewhere", "lookAgain", "try"}
      /\ at'[t] # "elsewhere" => call'[t] = call[t]
      /\ ~ over => at'[t] = "try" /\ call'[t] = call[t]
  <2>1. CASE over /\ Sends(call[t])
    BY <2>1 DEF xTaskResumeAll, Return, QueueInv, SchedulerInv, Places
  <2>2. CASE over /\ ~ Sends(call[t])
    BY <2>2 DEF xTaskResumeAll, GoOn, QueueInv, SchedulerInv, Places
  <2>3. CASE ~ over
    BY <2>3 DEF xTaskResumeAll, GoOn, QueueInv, SchedulerInv, Places
  <2>4. QED
    BY <2>1, <2>2, <2>3
<1>4. SchedulerInv'
  <2>1. \A u \in Tasks : at'[u] = "elsewhere" \/ call'[u] \in Calls
    BY <1>1, <1>3 DEF QueueInv, SchedulerInv
  <2>2. \A u \in Tasks : at'[u] \notin Inside /\ suspendedBy' # u
    BY <1>1, <1>2, <1>3, QueueAssumption DEF Inside
  <2>3. QED
    BY <1>1, <1>3, <2>1, <2>2 DEF SchedulerInv
<1>5. LocksInv'
  BY <1>1, <1>2, <1>3 DEF QueueInv, LocksInv, Inside
<1>6. RingInv' /\ uxMessagesWaiting' = uxMessagesWaiting
  BY <1>1 DEF QueueInv, RingInv, storage
<1>7. ListsInv' /\ Waiting' = Waiting
  BY <1>1 DEF QueueInv, ListsInv, Waiting
<1>8. PlacesInv'
  <2>1. \A u \in blocked : u \in Tasks /\ call'[u] = call[u]
    BY <1>2, <1>3 DEF QueueInv, ListsInv
  <2>2. \A u \in blocked' : at'[u] \in {"try", "unlockTx", "unlockRx", "resume"}
    BY <1>1, <1>2, <1>3 DEF QueueInv, ListsInv, PlacesInv
  <2>3. QED
    BY <1>1, <2>1, <2>2 DEF QueueInv, ListsInv, Waiting, PlacesInv, Receivers, Senders
<1>9. \A u \in Tasks : IsAwake(u) => IsAwake(u)' /\ call'[u] = call[u]
  BY <1>1, <1>2, <1>3, <1>7 DEF IsAwake
<1>10. ~ Comes(Receivers)' /\ ~ Comes(Senders)'
  BY <1>2, <1>3 DEF Comes, Inside, Receivers, Senders
<1>11. ReceiversCovered' /\ SendersCovered'
  BY <1>1, <1>6, <1>7, <1>9, <1>10, BothKept
<1>12. QED
  BY <1>4, <1>5, <1>6, <1>7, <1>8, <1>11 DEF QueueInv

(* The tick interrupt makes a task ready, and takes it from its event list. *)
LEMMA BlockTimeOverInv ==
  ASSUME QueueInv, NEW t \in Tasks, BlockTimeOver(t)
  PROVE  QueueInv'
<1>1. /\ suspendedBy = NoTask /\ suspendedBy' = suspendedBy /\ over' = over
      /\ at' = at /\ call' = call /\ blocked' = blocked \ {t}
      /\ xTasksWaitingToSend' = Unlinked(xTasksWaitingToSend, t)
      /\ xTasksWaitingToReceive' = Unlinked(xTasksWaitingToReceive, t)
      /\ UNCHANGED storage /\ cTxLock' = cTxLock /\ cRxLock' = cRxLock
      /\ xPendingReadyList' = xPendingReadyList
  BY DEF BlockTimeOver, locks
<1>2. /\ cTxLock = queueUNLOCKED /\ cRxLock = queueUNLOCKED /\ over = FALSE
      /\ xPendingReadyList = {} /\ \A u \in Tasks : at[u] \notin Inside
  BY <1>1, OutsideFacts
<1>3. /\ xTasksWaitingToSend' \in Seq(Tasks) /\ Distinct(xTasksWaitingToSend')
      /\ TasksOf(xTasksWaitingToSend') = TasksOf(xTasksWaitingToSend) \ {t}
      /\ xTasksWaitingToSend' # <<>> => xTasksWaitingToSend # <<>>
  BY <1>1, UnlinkedAny DEF QueueInv, ListsInv
<1>4. /\ xTasksWaitingToReceive' \in Seq(Tasks) /\ Distinct(xTasksWaitingToReceive')
      /\ TasksOf(xTasksWaitingToReceive') = TasksOf(xTasksWaitingToReceive) \ {t}
      /\ xTasksWaitingToReceive' # <<>> => xTasksWaitingToReceive # <<>>
  BY <1>1, UnlinkedAny DEF QueueInv, ListsInv
<1>5. SchedulerInv'
  BY <1>1, <1>2 DEF QueueInv, SchedulerInv
<1>6. LocksInv'
  BY <1>1 DEF QueueInv, LocksInv
<1>7. RingInv' /\ uxMessagesWaiting' = uxMessagesWaiting
  BY <1>1 DEF QueueInv, RingInv, storage
<1>8. ListsInv' /\ Waiting' = Waiting \ {t}
  BY <1>1, <1>2, <1>3, <1>4 DEF QueueInv, ListsInv, Waiting
<1>9. PlacesInv'
  BY <1>1, <1>3, <1>4 DEF QueueInv, PlacesInv, Receivers, Senders
<1>10. \A u \in Tasks : IsAwake(u) => IsAwake(u)' /\ call'[u] = call[u]
  BY <1>1, <1>8 DEF IsAwake
<1>11. ~ Comes(Receivers)' /\ ~ Comes(Senders)'
  BY <1>1, <1>2 DEF Comes, Inside, Receivers, Senders
<1>12. ReceiversCovered' /\ SendersCovered'
  BY <1>1, <1>3, <1>4, <1>7, <1>8, <1>10, <1>11, BothKept
<1>13. QED
  BY <1>5, <1>6, <1>7, <1>8, <1>9, <1>12 DEF QueueInv

-----------------------------------------------------------------------------
(* Interrupts.                                                              *)

LEMMA InterruptFacts ==
  ASSUME QueueInv, at' = at, call' = call, suspendedBy' = suspendedBy, over' = over,
         ListsInv', Waiting' \subseteq Waiting, blocked' \subseteq blocked,
         TasksOf(xTasksWaitingToReceive') \subseteq TasksOf(xTasksWaitingToReceive),
         TasksOf(xTasksWaitingToSend') \subseteq TasksOf(xTasksWaitingToSend)
  PROVE  /\ SchedulerInv' /\ PlacesInv'
         /\ Awake(Receivers) \subseteq Awake(Receivers)' /\ Awake(Senders) \subseteq Awake(Senders)'
         /\ {Awake(Receivers), Awake(Senders), Awake(Receivers)', Awake(Senders)'} \subseteq SUBSET Tasks
         /\ Comes(Receivers)' = Comes(Receivers) /\ Comes(Senders)' = Comes(Senders)
         /\ \A u \in blocked : ~ (over' /\ suspendedBy' = u)
<1>1. SchedulerInv'
  <2>1. over' => \E t \in Tasks : at'[t] \in {"unlockTx", "unlockRx", "resume"} /\ t \notin blocked'
    BY DEF QueueInv, SchedulerInv
  <2>2. QED
    BY <2>1 DEF QueueInv, SchedulerInv
<1>2. PlacesInv'
  BY DEF QueueInv, PlacesInv, Receivers, Senders
<1>3. /\ Awake(Receivers) \subseteq Awake(Receivers)' /\ Awake(Senders) \subseteq Awake(Senders)'
      /\ {Awake(Receivers), Awake(Senders), Awake(Receivers)', Awake(Senders)'} \subseteq SUBSET Tasks
  <2>1. \A u \in Tasks : IsAwake(u) => IsAwake(u)' /\ call'[u] = call[u]
    BY DEF IsAwake
  <2>2. QED
    BY <2>1, AllAwake DEF QueueInv
<1>4. Comes(Receivers)' = Comes(Receivers) /\ Comes(Senders)' = Comes(Senders)
  BY DEF Comes, Receivers, Senders
<1>5. \A u \in blocked : ~ (over' /\ suspendedBy' = u)
  <2>1. ASSUME over PROVE suspendedBy \notin blocked
    <3>1. PICK t \in Tasks : at[t] \in {"unlockTx", "unlockRx", "resume"} /\ t \notin blocked
      BY <2>1 DEF QueueInv, SchedulerInv
    <3>2. suspendedBy = t
      BY <3>1 DEF QueueInv, SchedulerInv, Inside
    <3>3. QED
      BY <3>1, <3>2
  <2>2. QED
    BY <2>1
<1>6. QED
  BY <1>1, <1>2, <1>3, <1>4, <1>5

(* Tasks woken by an interrupt do not have to pass the first critical       *)
(* section of prvUnlockQueue any more.                                      *)
LEMMA InterruptWakes ==
  ASSUME QueueInv, at' = at, call' = call, suspendedBy' = suspendedBy, over' = over,
         ListsInv', Waiting' \subseteq Waiting, blocked' \subseteq blocked,
         cTxLock = queueUNLOCKED \/ cRxLock = queueUNLOCKED,
         \A u \in blocked : ~ (over' /\ suspendedBy' = u),
         NEW W, W \cap Waiting' = {}
  PROVE  /\ W \subseteq TasksOf(xTasksWaitingToReceive)
               => W \subseteq Awake(Receivers)' /\ Awake(Receivers) \cap W = {}
         /\ W \subseteq TasksOf(xTasksWaitingToSend)
               => W \subseteq Awake(Senders)' /\ Awake(Senders) \cap W = {}
<1> SUFFICES ASSUME W \subseteq Waiting
             PROVE  /\ W \cap TasksOf(xTasksWaitingToReceive) \subseteq Awake(Receivers)'
                    /\ W \cap TasksOf(xTasksWaitingToSend) \subseteq Awake(Senders)'
                    /\ Awake(Receivers) \cap W = {} /\ Awake(Senders) \cap W = {}
  BY DEF Waiting
<1>1. ASSUME NEW u \in W
      PROVE  at'[u] \in {"try", "unlockRx", "resume"} /\ call'[u] = call[u] /\ ~(over' /\ suspendedBy' = u)
  <2>1. u \in blocked /\ u \in Tasks
    BY DEF QueueInv, ListsInv
  <2>2. at[u] \in {"try", "unlockTx", "unlockRx", "resume"}
    BY <2>1 DEF QueueInv, PlacesInv
  <2>3. at[u] # "unlockTx"
    BY <2>1 DEF QueueInv, LocksInv
  <2>4. QED
    BY <2>1, <2>2, <2>3
<1>2. /\ W \cap TasksOf(xTasksWaitingToReceive) \subseteq Awake(Receivers)'
      /\ W \cap TasksOf(xTasksWaitingToSend) \subseteq Awake(Senders)'
  BY <1>1, WokenAreAwake
<1>3. Awake(Receivers) \cap W = {} /\ Awake(Senders) \cap W = {}
  BY AwakeTasks DEF QueueInv, IsAwake
<1>4. QED
  BY <1>2, <1>3

LEMMA SendFromISRInv ==
  ASSUME QueueInv, NEW i \in Items, xQueueGenericSendFromISR(i)
  PROVE  QueueInv'
<1> DEFINE c == [op |-> "back", item |-> i, wait |-> "none"]
<1>1. /\ uxMessagesWaiting < uxLength /\ prvCopyDataToQueue(c)
      /\ uxMessagesWaiting' = uxMessagesWaiting + 1
      /\ cRxLock' = cRxLock /\ suspendedBy' = suspendedBy
      /\ at' = at /\ call' = call /\ over' = over
  BY DEF xQueueGenericSendFromISR, prvCopyDataToQueue, tasks
<1>2. RingInv'
  <2>1. c \in [op : {"back", "front"}, item : Items, wait : {"none", "limited", "forever"}]
    OBVIOUS
  <2> HIDE DEF c
  <2>2. QED
    BY <1>1, <2>1, CopyToQueue DEF QueueInv
<1> HIDE DEF c
<1>3. PICK p, q, m, L \in Int : /\ p = Pended(cTxLock) /\ q = Pended(cRxLock)
                                /\ m = uxMessagesWaiting /\ L = uxLength /\ m \in Nat /\ L - (m + 1) \in Nat
  <2>1. Pended(cTxLock) \in Int /\ Pended(cRxLock) \in Int
    BY DEF QueueInv, LocksInv, Pended, queueUNLOCKED
  <2>2. uxLength \in Nat
    BY QueueAssumption
  <2>3. PICK m \in 0 .. uxLength : m = uxMessagesWaiting
    BY DEF QueueInv, RingInv
  <2>4. m \in Nat /\ uxLength - (m + 1) \in Nat
    BY <1>1, <2>2, <2>3
  <2>5. QED
    BY <2>1, <2>2, <2>3, <2>4
<1>4. m + 1 + p + 0 <= m + p + 1 /\ L - (m + 1) + q <= L - m + q /\ m + 1 \in Nat
      /\ m + 1 + p <= m + (p + 1)
  BY <1>3
<1>5. CASE cTxLock = queueUNLOCKED
  <2> DEFINE W == TasksOf(First(xTasksWaitingToReceive, 1))
  <2>1. WakeReceivers(1) /\ cTxLock' = cTxLock
    BY <1>5 DEF xQueueGenericSendFromISR
  <2>2. /\ ListsInv' /\ Waiting' \subseteq Waiting /\ blocked' \subseteq blocked
        /\ xTasksWaitingToReceive' = Rest(xTasksWaitingToReceive, 1)
        /\ xTasksWaitingToSend' = xTasksWaitingToSend
        /\ TasksOf(xTasksWaitingToReceive') \subseteq TasksOf(xTasksWaitingToReceive)
        /\ W \subseteq TasksOf(xTasksWaitingToReceive) \ Waiting'
    BY <1>1, <2>1, WokenReceivers DEF QueueInv
  <2> HIDE DEF W
  <2>3. /\ SchedulerInv' /\ PlacesInv'
        /\ Awake(Receivers) \subseteq Awake(Receivers)' /\ Awake(Senders) \subseteq Awake(Senders)'
        /\ {Awake(Receivers), Awake(Senders), Awake(Receivers)', Awake(Senders)'} \subseteq SUBSET Tasks
        /\ Comes(Receivers)' = Comes(Receivers) /\ Comes(Senders)' = Comes(Senders)
        /\ \A u \in blocked : ~ (over' /\ suspendedBy' = u)
    BY <1>1, <2>2, InterruptFacts
  <2>4. LocksInv'
    BY <1>1, <2>1 DEF QueueInv, LocksInv
  <2>5. ~ Comes(Receivers)'
    BY <1>5, <2>3 DEF Comes, QueueInv, LocksInv, Receivers
  <2>6. W \subseteq Awake(Receivers)' /\ Awake(Receivers) \cap W = {}
    BY <1>1, <1>5, <2>2, <2>3, InterruptWakes
  <2>7. ReceiversCovered'
    <3>1. Awake(Receivers) \cup W \subseteq Awake(Receivers)'
      BY <2>3, <2>6
    <3>2. Cardinality(Awake(Receivers)) + 0 >= Cardinality(Awake(Receivers))
      BY <2>3, SubsetCount
    <3>3. /\ uxMessagesWaiting' \in Nat /\ cTxLock' \in queueUNLOCKED .. MaxLock
          /\ uxMessagesWaiting' + Pended(cTxLock) + 0 <= uxMessagesWaiting + Pended(cTxLock') + 1
      BY <1>1, <1>3, <1>4, <2>1, <2>4 DEF LocksInv
    <3>4. QED
      BY <2>2, <2>3, <2>5, <2>6, <3>1, <3>2, <3>3, ReceiversWoken DEF W
  <2>8. SendersCovered'
    <3>1. /\ uxLength - uxMessagesWaiting' \in Nat /\ cRxLock' \in queueUNLOCKED .. MaxLock
          /\ uxLength - uxMessagesWaiting' + Pended(cRxLock) <= uxLength - uxMessagesWaiting + Pended(cRxLock')
      BY <1>1, <1>3, <1>4, <2>4 DEF LocksInv
    <3>2. QED
      BY <2>2, <2>3, <3>1, SendersKept
  <2>9. QED
    BY <1>2, <2>2, <2>3, <2>4, <2>7, <2>8 DEF QueueInv
<1>6. CASE cTxLock # queueUNLOCKED
  <2>1. cTxLock < MaxLock /\ cTxLock' = cTxLock + 1 /\ UNCHANGED lists
    BY <1>6 DEF xQueueGenericSendFromISR
  <2>2. /\ ListsInv' /\ Waiting' = Waiting /\ blocked' = blocked
        /\ xTasksWaitingToReceive' = xTasksWaitingToReceive
        /\ xTasksWaitingToSend' = xTasksWaitingToSend
    BY <1>1, <2>1 DEF QueueInv, ListsInv, Waiting, lists
  <2>3. /\ SchedulerInv' /\ PlacesInv'
        /\ Awake(Receivers) \subseteq Awake(Receivers)' /\ Awake(Senders) \subseteq Awake(Senders)'
        /\ {Awake(Receivers), Awake(Senders), Awake(Receivers)', Awake(Senders)'} \subseteq SUBSET Tasks
        /\ Comes(Receivers)' = Comes(Receivers) /\ Comes(Senders)' = Comes(Senders)
    BY <1>1, <2>2, InterruptFacts
  <2>4. cTxLock' \in 0 .. MaxLock /\ Pended(cTxLock') = p + 1
    <3>1. cTxLock \in 0 .. MaxLock /\ MaxLock \in Nat
      BY <1>6, QueueAssumption DEF QueueInv, LocksInv, queueUNLOCKED
    <3>2. cTxLock' \in 0 .. MaxLock /\ cTxLock' # -1
      BY <2>1, <3>1
    <3>3. QED
      BY <1>3, <1>6, <2>1, <3>2 DEF Pended, queueUNLOCKED
  <2>5. LocksInv'
    <3>1. cTxLock' # queueUNLOCKED /\ {cTxLock', cRxLock'} \subseteq queueUNLOCKED .. MaxLock
      BY <1>1, <2>4 DEF QueueInv, LocksInv, queueUNLOCKED
    <3>2. QED
      BY <1>1, <1>6, <3>1 DEF QueueInv, LocksInv
  <2>6. ReceiversCovered'
    <3>1. /\ uxMessagesWaiting' \in Nat /\ cTxLock' \in queueUNLOCKED .. MaxLock
          /\ uxMessagesWaiting' + Pended(cTxLock) <= uxMessagesWaiting + Pended(cTxLock')
      BY <1>1, <1>3, <1>4, <2>4, <2>5 DEF LocksInv
    <3>2. QED
      BY <2>2, <2>3, <3>1, ReceiversKept
  <2>7. SendersCovered'
    <3>1. /\ uxLength - uxMessagesWaiting' \in Nat /\ cRxLock' \in queueUNLOCKED .. MaxLock
          /\ uxLength - uxMessagesWaiting' + Pended(cRxLock) <= uxLength - uxMessagesWaiting + Pended(cRxLock')
      BY <1>1, <1>3, <1>4, <2>5 DEF LocksInv
    <3>2. QED
      BY <2>2, <2>3, <3>1, SendersKept
  <2>8. QED
    BY <1>2, <2>2, <2>3, <2>5, <2>6, <2>7 DEF QueueInv
<1>7. QED
  BY <1>5, <1>6

LEMMA ReceiveFromISRInv ==
  ASSUME QueueInv, xQueueReceiveFromISR
  PROVE  QueueInv'
<1>1. /\ uxMessagesWaiting > 0 /\ TakeFirst
      /\ uxMessagesWaiting' = uxMessagesWaiting - 1
      /\ cTxLock' = cTxLock /\ suspendedBy' = suspendedBy
      /\ at' = at /\ call' = call /\ over' = over
  BY DEF xQueueReceiveFromISR, TakeFirst, tasks
<1>2. RingInv'
  BY <1>1, CopyFromQueue DEF QueueInv
<1>3. PICK p, q, m, L \in Int : /\ p = Pended(cTxLock) /\ q = Pended(cRxLock)
                                /\ m = uxMessagesWaiting /\ L = uxLength /\ m - 1 \in Nat /\ L - m \in Nat
  <2>1. Pended(cTxLock) \in Int /\ Pended(cRxLock) \in Int
    BY DEF QueueInv, LocksInv, Pended, queueUNLOCKED
  <2>2. uxLength \in Nat
    BY QueueAssumption
  <2>3. PICK m \in 0 .. uxLength : m = uxMessagesWaiting
    BY DEF QueueInv, RingInv
  <2>4. m - 1 \in Nat /\ uxLength - m \in Nat
    BY <1>1, <2>2, <2>3
  <2>5. QED
    BY <2>1, <2>2, <2>3, <2>4
<1>4. L - (m - 1) + q + 0 <= L - m + q + 1 /\ m - 1 + p <= m + p /\ L - (m - 1) \in Nat
      /\ L - (m - 1) + q <= L - m + (q + 1)
  BY <1>3
<1>5. CASE cRxLock = queueUNLOCKED
  <2> DEFINE W == TasksOf(First(xTasksWaitingToSend, 1))
  <2>1. WakeSenders(1) /\ cRxLock' = cRxLock
    BY <1>5 DEF xQueueReceiveFromISR
  <2>2. /\ ListsInv' /\ Waiting' \subseteq Waiting /\ blocked' \subseteq blocked
        /\ xTasksWaitingToSend' = Rest(xTasksWaitingToSend, 1)
        /\ xTasksWaitingToReceive' = xTasksWaitingToReceive
        /\ TasksOf(xTasksWaitingToSend') \subseteq TasksOf(xTasksWaitingToSend)
        /\ W \subseteq TasksOf(xTasksWaitingToSend) \ Waiting'
    BY <1>1, <2>1, WokenSenders DEF QueueInv
  <2> HIDE DEF W
  <2>3. /\ SchedulerInv' /\ PlacesInv'
        /\ Awake(Receivers) \subseteq Awake(Receivers)' /\ Awake(Senders) \subseteq Awake(Senders)'
        /\ {Awake(Receivers), Awake(Senders), Awake(Receivers)', Awake(Senders)'} \subseteq SUBSET Tasks
        /\ Comes(Receivers)' = Comes(Receivers) /\ Comes(Senders)' = Comes(Senders)
        /\ \A u \in blocked : ~ (over' /\ suspendedBy' = u)
    BY <1>1, <2>2, InterruptFacts
  <2>4. LocksInv'
    BY <1>1, <2>1 DEF QueueInv, LocksInv
  <2>5. ~ Comes(Senders)'
    BY <1>5, <2>3 DEF Comes, QueueInv, LocksInv, Senders
  <2>6. W \subseteq Awake(Senders)' /\ Awake(Senders) \cap W = {}
    BY <1>1, <1>5, <2>2, <2>3, InterruptWakes
  <2>7. SendersCovered'
    <3>1. Awake(Senders) \cup W \subseteq Awake(Senders)'
      BY <2>3, <2>6
    <3>2. Cardinality(Awake(Senders)) + 0 >= Cardinality(Awake(Senders))
      BY <2>3, SubsetCount
    <3>3. /\ uxLength - uxMessagesWaiting' \in Nat /\ cRxLock' \in queueUNLOCKED .. MaxLock
          /\ uxLength - uxMessagesWaiting' + Pended(cRxLock) + 0 <= uxLength - uxMessagesWaiting + Pended(cRxLock') + 1
      BY <1>1, <1>3, <1>4, <2>1, <2>4 DEF LocksInv
    <3>4. QED
      BY <2>2, <2>3, <2>5, <2>6, <3>1, <3>2, <3>3, SendersWoken DEF W
  <2>8. ReceiversCovered'
    <3>1. /\ uxMessagesWaiting' \in Nat /\ cTxLock' \in queueUNLOCKED .. MaxLock
          /\ uxMessagesWaiting' + Pended(cTxLock) <= uxMessagesWaiting + Pended(cTxLock')
      BY <1>1, <1>3, <1>4, <2>4 DEF LocksInv
    <3>2. QED
      BY <2>2, <2>3, <3>1, ReceiversKept
  <2>9. QED
    BY <1>2, <2>2, <2>3, <2>4, <2>7, <2>8 DEF QueueInv
<1>6. CASE cRxLock # queueUNLOCKED
  <2>1. cRxLock < MaxLock /\ cRxLock' = cRxLock + 1 /\ UNCHANGED lists
    BY <1>6 DEF xQueueReceiveFromISR
  <2>2. /\ ListsInv' /\ Waiting' = Waiting /\ blocked' = blocked
        /\ xTasksWaitingToReceive' = xTasksWaitingToReceive
        /\ xTasksWaitingToSend' = xTasksWaitingToSend
    BY <1>1, <2>1 DEF QueueInv, ListsInv, Waiting, lists
  <2>3. /\ SchedulerInv' /\ PlacesInv'
        /\ Awake(Receivers) \subseteq Awake(Receivers)' /\ Awake(Senders) \subseteq Awake(Senders)'
        /\ {Awake(Receivers), Awake(Senders), Awake(Receivers)', Awake(Senders)'} \subseteq SUBSET Tasks
        /\ Comes(Receivers)' = Comes(Receivers) /\ Comes(Senders)' = Comes(Senders)
    BY <1>1, <2>2, InterruptFacts
  <2>4. cRxLock' \in 0 .. MaxLock /\ Pended(cRxLock') = q + 1
    <3>1. cRxLock \in 0 .. MaxLock /\ MaxLock \in Nat
      BY <1>6, QueueAssumption DEF QueueInv, LocksInv, queueUNLOCKED
    <3>2. cRxLock' \in 0 .. MaxLock /\ cRxLock' # -1
      BY <2>1, <3>1
    <3>3. QED
      BY <1>3, <1>6, <2>1, <3>2 DEF Pended, queueUNLOCKED
  <2>5. LocksInv'
    <3>1. cRxLock' # queueUNLOCKED /\ {cTxLock', cRxLock'} \subseteq queueUNLOCKED .. MaxLock
      BY <1>1, <2>4 DEF QueueInv, LocksInv, queueUNLOCKED
    <3>2. QED
      BY <1>1, <1>6, <3>1 DEF QueueInv, LocksInv
  <2>6. SendersCovered'
    <3>1. /\ uxLength - uxMessagesWaiting' \in Nat /\ cRxLock' \in queueUNLOCKED .. MaxLock
          /\ uxLength - uxMessagesWaiting' + Pended(cRxLock) <= uxLength - uxMessagesWaiting + Pended(cRxLock')
      BY <1>1, <1>3, <1>4, <2>4, <2>5 DEF LocksInv
    <3>2. QED
      BY <2>2, <2>3, <3>1, SendersKept
  <2>7. ReceiversCovered'
    <3>1. /\ uxMessagesWaiting' \in Nat /\ cTxLock' \in queueUNLOCKED .. MaxLock
          /\ uxMessagesWaiting' + Pended(cTxLock) <= uxMessagesWaiting + Pended(cTxLock')
      BY <1>1, <1>3, <1>4, <2>5 DEF LocksInv
    <3>2. QED
      BY <2>2, <2>3, <3>1, ReceiversKept
  <2>8. QED
    BY <1>2, <2>2, <2>3, <2>5, <2>6, <2>7 DEF QueueInv
<1>7. QED
  BY <1>5, <1>6

-----------------------------------------------------------------------------
(* The attempt.                                                             *)

(* What it does to the task, and to the others. *)
LEMMA SucceedFacts ==
  ASSUME QueueInv, NEW t \in Tasks, Succeed(t), RingInv', ListsInv',
         Waiting' \subseteq Waiting, blocked' \subseteq blocked,
         TasksOf(xTasksWaitingToReceive') \subseteq TasksOf(xTasksWaitingToReceive),
         TasksOf(xTasksWaitingToSend') \subseteq TasksOf(xTasksWaitingToSend),
         ReceiversCovered', SendersCovered'
  PROVE  QueueInv'
<1>1. /\ Runs(t) /\ at[t] = "try" /\ at' = [at EXCEPT ![t] = "elsewhere"]
      /\ call' = [call EXCEPT ![t] = NoCall]
      /\ cTxLock' = cTxLock /\ cRxLock' = cRxLock
      /\ suspendedBy' = suspendedBy /\ over' = over
  BY DEF Succeed, Return, locks
<1>2. suspendedBy = NoTask /\ t \notin blocked
  BY <1>1, RunsFacts DEF Inside
<1>3. /\ cTxLock = queueUNLOCKED /\ cRxLock = queueUNLOCKED /\ over = FALSE
      /\ \A u \in Tasks : at[u] \notin Inside
  BY <1>2, OutsideFacts
<1>4. at'[t] = "elsewhere" /\ \A u \in Tasks \ {t} : at'[u] = at[u] /\ call'[u] = call[u]
  BY <1>1 DEF QueueInv, SchedulerInv
<1>5. SchedulerInv'
  <2>1. at' \in [Tasks -> Places] /\ call' \in [Tasks -> Calls \cup {NoCall}]
    BY <1>1 DEF QueueInv, SchedulerInv, Places
  <2>2. \A u \in Tasks : at'[u] = "elsewhere" \/ call'[u] \in Calls
    BY <1>4 DEF QueueInv, SchedulerInv
  <2>3. \A u \in Tasks : at'[u] \notin Inside /\ suspendedBy' # u
    BY <1>1, <1>2, <1>3, <1>4, QueueAssumption DEF Inside
  <2>4. QED
    BY <1>1, <1>2, <1>3, <2>1, <2>2, <2>3 DEF SchedulerInv
<1>6. LocksInv'
  BY <1>1, <1>3, <1>4 DEF QueueInv, LocksInv, Inside
<1>7. PlacesInv'
  BY <1>2, <1>4, ZenonT(40) DEF QueueInv, PlacesInv, ListsInv, Waiting, Receivers, Senders
<1>8. QED
  BY <1>5, <1>6, <1>7 DEF QueueInv

LEMMA SucceedWakes ==
  ASSUME QueueInv, NEW t \in Tasks, Succeed(t), ListsInv', Waiting' \subseteq Waiting,
         NEW W, W \cap Waiting' = {}
  PROVE  /\ t \notin Waiting /\ call[t] \in Calls
         /\ cTxLock = queueUNLOCKED /\ cRxLock = queueUNLOCKED
         /\ cTxLock' = queueUNLOCKED /\ cRxLock' = queueUNLOCKED
         /\ Awake(Receivers) \ {t} \subseteq Awake(Receivers)'
         /\ Awake(Senders) \ {t} \subseteq Awake(Senders)'
         /\ {Awake(Receivers), Awake(Senders), Awake(Receivers)', Awake(Senders)'} \subseteq SUBSET Tasks
         /\ W \subseteq TasksOf(xTasksWaitingToReceive)
               => W \subseteq Awake(Receivers)' /\ Awake(Receivers) \cap W = {}
         /\ W \subseteq TasksOf(xTasksWaitingToSend)
               => W \subseteq Awake(Senders)' /\ Awake(Senders) \cap W = {}
         /\ ~ Comes(Receivers)' /\ ~ Comes(Senders)'
<1>1. /\ Runs(t) /\ at[t] = "try" /\ at' = [at EXCEPT ![t] = "elsewhere"]
      /\ call' = [call EXCEPT ![t] = NoCall]
      /\ cTxLock' = cTxLock /\ cRxLock' = cRxLock
      /\ suspendedBy' = suspendedBy /\ over' = over
  BY DEF Succeed, Return, locks
<1>2. suspendedBy = NoTask /\ t \notin blocked
  BY <1>1, RunsFacts DEF Inside
<1>3. /\ cTxLock = queueUNLOCKED /\ cRxLock = queueUNLOCKED /\ over = FALSE
      /\ \A u \in Tasks : at[u] \notin Inside
  BY <1>2, OutsideFacts
<1>4. at'[t] = "elsewhere" /\ \A u \in Tasks \ {t} : at'[u] = at[u] /\ call'[u] = call[u]
  BY <1>1 DEF QueueInv, SchedulerInv
<1>5. t \notin Waiting /\ call[t] \in Calls
  BY <1>1, <1>2 DEF QueueInv, ListsInv, SchedulerInv
<1>6. /\ Awake(Receivers) \ {t} \subseteq Awake(Receivers)'
      /\ Awake(Senders) \ {t} \subseteq Awake(Senders)'
      /\ {Awake(Receivers), Awake(Senders), Awake(Receivers)', Awake(Senders)'} \subseteq SUBSET Tasks
  BY <1>1, <1>3, <1>4, OthersAwake DEF QueueInv
<1>7. ~ Comes(Receivers)' /\ ~ Comes(Senders)'
  BY <1>3, <1>4 DEF Comes, Inside, Receivers, Senders
<1>8. ASSUME W \subseteq Waiting
      PROVE  /\ W \cap TasksOf(xTasksWaitingToReceive) \subseteq Awake(Receivers)'
             /\ W \cap TasksOf(xTasksWaitingToSend) \subseteq Awake(Senders)'
             /\ Awake(Receivers) \cap W = {} /\ Awake(Senders) \cap W = {}
  <2>1. ASSUME NEW u \in W
        PROVE  at'[u] \in {"try", "unlockRx", "resume"} /\ call'[u] = call[u] /\ ~(over' /\ suspendedBy' = u)
    <3>1. u \in blocked /\ u \in Tasks \ {t}
      BY <1>5, <1>8 DEF QueueInv, ListsInv
    <3>2. at[u] \in {"try", "unlockTx", "unlockRx", "resume"}
      BY <3>1 DEF QueueInv, PlacesInv
    <3>3. QED
      BY <1>1, <1>3, <1>4, <3>1, <3>2 DEF Inside
  <2>2. /\ W \cap TasksOf(xTasksWaitingToReceive) \subseteq Awake(Receivers)'
        /\ W \cap TasksOf(xTasksWaitingToSend) \subseteq Awake(Senders)'
    BY <1>8, <2>1, WokenAreAwake
  <2>3. Awake(Receivers) \cap W = {} /\ Awake(Senders) \cap W = {}
    BY <1>8, AwakeTasks DEF QueueInv, IsAwake
  <2>4. QED
    BY <2>2, <2>3
<1>9. /\ W \subseteq TasksOf(xTasksWaitingToReceive)
            => W \subseteq Awake(Receivers)' /\ Awake(Receivers) \cap W = {}
      /\ W \subseteq TasksOf(xTasksWaitingToSend)
            => W \subseteq Awake(Senders)' /\ Awake(Senders) \cap W = {}
  BY <1>8 DEF Waiting
<1>10. QED
  BY <1>1, <1>3, <1>5, <1>6, <1>7, <1>9

(* The task wakes a receiver, if one waits; or the one it has served, t     *)
(* itself, is gone from those awake.                                        *)
LEMMA SucceedReceivers ==
  ASSUME QueueInv, NEW t \in Tasks, Succeed(t), ListsInv', RingInv', Waiting' \subseteq Waiting,
         NEW n \in Nat, xTasksWaitingToReceive' = Rest(xTasksWaitingToReceive, n),
         TasksOf(First(xTasksWaitingToReceive, n)) \subseteq TasksOf(xTasksWaitingToReceive) \ Waiting',
         Sends(call[t]) => uxMessagesWaiting' <= uxMessagesWaiting + n,
         ~ Sends(call[t]) => uxMessagesWaiting' + 1 <= uxMessagesWaiting + n
  PROVE  ReceiversCovered'
<1> DEFINE W == TasksOf(First(xTasksWaitingToReceive, n))
<1>1. W \cap Waiting' = {} /\ W \subseteq TasksOf(xTasksWaitingToReceive)
  OBVIOUS
<1> HIDE DEF W
<1>2. /\ call[t] \in Calls
      /\ cTxLock = queueUNLOCKED /\ cTxLock' = queueUNLOCKED
      /\ Awake(Receivers) \ {t} \subseteq Awake(Receivers)'
      /\ Awake(Receivers) \in SUBSET Tasks /\ Awake(Receivers)' \in SUBSET Tasks
      /\ W \subseteq Awake(Receivers)' /\ Awake(Receivers) \cap W = {}
      /\ ~ Comes(Receivers)'
  BY <1>1, SucceedWakes
<1>3. PICK m, k \in Nat : m = uxMessagesWaiting /\ k = uxMessagesWaiting'
  <2>1. uxMessagesWaiting' \in Nat
    BY QueueAssumption DEF RingInv
  <2>2. QED
    BY <2>1, Amounts DEF QueueInv
<1>4. cTxLock' \in queueUNLOCKED .. MaxLock /\ Pended(cTxLock) = 0 /\ Pended(cTxLock') = 0
  BY <1>2 DEF QueueInv, LocksInv, Pended
<1>5. CASE Sends(call[t])
  <2>1. t \notin Awake(Receivers)
    BY <1>5 DEF Awake, Receivers, Sends
  <2>2. Awake(Receivers) \cup W \subseteq Awake(Receivers)'
    BY <1>2, <2>1
  <2>3. Cardinality(Awake(Receivers)) + 0 >= Cardinality(Awake(Receivers))
    BY <1>2, SubsetCount
  <2>4. k + 0 + 0 <= m + 0 + n
    <3>1. k <= m + n
      BY <1>3, <1>5
    <3>2. QED
      BY <3>1
  <2>4a. uxMessagesWaiting' \in Nat /\ uxMessagesWaiting' + Pended(cTxLock) + 0 <= uxMessagesWaiting + Pended(cTxLock') + n
    BY <1>3, <1>4, <2>4
  <2>5. QED
    BY <1>2, <1>4, <2>2, <2>3, <2>4a, ReceiversWoken DEF W
<1>6. CASE ~ Sends(call[t])
  <2>1. (Awake(Receivers) \ {t}) \cup W \subseteq Awake(Receivers)' /\ (Awake(Receivers) \ {t}) \cap W = {}
    BY <1>2
  <2>2. Cardinality(Awake(Receivers) \ {t}) + 1 >= Cardinality(Awake(Receivers))
    BY <1>2, LessOne
  <2>3. k + 0 + 1 <= m + 0 + n
    <3>1. k + 1 <= m + n
      BY <1>3, <1>6
    <3>2. QED
      BY <3>1
  <2>4. uxMessagesWaiting' \in Nat /\ uxMessagesWaiting' + Pended(cTxLock) + 1 <= uxMessagesWaiting + Pended(cTxLock') + n
    BY <1>3, <1>4, <2>3
  <2>5. Awake(Receivers) \ {t} \in SUBSET Tasks
    BY <1>2
  <2>6. QED
    BY <1>2, <1>4, <2>1, <2>2, <2>4, <2>5, ReceiversWoken DEF W
<1>7. QED
  BY <1>5, <1>6

LEMMA SucceedSenders ==
  ASSUME QueueInv, NEW t \in Tasks, Succeed(t), ListsInv', RingInv', Waiting' \subseteq Waiting,
         NEW n \in Nat, xTasksWaitingToSend' = Rest(xTasksWaitingToSend, n),
         TasksOf(First(xTasksWaitingToSend, n)) \subseteq TasksOf(xTasksWaitingToSend) \ Waiting',
         Sends(call[t]) => uxMessagesWaiting + 1 <= uxMessagesWaiting' + n,
         ~ Sends(call[t]) => uxMessagesWaiting <= uxMessagesWaiting' + n
  PROVE  SendersCovered'
<1> DEFINE W == TasksOf(First(xTasksWaitingToSend, n))
<1>1. W \cap Waiting' = {} /\ W \subseteq TasksOf(xTasksWaitingToSend)
  OBVIOUS
<1> HIDE DEF W
<1>2. /\ call[t] \in Calls
      /\ cRxLock = queueUNLOCKED /\ cRxLock' = queueUNLOCKED
      /\ Awake(Senders) \ {t} \subseteq Awake(Senders)'
      /\ Awake(Senders) \in SUBSET Tasks /\ Awake(Senders)' \in SUBSET Tasks
      /\ W \subseteq Awake(Senders)' /\ Awake(Senders) \cap W = {}
      /\ ~ Comes(Senders)'
  BY <1>1, SucceedWakes
<1>3. PICK m, k, L \in Nat : m = uxMessagesWaiting /\ k = uxMessagesWaiting' /\ L = uxLength /\ L - k \in Nat
  <2>1. uxMessagesWaiting' \in Nat /\ uxLength - uxMessagesWaiting' \in Nat
    <3>1. PICK k \in 0 .. uxLength : k = uxMessagesWaiting'
      BY DEF RingInv
    <3>2. k \in Nat /\ uxLength - k \in Nat
      BY QueueAssumption
    <3>3. QED
      BY <3>1, <3>2
  <2>2. QED
    BY <2>1, Amounts, QueueAssumption DEF QueueInv
<1>4. cRxLock' \in queueUNLOCKED .. MaxLock /\ Pended(cRxLock) = 0 /\ Pended(cRxLock') = 0
  BY <1>2 DEF QueueInv, LocksInv, Pended
<1>5. CASE ~ Sends(call[t])
  <2>1. t \notin Awake(Senders)
    BY <1>5 DEF Awake, Senders
  <2>2. Awake(Senders) \cup W \subseteq Awake(Senders)'
    BY <1>2, <2>1
  <2>3. Cardinality(Awake(Senders)) + 0 >= Cardinality(Awake(Senders))
    BY <1>2, SubsetCount
  <2>4. L - k + 0 + 0 <= L - m + 0 + n
    <3>1. m <= k + n
      BY <1>3, <1>5
    <3>2. QED
      BY <3>1
  <2>5. uxLength - uxMessagesWaiting' \in Nat /\ uxLength - uxMessagesWaiting' + Pended(cRxLock) + 0
           <= uxLength - uxMessagesWaiting + Pended(cRxLock') + n
    BY <1>3, <1>4, <2>4
  <2>6. QED
    BY <1>2, <1>4, <2>2, <2>3, <2>5, SendersWoken DEF W
<1>6. CASE Sends(call[t])
  <2>1. (Awake(Senders) \ {t}) \cup W \subseteq Awake(Senders)' /\ (Awake(Senders) \ {t}) \cap W = {}
    BY <1>2
  <2>2. Cardinality(Awake(Senders) \ {t}) + 1 >= Cardinality(Awake(Senders))
    BY <1>2, LessOne
  <2>3. L - k + 0 + 1 <= L - m + 0 + n
    <3>1. m + 1 <= k + n
      BY <1>3, <1>6
    <3>2. QED
      BY <3>1
  <2>4. uxLength - uxMessagesWaiting' \in Nat /\ uxLength - uxMessagesWaiting' + Pended(cRxLock) + 1
           <= uxLength - uxMessagesWaiting + Pended(cRxLock') + n
    BY <1>3, <1>4, <2>3
  <2>5. Awake(Senders) \ {t} \in SUBSET Tasks
    BY <1>2
  <2>6. QED
    BY <1>2, <1>4, <2>1, <2>2, <2>4, <2>5, SendersWoken DEF W
<1>7. QED
  BY <1>5, <1>6

LEMMA SucceedInv ==
  ASSUME QueueInv, NEW t \in Tasks, Succeed(t)
  PROVE  QueueInv'
<1>1. Possible(call[t]) /\ suspendedBy' = suspendedBy /\ call[t] \in Calls
  BY DEF Succeed, QueueInv, SchedulerInv
<1>2. PICK m \in Nat : m = uxMessagesWaiting
  BY Amounts DEF QueueInv
<1>3. CASE Sends(call[t])
  <2>1. prvCopyDataToQueue(call[t]) /\ WakeReceivers(1)
    <3>1. call[t].op # "receive" /\ call[t].op # "peek"
      BY <1>3 DEF Sends
    <3>2. QED
      BY <1>3, <3>1 DEF Succeed
  <2>2. uxMessagesWaiting < uxLength
        /\ call[t] \in [op : {"back", "front"}, item : Items, wait : {"none", "limited", "forever"}]
    BY <1>1, <1>3 DEF Possible, Calls, Sends
  <2>3. RingInv' /\ uxMessagesWaiting' = m + 1
    BY <1>2, <2>1, <2>2, CopyToQueue DEF QueueInv, prvCopyDataToQueue
  <2>4. /\ ListsInv' /\ Waiting' \subseteq Waiting /\ blocked' \subseteq blocked
        /\ xTasksWaitingToReceive' = Rest(xTasksWaitingToReceive, 1)
        /\ xTasksWaitingToSend' = xTasksWaitingToSend
        /\ TasksOf(xTasksWaitingToReceive') \subseteq TasksOf(xTasksWaitingToReceive)
        /\ TasksOf(First(xTasksWaitingToReceive, 1)) \subseteq TasksOf(xTasksWaitingToReceive) \ Waiting'
    BY <1>1, <2>1, WokenReceivers DEF QueueInv
  <2>5. ReceiversCovered'
    <3>1. uxMessagesWaiting' <= uxMessagesWaiting + 1
      BY <1>2, <2>3
    <3>2. QED
      BY <1>3, <2>3, <2>4, <3>1, SucceedReceivers
  <2>6. SendersCovered'
    <3>1. TasksOf(First(xTasksWaitingToSend, 0)) = {}
          /\ Rest(xTasksWaitingToSend, 0) = xTasksWaitingToSend
      BY FirstFacts DEF QueueInv, ListsInv
    <3>2. uxMessagesWaiting + 1 <= uxMessagesWaiting' + 0
      BY <1>2, <2>3
    <3>3. QED
      BY <1>3, <2>3, <2>4, <3>1, <3>2, SucceedSenders
  <2>7. QED
    BY <2>3, <2>4, <2>5, <2>6, SucceedFacts
<1>4. CASE call[t].op = "receive"
  <2>1. ~ Sends(call[t]) /\ uxMessagesWaiting > 0 /\ TakeFirst /\ WakeSenders(1)
    BY <1>1, <1>4 DEF Succeed, Sends, Possible
  <2>2. RingInv' /\ uxMessagesWaiting' = m - 1
    BY <1>2, <2>1, CopyFromQueue DEF QueueInv, TakeFirst
  <2>3. /\ ListsInv' /\ Waiting' \subseteq Waiting /\ blocked' \subseteq blocked
        /\ xTasksWaitingToSend' = Rest(xTasksWaitingToSend, 1)
        /\ xTasksWaitingToReceive' = xTasksWaitingToReceive
        /\ TasksOf(xTasksWaitingToSend') \subseteq TasksOf(xTasksWaitingToSend)
        /\ TasksOf(First(xTasksWaitingToSend, 1)) \subseteq TasksOf(xTasksWaitingToSend) \ Waiting'
    BY <1>1, <2>1, WokenSenders DEF QueueInv
  <2>4. SendersCovered'
    <3>1. uxMessagesWaiting <= uxMessagesWaiting' + 1
      BY <1>2, <2>2
    <3>2. QED
      BY <2>1, <2>2, <2>3, <3>1, SucceedSenders
  <2>5. ReceiversCovered'
    <3>1. TasksOf(First(xTasksWaitingToReceive, 0)) = {}
          /\ Rest(xTasksWaitingToReceive, 0) = xTasksWaitingToReceive
      BY FirstFacts DEF QueueInv, ListsInv
    <3>2. uxMessagesWaiting' + 1 <= uxMessagesWaiting + 0
      BY <1>2, <2>2
    <3>3. QED
      BY <2>1, <2>2, <2>3, <3>1, <3>2, SucceedReceivers
  <2>6. QED
    BY <2>2, <2>3, <2>4, <2>5, SucceedFacts
<1>5. CASE call[t].op = "peek"
  <2>1. ~ Sends(call[t]) /\ uxMessagesWaiting > 0 /\ LookAtFirst /\ WakeReceivers(1)
    BY <1>1, <1>5 DEF Succeed, Sends, Possible
  <2>2. RingInv' /\ uxMessagesWaiting' = m
    BY <1>2, <2>1, CopyFromQueue DEF QueueInv, LookAtFirst
  <2>3. /\ ListsInv' /\ Waiting' \subseteq Waiting /\ blocked' \subseteq blocked
        /\ xTasksWaitingToReceive' = Rest(xTasksWaitingToReceive, 1)
        /\ xTasksWaitingToSend' = xTasksWaitingToSend
        /\ TasksOf(xTasksWaitingToReceive') \subseteq TasksOf(xTasksWaitingToReceive)
        /\ TasksOf(First(xTasksWaitingToReceive, 1)) \subseteq TasksOf(xTasksWaitingToReceive) \ Waiting'
    BY <1>1, <2>1, WokenReceivers DEF QueueInv
  <2>4. ReceiversCovered'
    <3>1. uxMessagesWaiting' + 1 <= uxMessagesWaiting + 1
      BY <1>2, <2>2
    <3>2. QED
      BY <2>1, <2>2, <2>3, <3>1, SucceedReceivers
  <2>5. SendersCovered'
    <3>1. TasksOf(First(xTasksWaitingToSend, 0)) = {}
          /\ Rest(xTasksWaitingToSend, 0) = xTasksWaitingToSend
      BY FirstFacts DEF QueueInv, ListsInv
    <3>2. uxMessagesWaiting <= uxMessagesWaiting' + 0
      BY <1>2, <2>2
    <3>3. QED
      BY <2>1, <2>2, <2>3, <3>1, <3>2, SucceedSenders
  <2>6. QED
    BY <2>2, <2>3, <2>4, <2>5, SucceedFacts
<1>6. QED
  BY <1>1, <1>3, <1>4, <1>5 DEF Calls, Sends

-----------------------------------------------------------------------------
(* The theorems.                                                            *)

LEMMA QueueInitInv == Init => QueueInv
<1> SUFFICES ASSUME Init PROVE QueueInv
  OBVIOUS
<1>1. RingInv
  <2>1. uxLength \in Nat /\ uxLength # 0
    BY QueueAssumption
  <2>2. Slot(uxLength - 1, 0) = uxLength - 1 /\ After(uxLength - 1) = 0
        /\ 0 \in 0 .. uxLength /\ uxLength - 1 \in 0 .. uxLength - 1
    BY <2>1 DEF Slot, After
  <2>3. QED
    BY <2>2 DEF Init, RingInv
<1>2. SchedulerInv
  BY QueueAssumption DEF Init, SchedulerInv, Places, Inside
<1>3. LocksInv
  BY QueueAssumption DEF Init, LocksInv, queueUNLOCKED
<1>4. ListsInv
  BY DEF Init, ListsInv, Waiting, TasksOf, Distinct
<1>5. PlacesInv
  BY DEF Init, PlacesInv, TasksOf
<1>6. ~ Comes(Receivers) /\ ~ Comes(Senders)
  BY DEF Init, Comes, Receivers, Senders
<1>7. ReceiversCovered /\ SendersCovered
  BY <1>6 DEF Init, ReceiversCovered, SendersCovered, Covered
<1>8. QED
  BY <1>1, <1>2, <1>3, <1>4, <1>5, <1>7 DEF QueueInv

LEMMA QueueStepInv == QueueInv /\ [Next]_vars => QueueInv'
<1> SUFFICES ASSUME QueueInv, [Next]_vars PROVE QueueInv'
  OBVIOUS
<1>1. CASE UNCHANGED vars
  BY <1>1 DEF vars, storage, locks, lists, tasks, QueueInv, RingInv, SchedulerInv, LocksInv,
              ListsInv, Waiting, PlacesInv, Receivers, Senders, ReceiversCovered,
              SendersCovered, Covered, Pended, Comes, Awake
<1>2. ASSUME NEW t \in Tasks, NEW c \in Calls, Call(t, c) PROVE QueueInv'
  BY <1>2, CallInv
<1>3. ASSUME NEW t \in Tasks, Succeed(t) PROVE QueueInv'
  BY <1>3, SucceedInv
<1>4. ASSUME NEW t \in Tasks, Fail(t) \/ LookAgain(t) PROVE QueueInv'
  BY <1>4, FailInv
<1>5. ASSUME NEW t \in Tasks, vTaskSuspendAll(t) PROVE QueueInv'
  BY <1>5, SuspendInv
<1>6. ASSUME NEW t \in Tasks, prvLockQueue(t) PROVE QueueInv'
  BY <1>6, LockInv
<1>7. ASSUME NEW t \in Tasks, Look(t) PROVE QueueInv'
  BY <1>7, LookInv
<1>8. ASSUME NEW t \in Tasks, vTaskPlaceOnEventList(t) PROVE QueueInv'
  BY <1>8, PlaceInv
<1>9. ASSUME NEW t \in Tasks, prvUnlockQueueTx(t) PROVE QueueInv'
  BY <1>9, UnlockTxInv
<1>10. ASSUME NEW t \in Tasks, prvUnlockQueueRx(t) PROVE QueueInv'
  BY <1>10, UnlockRxInv
<1>11. ASSUME NEW t \in Tasks, xTaskResumeAll(t) PROVE QueueInv'
  BY <1>11, ResumeAllInv
<1>12. ASSUME NEW t \in Tasks, BlockTimeOver(t) PROVE QueueInv'
  BY <1>12, BlockTimeOverInv
<1>13. ASSUME NEW i \in Items, xQueueGenericSendFromISR(i) PROVE QueueInv'
  BY <1>13, SendFromISRInv
<1>14. CASE xQueueReceiveFromISR
  BY <1>14, ReceiveFromISRInv
<1>15. QED
  BY <1>1, <1>2, <1>3, <1>4, <1>5, <1>6, <1>7, <1>8, <1>9, <1>10, <1>11, <1>12,
     <1>13, <1>14 DEF Next

(* The scheduler, the locks, the lists and the ring agree with each other,  *)
(* and the tasks that wait, or are about to, are covered.                   *)
THEOREM QueueInvariant == Spec => []QueueInv
<1>1. QED
  BY QueueInitInv, QueueStepInv, PTL DEF Spec

(* While tasks wait for items, there is a task that was woken and will try  *)
(* before it sleeps for each item that is in the queue, and likewise for    *)
(* the places: xQueueGenericSend, xQueueReceive and xQueuePeek, the two     *)
(* critical sections of prvUnlockQueue, and the calls from interrupts       *)
(* between them.                                                            *)
THEOREM QueueNoLostWakeup == Spec => []NoLostWakeup
<1>1. QueueInv => NoLostWakeup
  <2> SUFFICES ASSUME QueueInv PROVE NoLostWakeup
    OBVIOUS
  <2>1. TypeOK
    <3>1. pcWriteTo \in 0 .. uxLength - 1
      <4>1. PICK r \in 0 .. uxLength - 1, m \in 0 .. uxLength : r = pcReadFrom /\ m = uxMessagesWaiting
        BY DEF QueueInv, RingInv
      <4>2. uxLength \in Nat \ {0}
        BY QueueAssumption
      <4>3. Slot(r, m) \in 0 .. uxLength - 1
        BY <4>2 DEF Slot
      <4>4. \A s \in 0 .. uxLength - 1 : After(s) \in 0 .. uxLength - 1
        BY <4>2 DEF After
      <4>5. QED
        BY <4>1, <4>3, <4>4 DEF QueueInv, RingInv
    <3>2. QED
      BY <3>1 DEF TypeOK, QueueInv, RingInv, SchedulerInv, LocksInv, ListsInv
  <2>2. ASSUME cTxLock = queueUNLOCKED, xTasksWaitingToReceive # <<>>
        PROVE  uxMessagesWaiting <= Cardinality(Awake(Receivers))
    <3>1. uxMessagesWaiting <= Cardinality(Awake(Receivers)) + 0
      BY <2>2 DEF QueueInv, ReceiversCovered, Covered, Pended
    <3>2. PICK a, m \in Int : a = Cardinality(Awake(Receivers)) /\ m = uxMessagesWaiting
      <4>1. Awake(Receivers) \in SUBSET Tasks
        BY DEF Awake, Receivers
      <4>2. QED
        BY <4>1, SubsetCount, Amounts DEF QueueInv
    <3>3. m <= a
      BY <3>1, <3>2
    <3>4. QED
      BY <3>2, <3>3
  <2>3. ASSUME cRxLock = queueUNLOCKED, xTasksWaitingToSend # <<>>
        PROVE  uxLength - uxMessagesWaiting <= Cardinality(Awake(Senders))
    <3>1. uxLength - uxMessagesWaiting <= Cardinality(Awake(Senders)) + 0
      BY <2>3 DEF QueueInv, SendersCovered, Covered, Pended
    <3>2. PICK a, m \in Int : a = Cardinality(Awake(Senders)) /\ m = uxLength - uxMessagesWaiting
      <4>1. Awake(Senders) \in SUBSET Tasks
        BY DEF Awake, Senders
      <4>2. QED
        BY <4>1, SubsetCount, Amounts DEF QueueInv
    <3>3. m <= a
      BY <3>1, <3>2
    <3>4. QED
      BY <3>2, <3>3
  <2>4. QED
    BY <2>1, <2>2, <2>3 DEF NoLostWakeup, Receivers, Senders
<1>2. QED
  BY <1>1, QueueInvariant, PTL

(* Each step is a step of the bounded queue, or changes nothing of it. *)
LEMMA QueueStepImplements ==
  QueueInv /\ [Next]_vars => [Queue!Next]_<<Contents, pvBuffer>>
<1> SUFFICES ASSUME QueueInv, [Next]_vars PROVE [Queue!Next]_<<Contents, pvBuffer>>
  OBVIOUS
<1>1. UNCHANGED storage => UNCHANGED <<Contents, pvBuffer>>
  BY DEF storage, Contents
<1>2. ASSUME NEW t \in Tasks, Succeed(t) PROVE Queue!Next
  <2>1. Possible(call[t]) /\ call[t] \in Calls
    BY <1>2 DEF Succeed, QueueInv, SchedulerInv
  <2>2. CASE Sends(call[t])
    <3>1. prvCopyDataToQueue(call[t]) /\ uxMessagesWaiting < uxLength
          /\ call[t] \in [op : {"back", "front"}, item : Items, wait : {"none", "limited", "forever"}]
      BY <1>2, <2>1, <2>2 DEF Succeed, Possible, Calls, Sends
    <3>2. \/ Queue!SendToBack(call[t].item)
          \/ Queue!SendToFront(call[t].item)
      BY <3>1, CopyToQueue DEF QueueInv
    <3>3. QED
      BY <3>1, <3>2 DEF Queue!Next
  <2>3. CASE call[t].op = "receive"
    <3>1. uxMessagesWaiting > 0 /\ TakeFirst
      BY <1>2, <2>1, <2>3 DEF Succeed, Possible, Sends
    <3>2. QED
      BY <3>1, CopyFromQueue DEF QueueInv, Queue!Next
  <2>4. CASE call[t].op = "peek"
    <3>1. uxMessagesWaiting > 0 /\ LookAtFirst
      BY <1>2, <2>1, <2>4 DEF Succeed, Possible, Sends
    <3>2. QED
      BY <3>1, CopyFromQueue DEF QueueInv, Queue!Next
  <2>5. QED
    BY <2>1, <2>2, <2>3, <2>4 DEF Calls, Sends
<1>3. ASSUME NEW i \in Items, xQueueGenericSendFromISR(i) PROVE Queue!Next
  <2> DEFINE c == [op |-> "back", item |-> i, wait |-> "none"]
  <2>1. uxMessagesWaiting < uxLength /\ prvCopyDataToQueue(c) /\ c.op = "back" /\ c.item = i
        /\ c \in [op : {"back", "front"}, item : Items, wait : {"none", "limited", "forever"}]
    BY <1>3 DEF xQueueGenericSendFromISR
  <2> HIDE DEF c
  <2>2. Queue!SendToBack(i)
    BY <2>1, CopyToQueue DEF QueueInv
  <2>3. QED
    BY <2>2 DEF Queue!Next
<1>4. CASE xQueueReceiveFromISR
  BY <1>4, CopyFromQueue DEF xQueueReceiveFromISR, QueueInv, Queue!Next
<1>5. CASE UNCHANGED vars
  BY <1>1, <1>5 DEF vars
<1>6. ASSUME NEW t \in Tasks,
             \/ \E c \in Calls : Call(t, c)
             \/ Fail(t) \/ vTaskSuspendAll(t) \/ prvLockQueue(t) \/ Look(t)
             \/ vTaskPlaceOnEventList(t) \/ prvUnlockQueueTx(t) \/ prvUnlockQueueRx(t)
             \/ xTaskResumeAll(t) \/ LookAgain(t) \/ BlockTimeOver(t)
      PROVE UNCHANGED storage
  BY <1>6 DEF Call, Fail, vTaskSuspendAll, prvLockQueue, Look, vTaskPlaceOnEventList,
              prvUnlockQueueTx, prvUnlockQueueRx, xTaskResumeAll, LookAgain, BlockTimeOver
<1>7. QED
  BY <1>1, <1>2, <1>3, <1>4, <1>5, <1>6 DEF Next

(* The ring of pcStorage, with its read and write positions and the count,  *)
(* is a bounded queue of items, whoever calls: prvCopyDataToQueue and       *)
(* prvCopyDataFromQueue put and take in order, at the end that was asked    *)
(* for, and neither overwrite an item nor take one twice.                   *)
THEOREM QueueImplementsBounded == Spec => QueueSpec
<1>1. Init => Queue!Init
  <2> SUFFICES ASSUME Init PROVE Queue!Init
    OBVIOUS
  <2>1. RingInv /\ uxMessagesWaiting = 0
    BY QueueInitInv DEF Init, QueueInv
  <2>2. Contents \in Seq(Items \cup {NoItem}) /\ Len(Contents) = 0
    BY <2>1, ContentsFacts
  <2>3. Contents = <<>>
    BY <2>2
  <2>4. QED
    BY <2>3 DEF Init, Queue!Init
<1>2. QED
  BY <1>1, QueueStepImplements, QueueInvariant, PTL DEF Spec, QueueSpec, Queue!Spec
=============================================================================
