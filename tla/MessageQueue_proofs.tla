------------------------ MODULE MessageQueue_proofs ------------------------
(***************************************************************************)
(* Proofs about the upload path, for any capacity, faults, kinds and       *)
(* numbers of messages and restarts.                                       *)
(***************************************************************************)
EXTENDS MessageQueue, SequenceTheorems, FiniteSetTheorems, TLAPS

Elements(q) == {q[i] : i \in DOMAIN q}

\* No message is in the queue twice.
Distinct(q) == \A i, j \in DOMAIN q : q[i] = q[j] => i = j

LEMMA AppendElements ==
    ASSUME NEW S, NEW q \in Seq(S), NEW m \in S
    PROVE  /\ Append(q, m) \in Seq(S)
           /\ Elements(Append(q, m)) = Elements(q) \cup {m}
           /\ Distinct(q) /\ m \notin Elements(q) => Distinct(Append(q, m))
<1> DEFINE r == Append(q, m)
           n == Len(q)
<1>1. /\ r \in Seq(S)
      /\ DOMAIN r = 1 .. n + 1
      /\ DOMAIN q = 1 .. n
      /\ n \in Nat
      /\ \A j \in 1 .. n : r[j] = q[j]
      /\ r[n + 1] = m
  BY AppendProperties
<1> HIDE DEF r, n
<1>2. \A j \in DOMAIN r : \/ j \in DOMAIN q /\ r[j] = q[j]
                          \/ j = n + 1 /\ r[j] = m
  BY <1>1
<1>3. \A j \in DOMAIN q : j \in DOMAIN r /\ r[j] = q[j]
  BY <1>1
<1>4. n + 1 \in DOMAIN r /\ r[n + 1] = m
  BY <1>1
<1>5. Elements(r) = Elements(q) \cup {m}
  BY <1>2, <1>3, <1>4 DEF Elements
<1>6. ASSUME Distinct(q), m \notin Elements(q) PROVE Distinct(r)
  <2>1. \A j \in DOMAIN q : q[j] # m
    BY <1>6 DEF Elements
  <2> QED
    BY <1>2, <1>6, <2>1 DEF Distinct
<1> QED
  BY <1>1, <1>5, <1>6 DEF r

LEMMA TailElements ==
    ASSUME NEW S, NEW q \in Seq(S), q # <<>>
    PROVE  /\ Head(q) \in S
           /\ Tail(q) \in Seq(S)
           /\ Elements(q) = Elements(Tail(q)) \cup {Head(q)}
           /\ Distinct(q) => /\ Distinct(Tail(q))
                             /\ Head(q) \notin Elements(Tail(q))
<1>1. /\ Head(q) \in S /\ Tail(q) \in Seq(S)
      /\ Len(q) \in Nat /\ Len(q) > 0
      /\ DOMAIN q = 1 .. Len(q)
      /\ Head(q) = q[1]
      /\ DOMAIN Tail(q) = 1 .. Len(q) - 1
      /\ \A i \in 1 .. Len(q) - 1 : Tail(q)[i] = q[i + 1]
  BY EmptySeq, HeadTailProperties
<1> DEFINE t == Tail(q)
<1>2. \A i \in DOMAIN t : i + 1 \in DOMAIN q /\ t[i] = q[i + 1] /\ i + 1 # 1
                          /\ i \in Nat
  BY <1>1
<1>3. \A j \in DOMAIN q : j = 1 \/ (j - 1 \in DOMAIN t /\ t[j - 1] = q[j])
  BY <1>1
<1>4. 1 \in DOMAIN q /\ q[1] = Head(q)
  BY <1>1
<1> HIDE DEF t
<1>5. Elements(q) = Elements(t) \cup {Head(q)}
  BY <1>2, <1>3, <1>4 DEF Elements
<1>6. ASSUME Distinct(q) PROVE Distinct(t) /\ Head(q) \notin Elements(t)
  <2>1. Distinct(t)
    BY <1>2, <1>6 DEF Distinct
  <2>2. Head(q) \notin Elements(t)
    BY <1>2, <1>4, <1>6 DEF Distinct, Elements
  <2> QED
    BY <2>1, <2>2
<1> QED
  BY <1>1, <1>5, <1>6 DEF t

\* A sequence without repetitions has as many elements as places.
LEMMA DistinctLength ==
    ASSUME NEW S, NEW q \in Seq(S), Distinct(q)
    PROVE  Cardinality(Elements(q)) = Len(q)
<1>1. DOMAIN q = 1 .. Len(q) /\ Len(q) \in Nat
      /\ q \in [1 .. Len(q) -> S]
  BY LenProperties
<1>2. q \in Bijection(1 .. Len(q), Elements(q))
  BY <1>1 DEF Bijection, Injection, Surjection, Elements, Distinct,
              IsInjective
<1>3. ExistsBijection(1 .. Len(q), Elements(q))
  BY <1>2 DEF ExistsBijection
<1>4. IsFiniteSet(1 .. Len(q)) /\ Cardinality(1 .. Len(q)) = Len(q)
  BY <1>1, FS_Interval
<1> QED
  BY <1>3, <1>4, FS_Bijection

-----------------------------------------------------------------------------
\* What wait_and_pop does with the queue it finds.
LEMMA TakeSets ==
    ASSUME NEW q \in Seq(Messages), Take(q), data = {}
    PROVE  /\ mQueue' \in Seq(Messages)
           /\ \/ uploader' = "wait" /\ data' = {}
              \/ uploader' = "upload" /\ \E m \in Messages : data' = {m}
           /\ Elements(mQueue') \cup data' = Elements(q)
           /\ Distinct(q) => /\ Distinct(mQueue')
                             /\ data' \cap Elements(mQueue') = {}
<1>1. CASE q = <<>>
  BY <1>1 DEF Take
<1>2. CASE q # <<>>
  <2>1. uploader' = "upload" /\ data' = {Head(q)} /\ mQueue' = Tail(q)
    BY <1>2 DEF Take
  <2>2. /\ Head(q) \in Messages /\ Tail(q) \in Seq(Messages)
        /\ Elements(q) = Elements(Tail(q)) \cup {Head(q)}
        /\ Distinct(q) => /\ Distinct(Tail(q))
                          /\ Head(q) \notin Elements(Tail(q))
    BY <1>2, TailElements
  <2> QED
    BY <2>1, <2>2
<1> QED
  BY <1>1, <1>2

\* Where the uploader is, and whether it has a message.
DataInv ==
    /\ uploader \in {"pop", "wait", "woken"} => data = {}
    /\ uploader \in {"upload", "sleep"} => \E m \in Messages : data = {m}

LEMMA QueueTypes ==
    ASSUME TypeOK
    PROVE  InQueue = Elements(mQueue) /\ Received = Elements(delivered)
           /\ InQueue \subseteq Messages /\ Received \subseteq Messages
<1>1. mQueue \in Seq(Messages) /\ delivered \in Seq(Messages)
  BY DEF TypeOK
<1> QED
  BY <1>1 DEF InQueue, Received, Elements

\* Queue, folder, uploader and their counters keep their types
\* (MessageQueue::push, wait_and_pop, ServerNetworkHandler::run), and the
\* uploader has a message exactly while it uploads or waits to try again.
THEOREM TypeCorrect == Spec => [](TypeOK /\ DataInv)
<1>1. Init => TypeOK /\ DataInv
  BY MessageQueueAssumption, EmptySeq DEF Init, TypeOK, DataInv
<1>2. TypeOK /\ DataInv /\ [Next]_vars => TypeOK' /\ DataInv'
  <2> SUFFICES ASSUME TypeOK, DataInv, [Next]_vars
               PROVE  TypeOK' /\ DataInv'
    OBVIOUS
  <2> USE MessageQueueAssumption
  <2>1. ASSUME NEW m \in Messages, Push(m) PROVE TypeOK' /\ DataInv'
    <3>1. /\ mQueue' \in Seq(Messages)
          /\ mNumStoredData' \in Nat
          /\ files' \subseteq Messages /\ lost' \subseteq Messages
          /\ overflowed' \subseteq Messages
      <4>1. CASE Enqueue(m)
        BY <4>1, AppendElements DEF Enqueue, TypeOK
      <4>2. CASE Overflow(m)
        BY <4>2 DEF Overflow, Store, StoreSameName, StoreNothing, StoreFails,
                      TypeOK
      <4> QED
        BY <2>1, <4>1, <4>2 DEF Push
    <3>2. /\ produced' \in 0..MaxMessages
          /\ UNCHANGED <<data, delivered, restarts>>
      BY <2>1 DEF Push, TypeOK
    <3>3. /\ uploader' \in {"pop", "wait", "woken", "upload", "sleep"}
          /\ \/ uploader' = uploader
             \/ uploader = "wait" /\ uploader' = "woken"
      <4>1. NotifyOne
        BY <2>1 DEF Push
      <4>2. uploader \in {"pop", "wait", "woken", "upload", "sleep"}
        BY DEF TypeOK
      <4> QED
        BY <4>1, <4>2 DEF NotifyOne
    <3>4. TypeOK'
      BY <3>1, <3>2, <3>3 DEF TypeOK
    <3> QED
      BY <3>2, <3>3, <3>4 DEF DataInv
  <2>2. ASSUME NEW m \in files, PopLoading(m) PROVE TypeOK' /\ DataInv'
    <3>1. /\ data = {} /\ mQueue \in Seq(Messages) /\ m \in Messages
          /\ mNumStoredData' \in Nat
      BY <2>2 DEF PopLoading, MayLoad, DataInv, TypeOK
    <3>2. Append(mQueue, m) \in Seq(Messages) /\ Take(Append(mQueue, m))
      BY <2>2, <3>1, AppendElements DEF PopLoading
    <3> HIDE DEF MayLoad
    <3> QED
      BY <2>2, <3>1, <3>2, TakeSets DEF PopLoading, TypeOK, DataInv
  <2>3. CASE PopOnly \/ Wake
    <3>1. data = {} /\ mQueue \in Seq(Messages) /\ Take(mQueue)
      BY <2>3 DEF PopOnly, Wake, DataInv, TypeOK
    <3> QED
      BY <2>3, <3>1, TakeSets DEF PopOnly, Wake, TypeOK, DataInv
  <2>4. CASE SpuriousWake \/ UploadFails \/ Retry
    BY <2>4 DEF SpuriousWake, UploadFails, Retry, TypeOK, DataInv
  <2>5. CASE UploadSucceeds \/ ReplyLost
    <3>1. PICK m \in Messages : delivered' = Append(delivered, m)
      BY <2>5 DEF UploadSucceeds, ReplyLost, TypeOK
    <3>2. delivered' \in Seq(Messages)
      BY <3>1, AppendElements DEF TypeOK
    <3> QED
      BY <2>5, <3>2 DEF UploadSucceeds, ReplyLost, TypeOK, DataInv
  <2>6. CASE Restart
    <3>1. lost' \subseteq Messages
      BY <2>6, QueueTypes DEF Restart, TypeOK
    <3>2. <<>> \in Seq(Messages)
      BY EmptySeq
    <3> QED
      BY <2>6, <3>1, <3>2 DEF Restart, TypeOK, DataInv
  <2>7. CASE UNCHANGED vars
    BY <2>7 DEF vars, TypeOK, DataInv
  <2> QED
    BY <2>1, <2>2, <2>3, <2>4, <2>5, <2>6, <2>7 DEF Next, Pop
<1> QED
  BY <1>1, <1>2, PTL DEF Spec

-----------------------------------------------------------------------------
\* The inductive invariant behind Accounted: the messages are where they are
\* only once, the queue repeats none, what the server has is neither in the
\* queue nor in the folder any more, and their numbers are those pushed.
Anywhere == InQueue \cup files \cup data \cup Received

PlacesInv ==
    /\ Distinct(mQueue)
    /\ files \cap InQueue = {}
    /\ data \cap (InQueue \cup files) = {}
    /\ Received \cap (InQueue \cup files) = {}
    /\ lost \cap Anywhere = {}
    /\ {m.id : m \in Anywhere \cup lost} = 1..produced

\* A step that keeps the messages where they are, or moves them on.
LEMMA MovedOn ==
    ASSUME PlacesInv, Distinct(mQueue)',
           (files \cap InQueue)' = {},
           (data \cap (InQueue \cup files))' = {},
           (Received \cap (InQueue \cup files))' = {},
           (Anywhere \cup lost)' = Anywhere \cup lost,
           (lost \cap Anywhere)' = {},
           produced' = produced
    PROVE  PlacesInv'
BY DEF PlacesInv

\* push: the next number, which no message has yet.
LEMMA PushIsNew ==
    ASSUME TypeOK, PlacesInv, NEW m \in Messages, Push(m)
    PROVE  m \notin Anywhere \cup lost
<1>1. m.id = produced + 1 /\ produced \in Nat
  BY MessageQueueAssumption DEF Push, TypeOK
<1>2. produced + 1 \notin 1..produced
  BY <1>1
<1> QED
  BY <1>1, <1>2 DEF PlacesInv

\* A new number, in one place.
LEMMA PushPlaces ==
    ASSUME TypeOK, TypeOK', PlacesInv, NEW m \in Messages, Push(m)
    PROVE  PlacesInv'
<1>1. /\ m.id = produced + 1 /\ produced' = produced + 1
      /\ UNCHANGED <<data, delivered>>
      /\ Enqueue(m) \/ Overflow(m)
  BY DEF Push
<1>2. produced \in Nat
  BY MessageQueueAssumption DEF TypeOK
<1>3. m \notin Anywhere \cup lost
  BY PushIsNew
<1>4. Received' = Received
  BY <1>1 DEF Received
<1>5. /\ Distinct(mQueue)'
      /\ \/ InQueue' = InQueue \cup {m} /\ UNCHANGED <<files, lost>>
         \/ InQueue' = InQueue /\ files' = files \cup {m} /\ lost' = lost
         \/ /\ InQueue' = InQueue
            /\ \E f \in files : /\ files' = (files \ {f}) \cup {m}
                                /\ lost' = lost \cup {f}
         \/ InQueue' = InQueue /\ files' = files /\ lost' = lost \cup {m}
  <2>1. InQueue = Elements(mQueue) /\ InQueue' = Elements(mQueue')
    BY DEF InQueue, Elements
  <2>2. CASE Enqueue(m)
    <3>1. mQueue \in Seq(Messages) /\ m \notin Elements(mQueue)
      BY <1>3, <2>1 DEF TypeOK, Anywhere
    <3>2. /\ Elements(mQueue') = Elements(mQueue) \cup {m}
          /\ Distinct(mQueue')
      BY <2>2, <3>1, AppendElements DEF Enqueue, PlacesInv
    <3> QED
      BY <2>1, <2>2, <3>2 DEF Enqueue
  <2>3. CASE Overflow(m)
    BY <2>1, <2>3
       DEF Overflow, Store, StoreSameName, StoreNothing, StoreFails,
           PlacesInv, Distinct
  <2> QED
    BY <1>1, <2>2, <2>3
<1>6. (Anywhere \cup lost)' = Anywhere \cup lost \cup {m}
  BY <1>1, <1>4, <1>5 DEF Anywhere
<1>7. {n.id : n \in (Anywhere \cup lost)'} = 1..produced'
  <2>1. 1..(produced + 1) = 1..produced \cup {produced + 1}
    BY <1>2
  <2> QED
    BY <1>1, <1>6, <2>1 DEF PlacesInv
<1>8. /\ files' \cap InQueue' = {}
      /\ data' \cap (InQueue' \cup files') = {}
      /\ Received' \cap (InQueue' \cup files') = {}
      /\ lost' \cap Anywhere' = {}
  <2> USE DEF PlacesInv, Anywhere
  <2>1. CASE InQueue' = InQueue \cup {m} /\ UNCHANGED <<files, lost>>
    BY <1>1, <1>3, <1>4, <2>1
  <2>2. CASE InQueue' = InQueue /\ files' \subseteq files \cup {m}
    <3>1. CASE \/ lost' = lost
               \/ files' = files /\ lost' = lost \cup {m}
      BY <1>1, <1>3, <1>4, <2>2, <3>1
    <3>2. ASSUME NEW f \in files, files' = (files \ {f}) \cup {m},
                 lost' = lost \cup {f}
          PROVE  lost' \cap Anywhere' = {}
      BY <1>1, <1>3, <1>4, <2>2, <3>2
    <3> QED
      BY <1>1, <1>3, <1>4, <1>5, <2>2, <3>1, <3>2
  <2> QED
    BY <1>5, <2>1, <2>2
<1> QED
  BY <1>5, <1>7, <1>8 DEF PlacesInv

\* wait_and_pop: from the queue q, which may end in a loaded message, to the
\* uploader.
LEMMA TakePlaces ==
    ASSUME TypeOK, PlacesInv, data = {}, NEW q \in Seq(Messages), Take(q),
           Distinct(q), UNCHANGED <<delivered, lost, produced>>,
           Elements(q) \cup files' = InQueue \cup files,
           Elements(q) \cap files' = {}
    PROVE  PlacesInv'
<1>1. /\ Elements(mQueue') \cup data' = Elements(q)
      /\ Distinct(mQueue')
      /\ data' \cap Elements(mQueue') = {}
  BY TakeSets
<1>2. InQueue' = Elements(mQueue') /\ Received' = Received
  BY DEF InQueue, Received, Elements
<1>3. /\ files' \cap InQueue' = {}
      /\ data' \cap (InQueue' \cup files') = {}
      /\ Received' \cap (InQueue' \cup files') = {}
  BY <1>1, <1>2 DEF PlacesInv
<1>4. Anywhere' = Anywhere
  BY <1>1, <1>2 DEF Anywhere
<1> QED
  BY <1>1, <1>3, <1>4, MovedOn DEF PlacesInv

LEMMA PopPlaces ==
    ASSUME TypeOK, DataInv, PlacesInv, Pop \/ Wake
    PROVE  PlacesInv'
<1>1. data = {} /\ mQueue \in Seq(Messages) /\ InQueue = Elements(mQueue)
  BY QueueTypes DEF Pop, PopOnly, PopLoading, Wake, DataInv, TypeOK
<1>2. CASE PopOnly \/ Wake
  <2>1. Take(mQueue) /\ UNCHANGED <<files, delivered, lost, produced>>
    BY <1>2 DEF PopOnly, Wake
  <2>2. Distinct(mQueue) /\ Elements(mQueue) \cap files' = {}
    BY <1>1, <2>1 DEF PlacesInv
  <2> QED
    BY <1>1, <2>1, <2>2, TakePlaces
<1>3. ASSUME NEW m \in files, PopLoading(m) PROVE PlacesInv'
  <2> DEFINE q == Append(mQueue, m)
  <2>1. /\ Take(q) /\ UNCHANGED <<delivered, lost, produced>>
        /\ files' = files \ {m}
    BY <1>3 DEF PopLoading
  <2>2. m \in Messages /\ m \notin InQueue /\ files \cap InQueue = {}
    BY <1>3 DEF TypeOK, PlacesInv
  <2>3. /\ q \in Seq(Messages) /\ Elements(q) = InQueue \cup {m}
        /\ Distinct(q)
    BY <1>1, <2>2, AppendElements DEF PlacesInv
  <2> HIDE DEF q
  <2>4. /\ Elements(q) \cup files' = InQueue \cup files
        /\ Elements(q) \cap files' = {}
    BY <2>1, <2>2, <2>3
  <2> QED
    BY <1>1, <2>1, <2>3, <2>4, TakePlaces
<1> QED
  BY <1>2, <1>3 DEF Pop

\* The server has the message that was being uploaded.
LEMMA ReceivedAdds ==
    ASSUME TypeOK, NEW m \in Messages, delivered' = Append(delivered, m)
    PROVE  Received' = Received \cup {m}
<1>1. delivered \in Seq(Messages)
  BY DEF TypeOK
<1>2. Elements(delivered') = Elements(delivered) \cup {m}
  BY <1>1, AppendElements
<1> QED
  BY <1>2 DEF Received, Elements

LEMMA UploadPlaces ==
    ASSUME TypeOK, DataInv, PlacesInv, UploadSucceeds \/ ReplyLost
    PROVE  PlacesInv'
<1>1. PICK m \in Messages : data = {m}
  BY DEF UploadSucceeds, ReplyLost, DataInv
<1>2. /\ delivered' = Append(delivered, m)
      /\ data' \subseteq data
      /\ UNCHANGED <<mQueue, files, lost, produced>>
  BY <1>1 DEF UploadSucceeds, ReplyLost
<1>3. Received' = Received \cup {m} /\ InQueue' = InQueue
  BY <1>2, ReceivedAdds DEF InQueue
<1>4. Anywhere' = Anywhere
  BY <1>1, <1>2, <1>3 DEF Anywhere
<1>5. Distinct(mQueue)'
  BY <1>2 DEF PlacesInv, Distinct
<1>6. (Received \cap (InQueue \cup files))' = {}
  BY <1>1, <1>2, <1>3 DEF PlacesInv
<1> QED
  BY <1>2, <1>3, <1>4, <1>5, <1>6, MovedOn DEF PlacesInv

\* A restart loses what was in memory only.
LEMMA RestartPlaces ==
    ASSUME TypeOK, PlacesInv, Restart
    PROVE  PlacesInv'
<1>1. /\ mQueue' = <<>> /\ data' = {}
      /\ lost' = lost \cup ((InQueue \cup data) \ Received)
      /\ UNCHANGED <<files, delivered, produced>>
  BY DEF Restart
<1>2. InQueue' = {} /\ Received' = Received
  BY <1>1 DEF InQueue, Received
<1>3. Distinct(mQueue)'
  BY <1>1 DEF Distinct
<1>4. (Anywhere \cup lost)' = Anywhere \cup lost
  BY <1>1, <1>2 DEF Anywhere
<1>5. (lost \cap Anywhere)' = {}
  BY <1>1, <1>2 DEF PlacesInv, Anywhere
<1>6. (Received \cap (InQueue \cup files))' = {}
  BY <1>1, <1>2 DEF PlacesInv
<1> QED
  BY <1>1, <1>2, <1>3, <1>4, <1>5, <1>6, MovedOn DEF PlacesInv

\* The messages are in one place each, whatever fails and whenever the
\* program is restarted.
THEOREM PlacesCorrect == Spec => []PlacesInv
<1>1. Init => PlacesInv
  <2> SUFFICES ASSUME Init PROVE PlacesInv
    OBVIOUS
  <2>1. /\ InQueue = {} /\ Received = {} /\ files = {} /\ data = {}
        /\ lost = {} /\ produced = 0
    BY DEF Init, InQueue, Received
  <2>2. Anywhere = {}
    BY <2>1 DEF Anywhere
  <2>3. Distinct(mQueue)
    BY DEF Init, Distinct
  <2>4. 1..produced = {}
    BY <2>1
  <2> QED
    BY <2>1, <2>2, <2>3, <2>4 DEF PlacesInv
<1>2. TypeOK /\ TypeOK' /\ DataInv /\ PlacesInv /\ [Next]_vars => PlacesInv'
  <2> SUFFICES ASSUME TypeOK, TypeOK', DataInv, PlacesInv, [Next]_vars
               PROVE  PlacesInv'
    OBVIOUS
  <2>1. ASSUME NEW m \in Messages, Push(m) PROVE PlacesInv'
    BY <2>1, PushPlaces
  <2>2. CASE Pop \/ Wake
    BY <2>2, PopPlaces
  <2>3. CASE UploadSucceeds \/ ReplyLost
    BY <2>3, UploadPlaces
  <2>4. CASE Restart
    BY <2>4, RestartPlaces
  <2>5. CASE SpuriousWake \/ UploadFails \/ Retry \/ UNCHANGED vars
    <3>1. UNCHANGED <<mQueue, files, data, delivered, lost, produced>>
      BY <2>5 DEF SpuriousWake, UploadFails, Retry, vars
    <3> QED
      BY <3>1 DEF PlacesInv, Distinct, Anywhere, InQueue, Received
  <2> QED
    BY <2>1, <2>2, <2>3, <2>4, <2>5 DEF Next
<1>3. Spec => [](TypeOK /\ DataInv)
  BY TypeCorrect
<1> QED
  BY <1>1, <1>2, <1>3, PTL DEF Spec

\* Every message that was pushed is in the queue, in the folder, being
\* uploaded, at the server, or lost, and the sensor keeps it only once.
THEOREM AccountedCorrect == Spec => []Accounted
<1>1. TypeOK /\ PlacesInv => Accounted
  <2> SUFFICES ASSUME TypeOK, PlacesInv PROVE Accounted
    OBVIOUS
  <2>1. mQueue \in Seq(Messages) /\ InQueue = Elements(mQueue)
    BY QueueTypes DEF TypeOK
  <2>2. Cardinality(InQueue) = Len(mQueue)
    BY <2>1, DistinctLength DEF PlacesInv
  <2>3. Anywhere \cup lost
          = InQueue \cup files \cup data \cup Received \cup lost
    BY DEF Anywhere
  <2> QED
    BY <2>2, <2>3 DEF PlacesInv, Accounted, Anywhere
<1>2. Spec => []PlacesInv
  BY PlacesCorrect
<1>3. Spec => [](TypeOK /\ DataInv)
  BY TypeCorrect
<1> QED
  BY <1>1, <1>2, <1>3, PTL

-----------------------------------------------------------------------------
\* No restart, no disk error, no two equal file names, and only messages that
\* save() stores.
Lossless ==
    /\ Kinds \subseteq {"update"}
    /\ Faults \cap {"saveFails", "sameName", "removeFails", "restart"} = {}

Sensor == InQueue \cup files \cup data

Pending == {m.id : m \in Sensor}
AtServer == {m.id : m \in Received}

\* With one kind of messages the number tells which message it is.
LEMMA OneNumber ==
    ASSUME Lossless, NEW m \in Messages, NEW n \in Messages, m.id = n.id
    PROVE  m = n
<1>1. m.kind = "update" /\ n.kind = "update"
  BY DEF Lossless, Messages
<1>2. /\ m = [id |-> m.id, kind |-> m.kind]
      /\ n = [id |-> n.id, kind |-> n.kind]
  BY DEF Messages
<1> QED
  BY <1>1, <1>2

\* wait_and_pop moves messages inside the sensor.
LEMMA PopKeepsSensor ==
    ASSUME TypeOK, DataInv, Pop \/ Wake
    PROVE  Sensor' = Sensor /\ Received' = Received
<1>1. data = {} /\ mQueue \in Seq(Messages) /\ InQueue = Elements(mQueue)
  BY QueueTypes DEF Pop, PopOnly, PopLoading, Wake, DataInv, TypeOK
<1>2. InQueue' = Elements(mQueue')
  BY DEF InQueue, Elements
<1>3. CASE PopOnly \/ Wake
  <2>1. Take(mQueue) /\ files' = files /\ delivered' = delivered
    BY <1>3 DEF PopOnly, Wake
  <2>2. Elements(mQueue') \cup data' = Elements(mQueue)
    BY <1>1, <2>1, TakeSets
  <2> QED
    BY <1>1, <1>2, <2>1, <2>2 DEF Sensor, Received
<1>4. ASSUME NEW m \in files, PopLoading(m)
      PROVE  Sensor' = Sensor /\ Received' = Received
  <2> DEFINE q == Append(mQueue, m)
  <2>1. /\ Take(q) /\ files' = files \ {m} /\ delivered' = delivered
        /\ m \in Messages
    BY <1>4 DEF PopLoading, TypeOK
  <2>2. q \in Seq(Messages) /\ Elements(q) = InQueue \cup {m}
    BY <1>1, <2>1, AppendElements
  <2> HIDE DEF q
  <2>3. Elements(mQueue') \cup data' = Elements(q)
    BY <1>1, <2>1, <2>2, TakeSets
  <2> QED
    BY <1>1, <1>2, <1>4, <2>1, <2>2, <2>3 DEF Sensor, Received
<1> QED
  BY <1>3, <1>4 DEF Pop

\* push: a message that no one has is taken.
LEMMA PushSubmits ==
    ASSUME Lossless, TypeOK, PlacesInv, NEW m \in Messages, Push(m)
    PROVE  Path!Submit(m.id)
<1>1. /\ m.id = produced + 1
      /\ Enqueue(m) \/ Overflow(m)
      /\ UNCHANGED <<data, delivered>>
  BY DEF Push
<1>2. Sensor' = Sensor \cup {m}
  <2>1. CASE Enqueue(m)
    <3>1. mQueue \in Seq(Messages)
      BY DEF TypeOK
    <3>2. Elements(mQueue') = Elements(mQueue) \cup {m}
      BY <2>1, <3>1, AppendElements DEF Enqueue
    <3>3. InQueue' = InQueue \cup {m}
      BY <3>2 DEF InQueue, Elements
    <3> QED
      BY <1>1, <2>1, <3>3 DEF Enqueue, Sensor
  <2>2. CASE Overflow(m)
    <3>1. Store(m) /\ mQueue' = mQueue
      BY <2>2 DEF Overflow, StoreSameName, StoreNothing, StoreFails, Lossless,
                      Messages
    <3> QED
      BY <1>1, <3>1 DEF Store, Sensor, InQueue
  <2> QED
    BY <1>1, <2>1, <2>2 DEF Push
<1>3. Pending' = Pending \cup {m.id} /\ Received' = Received
  BY <1>1, <1>2 DEF Pending, Received
<1>4. m.id \notin Pending \cup AtServer
  <2>1. produced + 1 \notin 1..produced
    BY MessageQueueAssumption DEF TypeOK
  <2>2. Pending \cup AtServer \subseteq 1..produced
    BY DEF PlacesInv, Anywhere, Pending, AtServer, Sensor
  <2> QED
    BY <1>1, <2>1, <2>2
<1> QED
  BY <1>3, <1>4 DEF Path!Submit, Pending, AtServer, Sensor

\* The upload, with the answer or without it.
LEMMA UploadReceives ==
    ASSUME Lossless, TypeOK, DataInv, PlacesInv, NEW m \in Messages,
           data = {m}, UploadSucceeds \/ ReplyLost
    PROVE  Path!Acknowledge(m.id) \/ Path!Receive(m.id)
<1>1. /\ delivered' = Append(delivered, m)
      /\ UNCHANGED <<mQueue, files>>
  BY DEF UploadSucceeds, ReplyLost
<1>2. AtServer' = AtServer \cup {m.id}
  BY <1>1, ReceivedAdds DEF AtServer
<1>3. m.id \in Pending
  BY DEF Pending, Sensor
<1>4. CASE UploadSucceeds
  <2>1. Sensor' = Sensor \ {m}
    BY <1>1, <1>4 DEF UploadSucceeds, Sensor, InQueue, PlacesInv
  <2>2. Sensor \subseteq Messages
    BY QueueTypes DEF Sensor, TypeOK
  <2>3. Pending' = Pending \ {m.id}
    BY <2>1, <2>2, OneNumber DEF Pending
  <2> QED
    BY <1>2, <1>3, <2>3 DEF Path!Acknowledge, Pending, AtServer, Sensor
<1>5. CASE ReplyLost
  <2>1. Pending' = Pending
    BY <1>1, <1>5 DEF ReplyLost, Pending, Sensor, InQueue
  <2> QED
    BY <1>2, <1>3, <2>1 DEF Path!Receive, Pending, AtServer, Sensor
<1> QED
  BY <1>4, <1>5

\* Without restarts and disk errors every step of the upload path is a step
\* of Delivery or none: no message is given up before the server has it
\* (MessageQueue::push, wait_and_pop, ServerNetworkHandler::run).
THEOREM DeliverySafe ==
    ASSUME Lossless
    PROVE  Spec => Path!Init /\ [][Path!Next]_(Path!vars)
<1>1. Init => Path!Init
  BY DEF Init, Path!Init, InQueue, Received
<1>2. TypeOK /\ DataInv /\ PlacesInv /\ [Next]_vars
        => [Path!Next]_(Path!vars)
  <2> SUFFICES ASSUME TypeOK, DataInv, PlacesInv, [Next]_vars
               PROVE  [Path!Next]_(Path!vars)
    OBVIOUS
  <2>0. \A m \in Messages : m.id \in 1..MaxMessages
    BY DEF Messages
  <2>1. ASSUME NEW m \in Messages, Push(m) PROVE Path!Next
    BY <2>0, <2>1, Lossless, PushSubmits DEF Path!Next
  <2>2. CASE UploadSucceeds \/ ReplyLost
    <3>1. PICK m \in Messages : data = {m}
      BY <2>2 DEF UploadSucceeds, ReplyLost, DataInv
    <3> QED
      BY <2>0, <2>2, <3>1, Lossless, UploadReceives DEF Path!Next
  <2>3. CASE Pop \/ Wake
    BY <2>3, PopKeepsSensor DEF Path!vars, Sensor
  <2>4. CASE SpuriousWake \/ UploadFails \/ Retry \/ UNCHANGED vars
    <3>1. UNCHANGED <<mQueue, files, data, delivered>>
      BY <2>4 DEF SpuriousWake, UploadFails, Retry, vars
    <3> QED
      BY <3>1 DEF Path!vars, InQueue, Received
  <2>5. ~Restart
    BY Lossless DEF Lossless, Restart, RemoveFails
  <2> QED
    BY <2>1, <2>2, <2>3, <2>4, <2>5 DEF Next
<1>3. Spec => [](TypeOK /\ DataInv)
  BY TypeCorrect
<1>4. Spec => []PlacesInv
  BY PlacesCorrect
<1> QED
  BY <1>1, <1>2, <1>3, <1>4, PTL DEF Spec
-----------------------------------------------------------------------------
\* The counter beside the folder.
CountInv == IsFiniteSet(files) /\ mNumStoredData = Cardinality(files)

\* The number of stored data is the number of files: MessageQueue::push counts
\* what save() writes, loadStoredData what it takes out of the folder.  Without
\* restarts and for messages that save() stores.
THEOREM StoredIsCountedCorrect ==
    ASSUME Lossless
    PROVE  Spec => []StoredIsCounted
<1>1. Init => CountInv
  BY FS_EmptySet DEF Init, CountInv
<1>2. TypeOK /\ PlacesInv /\ CountInv /\ [Next]_vars => CountInv'
  <2> SUFFICES ASSUME TypeOK, PlacesInv, CountInv, [Next]_vars
               PROVE  CountInv'
    OBVIOUS
  <2>1. ASSUME NEW m \in Messages, Push(m) PROVE CountInv'
    <3>1. m \notin files
      BY <2>1, PushIsNew DEF Anywhere
    <3>2. CASE Enqueue(m)
      BY <3>2 DEF Enqueue, CountInv
    <3>3. CASE Overflow(m)
      <4>1. Store(m)
        BY <3>3, Lossless
           DEF Overflow, StoreSameName, StoreNothing, StoreFails, Lossless,
               Messages
      <4>2. /\ files' = files \cup {m}
            /\ mNumStoredData' = mNumStoredData + 1
        BY <4>1 DEF Store
      <4> QED
        BY <3>1, <4>2, FS_AddElement DEF CountInv
    <3> QED
      BY <2>1, <3>2, <3>3 DEF Push
  <2>2. ASSUME NEW m \in files, PopLoading(m) PROVE CountInv'
    <3>1. files' = files \ {m} /\ mNumStoredData' = mNumStoredData - 1
      BY <2>2 DEF PopLoading
    <3> QED
      BY <3>1, FS_RemoveElement DEF CountInv
  <2>3. CASE PopOnly \/ Wake \/ SpuriousWake
    BY <2>3 DEF PopOnly, Wake, SpuriousWake, CountInv
  <2>4. CASE UploadSucceeds \/ UploadFails \/ ReplyLost \/ Retry
    BY <2>4 DEF UploadSucceeds, UploadFails, ReplyLost, Retry, CountInv
  <2>5. ~Restart
    BY Lossless DEF Lossless, Restart, RemoveFails
  <2>6. CASE UNCHANGED vars
    BY <2>6 DEF vars, CountInv
  <2> QED
    BY <2>1, <2>2, <2>3, <2>4, <2>5, <2>6 DEF Next, Pop
<1>3. CountInv => StoredIsCounted
  BY DEF CountInv, StoredIsCounted
<1>4. Spec => [](TypeOK /\ DataInv)
  BY TypeCorrect
<1>5. Spec => []PlacesInv
  BY PlacesCorrect
<1> QED
  BY <1>1, <1>2, <1>3, <1>4, <1>5, PTL DEF Spec
-----------------------------------------------------------------------------
\* The order of the messages that never went through the folder S.
Precedes(S, a, b)   == {a, b} \cap S = {} => a.id <= b.id
AllPrecede(S, A, B) == \A a \in A, b \in B : Precedes(S, a, b)
Ordered(S, q)       == \A i, j \in DOMAIN q : i < j => Precedes(S, q[i], q[j])

\* A message that comes again does so before any other.
Adjacent(q) ==
    \A i, j \in DOMAIN q : i < j /\ q[i] = q[j] =>
        \A k \in i..j : q[k] = q[i]

\* If it is in the sequence at all, nothing came after message m.
NoneAfter(m, q) ==
    \A i \in DOMAIN q : q[i] = m => \A k \in i..Len(q) : q[k] = m

\* The line from the server back to the end of the queue is in order ...
LineInv ==
    /\ files \subseteq overflowed
    /\ Ordered(overflowed, mQueue)
    /\ Ordered(overflowed, delivered)
    /\ AllPrecede(overflowed, data, InQueue)
    /\ AllPrecede(overflowed, Received, data \cup InQueue)

\* ... and nothing came after the message that the uploader has, if the server
\* has it already.
RepeatInv ==
    /\ \A m \in data : NoneAfter(m, delivered)
    /\ Adjacent(delivered)

\* The places of a sequence to which one message was appended.
LEMMA AppendPlaces ==
    ASSUME NEW S, NEW q \in Seq(S), NEW m \in S
    PROVE  /\ Len(q) \in Nat /\ Len(Append(q, m)) = Len(q) + 1
           /\ DOMAIN q = 1..Len(q)
           /\ \A i \in DOMAIN Append(q, m) :
                 \/ i \in DOMAIN q /\ Append(q, m)[i] = q[i]
                 \/ i = Len(q) + 1 /\ Append(q, m)[i] = m
BY AppendProperties

LEMMA AppendOrdered ==
    ASSUME NEW T, NEW S, NEW q \in Seq(S), NEW m \in S, Ordered(T, q),
           AllPrecede(T, Elements(q), {m})
    PROVE  Ordered(T, Append(q, m))
<1> DEFINE r == Append(q, m)
<1>1. /\ Len(q) \in Nat /\ DOMAIN q = 1..Len(q)
      /\ \A i \in DOMAIN r : \/ i \in DOMAIN q /\ r[i] = q[i]
                             \/ i = Len(q) + 1 /\ r[i] = m
  BY AppendPlaces
<1> HIDE DEF r
<1>2. ASSUME NEW i \in DOMAIN r, NEW j \in DOMAIN r, i < j
      PROVE  Precedes(T, r[i], r[j])
  <2>1. i \in DOMAIN q /\ r[i] = q[i]
    BY <1>1, <1>2
  <2>2. CASE j \in DOMAIN q /\ r[j] = q[j]
    BY <1>2, <2>1, <2>2 DEF Ordered
  <2>3. CASE r[j] = m
    BY <2>1, <2>3 DEF AllPrecede, Elements
  <2> QED
    BY <1>1, <2>2, <2>3
<1> QED
  BY <1>2 DEF Ordered, r

LEMMA TailOrdered ==
    ASSUME NEW T, NEW S, NEW q \in Seq(S), q # <<>>, Ordered(T, q)
    PROVE  /\ Ordered(T, Tail(q))
           /\ AllPrecede(T, {Head(q)}, Elements(Tail(q)))
<1> DEFINE t == Tail(q)
<1>1. /\ Len(q) \in Nat /\ Len(q) > 0
      /\ DOMAIN q = 1..Len(q)
      /\ Head(q) = q[1]
      /\ DOMAIN t = 1..Len(q) - 1
      /\ \A i \in 1..Len(q) - 1 : t[i] = q[i + 1]
  BY EmptySeq, HeadTailProperties
<1> HIDE DEF t
<1>2. \A i \in DOMAIN t : /\ i \in Nat /\ i + 1 \in DOMAIN q /\ 1 < i + 1
                          /\ t[i] = q[i + 1]
  BY <1>1
<1>3. Ordered(T, t)
  <2> SUFFICES ASSUME NEW i \in DOMAIN t, NEW j \in DOMAIN t, i < j
               PROVE  Precedes(T, t[i], t[j])
    BY DEF Ordered
  <2>1. i + 1 \in DOMAIN q /\ j + 1 \in DOMAIN q /\ i + 1 < j + 1
    BY <1>2
  <2>2. Precedes(T, q[i + 1], q[j + 1])
    BY <2>1 DEF Ordered
  <2> QED
    BY <1>2, <2>2
<1>4. AllPrecede(T, {q[1]}, Elements(t))
  <2> SUFFICES ASSUME NEW i \in DOMAIN t PROVE Precedes(T, q[1], t[i])
    BY DEF AllPrecede, Elements
  <2>1. 1 \in DOMAIN q /\ i + 1 \in DOMAIN q /\ 1 < i + 1 /\ t[i] = q[i + 1]
    BY <1>1, <1>2
  <2> QED
    BY <2>1 DEF Ordered
<1> QED
  BY <1>1, <1>3, <1>4 DEF t

\* More messages have gone through the folder.
LEMMA MoreOverflowed ==
    ASSUME NEW S, NEW T, S \subseteq T
    PROVE  /\ \A q : Ordered(S, q) => Ordered(T, q)
           /\ \A A, B : AllPrecede(S, A, B) => AllPrecede(T, A, B)
BY DEF Ordered, AllPrecede, Precedes

\* wait_and_pop: the uploader takes the front of an ordered queue.
LEMMA TakeLine ==
    ASSUME TypeOK, data = {}, NEW q \in Seq(Messages), Take(q),
           UNCHANGED <<delivered, overflowed>>,
           files' \subseteq files, LineInv,
           Ordered(overflowed, q),
           AllPrecede(overflowed, Received, Elements(q))
    PROVE  LineInv'
<1>1. InQueue' = Elements(mQueue') /\ Received' = Received
  BY DEF InQueue, Received, Elements
<1>2. Elements(mQueue') \cup data' = Elements(q)
  BY TakeSets
<1>3. AllPrecede(overflowed, Received, data' \cup Elements(mQueue'))
  BY <1>2 DEF AllPrecede
<1>4. /\ Ordered(overflowed, mQueue')
      /\ AllPrecede(overflowed, data', Elements(mQueue'))
  <2>1. CASE q = <<>>
    BY <2>1 DEF Take, AllPrecede
  <2>2. CASE q # <<>>
    <3>1. mQueue' = Tail(q) /\ data' = {Head(q)}
      BY <2>2 DEF Take
    <3> QED
      BY <2>2, <3>1, TailOrdered
  <2> QED
    BY <2>1, <2>2
<1> QED
  BY <1>1, <1>3, <1>4 DEF LineInv

LEMMA PopLine ==
    ASSUME TypeOK, DataInv, LineInv, Pop \/ Wake
    PROVE  LineInv'
<1>1. data = {} /\ mQueue \in Seq(Messages) /\ InQueue = Elements(mQueue)
  BY QueueTypes DEF Pop, PopOnly, PopLoading, Wake, DataInv, TypeOK
<1>2. CASE PopOnly \/ Wake
  <2>1. Take(mQueue) /\ UNCHANGED <<files, delivered, overflowed>>
    BY <1>2 DEF PopOnly, Wake
  <2>2. AllPrecede(overflowed, Received, Elements(mQueue))
    BY <1>1 DEF LineInv
  <2> QED
    BY <1>1, <2>1, <2>2, TakeLine DEF LineInv
<1>3. ASSUME NEW m \in files, PopLoading(m) PROVE LineInv'
  <2> DEFINE q == Append(mQueue, m)
  <2>1. /\ Take(q) /\ UNCHANGED <<delivered, overflowed>>
        /\ files' = files \ {m}
    BY <1>3 DEF PopLoading
  <2>2. m \in Messages /\ m \in overflowed
    BY <1>3 DEF TypeOK, LineInv
  <2>3. q \in Seq(Messages) /\ Elements(q) = InQueue \cup {m}
    BY <1>1, <2>2, AppendElements
  <2>4. \A A : AllPrecede(overflowed, A, {m})
    BY <2>2 DEF AllPrecede, Precedes
  <2>5. Ordered(overflowed, q)
    BY <1>1, <2>2, <2>4, AppendOrdered DEF LineInv
  <2>6. AllPrecede(overflowed, Received, Elements(q))
    BY <2>3, <2>4 DEF AllPrecede, LineInv
  <2> HIDE DEF q
  <2> QED
    BY <1>1, <2>1, <2>3, <2>5, <2>6, TakeLine
<1> QED
  BY <1>2, <1>3 DEF Pop

\* push: the new number is the greatest one.
LEMMA PushLine ==
    ASSUME TypeOK, PlacesInv, LineInv, NEW m \in Messages, Push(m)
    PROVE  LineInv'
<1>1. /\ m.id = produced + 1 /\ produced \in Nat
      /\ UNCHANGED <<data, delivered>>
      /\ Enqueue(m) \/ Overflow(m)
  BY MessageQueueAssumption DEF Push, TypeOK
<1>2. mQueue \in Seq(Messages) /\ InQueue = Elements(mQueue)
  BY QueueTypes DEF TypeOK
<1>3. Received' = Received
  BY <1>1 DEF Received
<1>4. \A S : AllPrecede(S, Anywhere, {m})
  <2>1. \A a \in Anywhere : a.id \in 1..produced
    BY DEF PlacesInv
  <2>2. \A a \in Anywhere : a.id <= m.id
    BY <1>1, <2>1
  <2> QED
    BY <2>2 DEF AllPrecede, Precedes
<1>5. CASE Enqueue(m)
  <2>1. mQueue' = Append(mQueue, m) /\ UNCHANGED <<files, overflowed>>
    BY <1>5 DEF Enqueue
  <2>2. InQueue' = InQueue \cup {m}
    BY <1>2, <2>1, AppendElements DEF InQueue, Elements
  <2>3. AllPrecede(overflowed, Elements(mQueue), {m})
    BY <1>2, <1>4 DEF AllPrecede, Anywhere
  <2>4. Ordered(overflowed, mQueue')
    BY <1>2, <2>1, <2>3, AppendOrdered DEF LineInv
  <2>5. /\ AllPrecede(overflowed, data, InQueue')
        /\ AllPrecede(overflowed, Received, data \cup InQueue')
    BY <1>4, <2>2 DEF LineInv, AllPrecede, Anywhere
  <2> QED
    BY <1>1, <1>3, <2>1, <2>4, <2>5 DEF LineInv
<1>6. CASE Overflow(m)
  <2>1. /\ overflowed' = overflowed \cup {m} /\ mQueue' = mQueue
        /\ files' \subseteq files \cup {m}
    BY <1>6 DEF Overflow, Store, StoreSameName, StoreNothing, StoreFails
  <2>2. InQueue' = InQueue
    BY <2>1 DEF InQueue
  <2> QED
    BY <1>1, <1>3, <2>1, <2>2, MoreOverflowed DEF LineInv
<1> QED
  BY <1>1, <1>5, <1>6

\* The server receives the message that was being uploaded.
LEMMA UploadLine ==
    ASSUME TypeOK, DataInv, LineInv, UploadSucceeds \/ ReplyLost
    PROVE  LineInv'
<1>1. PICK m \in Messages : data = {m}
  BY DEF UploadSucceeds, ReplyLost, DataInv
<1>2. /\ delivered' = Append(delivered, m)
      /\ data' \subseteq data
      /\ UNCHANGED <<mQueue, files, overflowed>>
  BY <1>1 DEF UploadSucceeds, ReplyLost
<1>3. Received' = Received \cup {m} /\ InQueue' = InQueue
  BY <1>2, ReceivedAdds DEF InQueue
<1>4. delivered \in Seq(Messages) /\ Received = Elements(delivered)
  BY QueueTypes DEF TypeOK
<1>5. AllPrecede(overflowed, Elements(delivered), {m})
  BY <1>1, <1>4 DEF LineInv, AllPrecede
<1>6. Ordered(overflowed, delivered')
  BY <1>2, <1>4, <1>5, AppendOrdered DEF LineInv
<1>7. Precedes(overflowed, m, m)
  BY DEF Precedes, Messages
<1>8. AllPrecede(overflowed, Received', data' \cup InQueue)
  BY <1>1, <1>2, <1>3, <1>7 DEF LineInv, AllPrecede
<1>9. AllPrecede(overflowed, data', InQueue)
  BY <1>2 DEF LineInv, AllPrecede
<1> QED
  BY <1>2, <1>3, <1>6, <1>8, <1>9 DEF LineInv

\* A restart leaves an empty queue behind what was delivered.
LEMMA RestartLine ==
    ASSUME LineInv, Restart
    PROVE  LineInv'
<1>1. /\ mQueue' = <<>> /\ data' = {}
      /\ UNCHANGED <<files, delivered, overflowed>>
  BY DEF Restart
<1>2. InQueue' = {} /\ Received' = Received
  BY <1>1 DEF InQueue, Received
<1>3. Ordered(overflowed, <<>>)
  BY DEF Ordered
<1> QED
  BY <1>1, <1>2, <1>3 DEF LineInv, AllPrecede

\* The line from the queue's end to the server is in the order of the pushes,
\* whatever fails and whenever the program is restarted.
THEOREM LineCorrect == Spec => []LineInv
<1>1. Init => LineInv
  BY DEF Init, LineInv, InQueue, Received, Ordered, AllPrecede
<1>2. TypeOK /\ DataInv /\ PlacesInv /\ LineInv /\ [Next]_vars => LineInv'
  <2> SUFFICES ASSUME TypeOK, DataInv, PlacesInv, LineInv, [Next]_vars
               PROVE  LineInv'
    OBVIOUS
  <2>1. ASSUME NEW m \in Messages, Push(m) PROVE LineInv'
    BY <2>1, PushLine
  <2>2. CASE Pop \/ Wake
    BY <2>2, PopLine
  <2>3. CASE UploadSucceeds \/ ReplyLost
    BY <2>3, UploadLine
  <2>4. CASE Restart
    BY <2>4, RestartLine
  <2>5. CASE SpuriousWake \/ UploadFails \/ Retry \/ UNCHANGED vars
    <3>1. UNCHANGED <<mQueue, files, data, delivered, overflowed>>
      BY <2>5 DEF SpuriousWake, UploadFails, Retry, vars
    <3> QED
      BY <3>1 DEF LineInv, InQueue, Received
  <2> QED
    BY <2>1, <2>2, <2>3, <2>4, <2>5 DEF Next
<1>3. Spec => [](TypeOK /\ DataInv)
  BY TypeCorrect
<1>4. Spec => []PlacesInv
  BY PlacesCorrect
<1> QED
  BY <1>1, <1>2, <1>3, <1>4, PTL DEF Spec

\* Appending what is new, or a repetition of the last message.
LEMMA AppendAdjacent ==
    ASSUME NEW S, NEW q \in Seq(S), NEW m \in S, Adjacent(q), NoneAfter(m, q)
    PROVE  Adjacent(Append(q, m)) /\ NoneAfter(m, Append(q, m))
<1> DEFINE r == Append(q, m)
           n == Len(q)
<1>1. /\ n \in Nat /\ Len(r) = n + 1
      /\ DOMAIN q = 1..n /\ DOMAIN r = 1..(n + 1)
      /\ \A i \in 1..n : r[i] = q[i]
      /\ r[n + 1] = m
  BY AppendProperties
<1> HIDE DEF r, n
<1>2. \A i \in 1..n : q[i] = m => \A k \in i..n : q[k] = m
  BY <1>1 DEF NoneAfter, n
<1>3. ASSUME NEW i \in 1..(n + 1), r[i] = m, NEW k \in i..(n + 1)
      PROVE  r[k] = m
  <2>1. CASE k = n + 1
    BY <1>1, <2>1
  <2>2. CASE k # n + 1
    <3>1. i \in 1..n /\ k \in i..n /\ k \in 1..n
      BY <1>1, <1>3, <2>2
    <3> QED
      BY <1>1, <1>2, <1>3, <3>1
  <2> QED
    BY <2>1, <2>2
<1>4. ASSUME NEW i \in 1..(n + 1), NEW j \in 1..(n + 1), i < j,
             r[i] = r[j], NEW k \in i..j
      PROVE  r[k] = r[i]
  <2>1. CASE j = n + 1
    BY <1>1, <1>3, <1>4, <2>1
  <2>2. CASE j # n + 1
    <3>1. i \in 1..n /\ j \in 1..n /\ k \in 1..n
      BY <1>1, <1>4, <2>2
    <3>2. q[i] = q[j]
      BY <1>1, <1>4, <3>1
    <3>3. q[k] = q[i]
      BY <1>1, <1>4, <3>1, <3>2 DEF Adjacent
    <3> QED
      BY <1>1, <3>1, <3>3
  <2> QED
    BY <2>1, <2>2
<1>5. Adjacent(r)
  BY <1>1, <1>4 DEF Adjacent
<1>6. NoneAfter(m, r)
  BY <1>1, <1>3 DEF NoneAfter
<1> QED
  BY <1>5, <1>6 DEF r

LEMMA RepeatUpload ==
    ASSUME TypeOK, DataInv, RepeatInv, UploadSucceeds \/ ReplyLost
    PROVE  RepeatInv'
<1>1. PICK m \in Messages : data = {m}
  BY DEF UploadSucceeds, ReplyLost, DataInv
<1>2. delivered' = Append(delivered, m)
  BY <1>1 DEF UploadSucceeds, ReplyLost
<1>3. delivered \in Seq(Messages)
  BY DEF TypeOK
<1>4. Adjacent(delivered) /\ NoneAfter(m, delivered)
  BY <1>1 DEF RepeatInv
<1>5. Adjacent(delivered') /\ NoneAfter(m, delivered')
  BY <1>2, <1>3, <1>4, AppendAdjacent
<1>6. data' \subseteq {m}
  BY <1>1 DEF UploadSucceeds, ReplyLost
<1>7. \A d \in data' : NoneAfter(d, delivered')
  BY <1>5, <1>6
<1> QED
  BY <1>5, <1>7 DEF RepeatInv

\* The uploader repeats what the server has already before it turns to another
\* message.
THEOREM RepeatCorrect == Spec => []RepeatInv
<1>1. Init => RepeatInv
  BY DEF Init, RepeatInv, Adjacent
<1>2. TypeOK /\ DataInv /\ PlacesInv /\ RepeatInv /\ [Next]_vars
        => RepeatInv'
  <2> SUFFICES ASSUME TypeOK, DataInv, PlacesInv, RepeatInv, [Next]_vars
               PROVE  RepeatInv'
    OBVIOUS
  <2>1. CASE Pop \/ Wake
    <3>1. Sensor' = Sensor
      BY <2>1, PopKeepsSensor
    <3>2. data = {} /\ delivered' = delivered
      BY <2>1 DEF Pop, PopOnly, PopLoading, Wake, DataInv
    <3>3. Received \cap data' = {}
      BY <3>1, <3>2 DEF PlacesInv, Sensor
    <3>4. \A m \in data' : NoneAfter(m, delivered)
      BY <3>3 DEF NoneAfter, Received
    <3> QED
      BY <3>2, <3>4 DEF RepeatInv
  <2>2. CASE UploadSucceeds \/ ReplyLost
    BY <2>2, RepeatUpload
  <2>3. CASE Restart
    <3>1. data' = {} /\ delivered' = delivered
      BY <2>3 DEF Restart
    <3> QED
      BY <3>1 DEF RepeatInv
  <2>4. CASE \/ \E m \in Messages : Push(m)
             \/ SpuriousWake \/ UploadFails \/ Retry \/ UNCHANGED vars
    <3>1. UNCHANGED <<data, delivered>>
      BY <2>4 DEF Push, SpuriousWake, UploadFails, Retry, vars
    <3> QED
      BY <3>1 DEF RepeatInv
  <2> QED
    BY <2>1, <2>2, <2>3, <2>4 DEF Next
<1>3. Spec => [](TypeOK /\ DataInv)
  BY TypeCorrect
<1>4. Spec => []PlacesInv
  BY PlacesCorrect
<1> QED
  BY <1>1, <1>2, <1>3, <1>4, PTL DEF Spec

\* The messages that never overflowed arrive in the order of their pushes, and
\* one that arrives again, however often, does so before any other
\* (MessageQueue::push, wait_and_pop, ServerNetworkHandler::run), whatever
\* fails.
THEOREM FifoCorrect == Spec => []Fifo
<1>1. LineInv /\ RepeatInv => Fifo
  BY DEF LineInv, RepeatInv, Ordered, Precedes, Adjacent, Fifo
<1> QED
  BY <1>1, LineCorrect, RepeatCorrect, PTL
=============================================================================
