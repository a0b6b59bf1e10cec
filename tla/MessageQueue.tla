---------------------------- MODULE MessageQueue ----------------------------
(***************************************************************************)
(* The upload path: the queue that the main loop and the timer threads     *)
(* push to (MessageQueue.cpp), the folder that takes what the queue cannot *)
(* hold (ParkingUpdateMessage::save, utils::loadMessage), and the thread   *)
(* that takes one message at a time and repeats its upload until the       *)
(* server has answered 200 (ServerNetworkHandler::run).                    *)
(*                                                                         *)
(* Every call of the queue runs under its mutex and is one step.  A        *)
(* message is its number in the order of the pushes and its kind:          *)
(*   update   ParkingUpdateMessage, stored as an image file                *)
(*   sync     ServerSyncMessage, whose save() stores nothing               *)
(*                                                                         *)
(* `Faults' names what may go wrong:                                       *)
(*   saveFails    the folder or the image cannot be written                *)
(*   sameName     a message has the file name of a stored one, whose file  *)
(*                is overwritten: second, request, plate and spot are equal *)
(*   loadFails    a stored image cannot be read                            *)
(*   removeFails  a loaded file cannot be removed: the exception ends the  *)
(*                program, which is started again                          *)
(*   serverFails  the upload fails: connection, status code                *)
(*   replyLost    the server has the message, but the upload fails         *)
(*   restart      the program ends or crashes, and is started again        *)
(***************************************************************************)
EXTENDS Integers, Sequences, FiniteSets

CONSTANTS
    mMaxSize,      \* capacity of the queue
    Kinds,         \* kinds of messages that are pushed
    Faults,        \* what may go wrong
    MaxMessages,   \* bound: messages pushed
    MaxReceptions, \* bound: no reply is lost after so many receptions
    MaxRestarts    \* bound: restarts

ASSUME MessageQueueAssumption ==
    /\ mMaxSize \in Nat \ {0}
    /\ Kinds \subseteq {"update", "sync"}
    /\ Faults \subseteq {"saveFails", "sameName", "loadFails", "removeFails",
                         "serverFails", "replyLost", "restart"}
    /\ MaxMessages \in Nat
    /\ MaxReceptions \in Nat
    /\ MaxRestarts \in Nat

VARIABLES
    mQueue,          \* the queue in memory
    mNumStoredData,
    files,           \* the messages in mDataStorageFolder
    uploader,        \* where the uploading thread is
    data,            \* the message it is uploading, as a set
    delivered,       \* what the server received, in order
    produced,        \* number of messages pushed
    overflowed,      \* the messages that found the queue full
    lost,            \* the messages that no one has
    restarts         \* number of restarts

vars == <<mQueue, mNumStoredData, files, uploader, data, delivered,
          produced, overflowed, lost, restarts>>

Messages == [id : 1..MaxMessages, kind : Kinds]

TypeOK ==
    /\ mQueue \in Seq(Messages)
    /\ mNumStoredData \in Nat
    /\ files \subseteq Messages
    /\ uploader \in {"pop", "wait", "woken", "upload", "sleep"}
    /\ data \subseteq Messages
    /\ delivered \in Seq(Messages)
    /\ produced \in 0..MaxMessages
    /\ overflowed \subseteq Messages
    /\ lost \subseteq Messages
    /\ restarts \in 0..MaxRestarts

Init ==
    /\ mQueue = <<>>
    /\ mNumStoredData = 0
    /\ files = {}
    /\ uploader = "pop"
    /\ data = {}
    /\ delivered = <<>>
    /\ produced = 0
    /\ overflowed = {}
    /\ lost = {}
    /\ restarts = 0

InQueue == {mQueue[i] : i \in DOMAIN mQueue}

Received == {delivered[i] : i \in DOMAIN delivered}

-----------------------------------------------------------------------------
(* MessageQueue::push                                                      *)

\* notify_one: the uploader is the only thread that waits.
NotifyNobody == UNCHANGED uploader    \* mutant

NotifyOne == uploader' = IF uploader = "wait" THEN "woken" ELSE uploader

Enqueue(m) ==
    /\ Len(mQueue) < mMaxSize
    /\ mQueue' = Append(mQueue, m)
    /\ UNCHANGED <<mNumStoredData, files, overflowed, lost>>

\* Mutant: the message is counted, but not written.
StoreUnwritten(m) ==
    /\ m.kind = "update"
    /\ mNumStoredData' = mNumStoredData + 1
    /\ UNCHANGED <<files, lost>>

\* The queue is full: save() writes the message to the folder ...
Store(m) ==
    /\ m.kind = "update"
    /\ files' = files \cup {m}
    /\ mNumStoredData' = mNumStoredData + 1
    /\ UNCHANGED lost

\* ... which may be the file of an earlier message ...
StoreSameName(m) ==
    /\ "sameName" \in Faults /\ m.kind = "update"
    /\ \E f \in files : /\ files' = (files \ {f}) \cup {m}
                        /\ lost' = lost \cup {f}
    /\ mNumStoredData' = mNumStoredData + 1

\* ... or, for a ServerSyncMessage, only says so.
StoreNothing(m) ==
    /\ m.kind = "sync"
    /\ mNumStoredData' = mNumStoredData + 1
    /\ lost' = lost \cup {m}
    /\ UNCHANGED files

StoreFails(m) ==
    /\ "saveFails" \in Faults /\ m.kind = "update"
    /\ lost' = lost \cup {m}
    /\ UNCHANGED <<files, mNumStoredData>>

Overflow(m) ==
    /\ Len(mQueue) >= mMaxSize
    /\ Store(m) \/ StoreSameName(m) \/ StoreNothing(m) \/ StoreFails(m)
    /\ overflowed' = overflowed \cup {m}
    /\ UNCHANGED mQueue

Push(m) ==
    /\ produced < MaxMessages /\ m.id = produced + 1
    /\ produced' = produced + 1
    /\ Enqueue(m) \/ Overflow(m)
    /\ NotifyOne
    /\ UNCHANGED <<data, delivered, restarts>>

-----------------------------------------------------------------------------
(* MessageQueue::wait_and_pop, called by the uploader.                     *)

\* The uploader gets the front of queue q, or waits for a notification.
Take(q) ==
    IF q = <<>>
    THEN /\ uploader' = "wait"
         /\ mQueue' = q
         /\ UNCHANGED data
    ELSE /\ uploader' = "upload"
         /\ data' = {Head(q)}
         /\ mQueue' = Tail(q)

\* Mutant: the folder is looked at whatever the number of stored data.
MayLoadUncounted == Len(mQueue) < mMaxSize

\* loadStoredData looks at the folder.
MayLoad == Len(mQueue) < mMaxSize /\ mNumStoredData > 0

\* Mutant: a loaded file is counted still.
PopLoadingUncounted(m) ==
    /\ uploader = "pop" /\ MayLoad
    /\ m \in files
    /\ files' = files \ {m}
    /\ Take(Append(mQueue, m))
    /\ UNCHANGED <<mNumStoredData, delivered, produced, overflowed, lost,
                   restarts>>

\* The first file of the folder that can be read, in no particular order,
\* goes to the back of the queue.
PopLoading(m) ==
    /\ uploader = "pop" /\ MayLoad
    /\ m \in files
    /\ files' = files \ {m}
    /\ mNumStoredData' = mNumStoredData - 1
    /\ Take(Append(mQueue, m))
    /\ UNCHANGED <<delivered, produced, overflowed, lost, restarts>>

\* No file is loaded: there is nothing to load, or no file can be read.
PopOnly ==
    /\ uploader = "pop"
    /\ \/ ~MayLoad
       \/ files = {}
       \/ "loadFails" \in Faults
    /\ Take(mQueue)
    /\ UNCHANGED <<mNumStoredData, files, delivered, produced, overflowed,
                   lost, restarts>>

\* The wait returns and the queue is looked at again.
Wake ==
    /\ uploader = "woken"
    /\ Take(mQueue)
    /\ UNCHANGED <<mNumStoredData, files, delivered, produced, overflowed,
                   lost, restarts>>

\* ... which happens without a notification too.
SpuriousWake ==
    /\ uploader = "wait"
    /\ uploader' = "woken"
    /\ UNCHANGED <<mQueue, mNumStoredData, files, data, delivered, produced,
                   overflowed, lost, restarts>>

-----------------------------------------------------------------------------
(* ServerNetworkHandler::run: upload, and again after three seconds.       *)

UploadSucceeds ==
    /\ uploader = "upload"
    /\ \E m \in data : delivered' = Append(delivered, m)
    /\ data' = {}
    /\ uploader' = "pop"
    /\ UNCHANGED <<mQueue, mNumStoredData, files, produced, overflowed,
                   lost, restarts>>

\* Mutant: a message that failed goes to the back of the queue.
UploadRequeues ==
    /\ "serverFails" \in Faults
    /\ uploader = "upload"
    /\ \E m \in data : mQueue' = Append(mQueue, m)
    /\ data' = {}
    /\ uploader' = "pop"
    /\ UNCHANGED <<mNumStoredData, files, delivered, produced, overflowed,
                   lost, restarts>>

UploadFails ==
    /\ "serverFails" \in Faults
    /\ uploader = "upload"
    /\ uploader' = "sleep"
    /\ UNCHANGED <<mQueue, mNumStoredData, files, data, delivered, produced,
                   overflowed, lost, restarts>>

\* The server has the message, but the answer does not come, or is not 200.
ReplyLost ==
    /\ "replyLost" \in Faults
    /\ uploader = "upload"
    /\ Len(delivered) < MaxReceptions
    /\ \E m \in data : delivered' = Append(delivered, m)
    /\ uploader' = "sleep"
    /\ UNCHANGED <<mQueue, mNumStoredData, files, data, produced,
                   overflowed, lost, restarts>>

Retry ==
    /\ uploader = "sleep"
    /\ uploader' = "upload"
    /\ UNCHANGED <<mQueue, mNumStoredData, files, data, delivered, produced,
                   overflowed, lost, restarts>>

\* boost::filesystem::remove throws, and nothing catches it.
RemoveFails == "removeFails" \in Faults /\ uploader = "pop" /\ MayLoad
               /\ files # {}

\* The queue and the message being uploaded are in memory, as is the number
\* of stored data: the files stay.
Restart ==
    /\ "restart" \in Faults \/ RemoveFails
    /\ restarts < MaxRestarts
    /\ restarts' = restarts + 1
    /\ mQueue' = <<>>
    /\ mNumStoredData' = 0
    /\ data' = {}
    /\ uploader' = "pop"
    /\ lost' = lost \cup ((InQueue \cup data) \ Received)
    /\ UNCHANGED <<files, delivered, produced, overflowed>>

-----------------------------------------------------------------------------
Pop == PopOnly \/ \E m \in files : PopLoading(m)

Next ==
    \/ \E m \in Messages : Push(m)
    \/ Pop \/ Wake \/ SpuriousWake
    \/ UploadSucceeds \/ UploadFails \/ ReplyLost \/ Retry
    \/ Restart

Spec == Init /\ [][Next]_vars

\* The uploader is scheduled, and the server is not always out of reach.
Fairness ==
    /\ WF_vars(Pop) /\ WF_vars(Wake) /\ WF_vars(Retry)
    /\ SF_vars(UploadSucceeds)

FairSpec == Spec /\ Fairness

-----------------------------------------------------------------------------
(* Properties.                                                             *)

\* Every message that was pushed is in the queue, in the folder, being
\* uploaded, at the server, or lost, and the sensor keeps it only once.
Accounted ==
    /\ {m.id : m \in InQueue \cup files \cup data \cup Received \cup lost}
         = 1..produced
    /\ files \cap InQueue = {}
    /\ data \cap (InQueue \cup files) = {}
    /\ lost \cap (InQueue \cup files \cup data \cup Received) = {}
    /\ Cardinality(InQueue) = Len(mQueue)

\* The messages that never went through the folder arrive in the order in
\* which they were pushed, and a message that arrives again, however often,
\* does so before any other one: the server can tell repetitions from new
\* events.
Fifo ==
    \A i, j \in DOMAIN delivered : i < j =>
        /\ {delivered[i], delivered[j]} \cap overflowed = {} =>
               delivered[i].id <= delivered[j].id
        /\ delivered[i] = delivered[j] =>
               \A k \in i..j : delivered[k] = delivered[i]

\* "The number of stored data" (MessageQueue.h:88): the folder is looked at
\* exactly while there is something in it.
StoredIsCounted == mNumStoredData = Cardinality(files)

Path == INSTANCE Delivery WITH
    Messages  <- 1..MaxMessages,
    pending   <- {m.id : m \in InQueue \cup files \cup data},
    delivered <- {m.id : m \in Received}

\* Without restarts and disk errors, the queue, the folder and the uploader
\* lose nothing, and the server has every message in the end.
Delivers == Path!Spec
=============================================================================
