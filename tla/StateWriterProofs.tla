------------------------- MODULE StateWriterProofs -------------------------
(***************************************************************************)
(* Proofs about StateWriter, for every channel capacity, throttle and      *)
(* number of saves and faults.                                             *)
(*                                                                         *)
(* None of the safety properties is inductive: each rests on where the two *)
(* threads are.  The invariant Inv below says which thread may hold what   *)
(* at each place.                                                          *)
(***************************************************************************)
EXTENDS StateWriter, TLAPS

Writing == writer \in {"take", "write"}
IsBlocking(i) == queue[i].type = "Blocking"

(* The writer thread holds a snapshot only between receiving and writing.  *)
JobInv ==
    /\ job # NoSnapshot => Writing
    /\ writer = "write" => job # NoSnapshot
    /\ (writer = "take" /\ job # NoSnapshot) => purpose = "blocking"
    /\ (writer = "write" /\ purpose = "blocking") => mailbox = NoSnapshot

(* A blocking save is in one place: about to be sent, queued, in the       *)
(* writer's hands, or answered.                                            *)
BlockingInv ==
    /\ \A i \in DOMAIN queue : IsBlocking(i) =>
          ui = "waiting" /\ reply = "none" /\ queue[i].state = call
    /\ \A i, j \in DOMAIN queue : IsBlocking(i) /\ IsBlocking(j) => i = j
    /\ (Writing /\ purpose = "blocking") =>
          /\ ui = "waiting" /\ reply = "none" /\ job = call
          /\ \A i \in DOMAIN queue : ~IsBlocking(i)
    /\ ui \in {"sending", "waiting"} =>
          call = latest /\ call # NoSnapshot
    /\ ui = "sending" => reply = "none" /\ Stored < call /\ job < call
    /\ (ui = "waiting" /\ \E i \in DOMAIN queue : IsBlocking(i)) =>
          Stored < call /\ job < call
    /\ ui = "sending" => mailbox < call
    /\ (ui = "waiting" /\ mailbox # NoSnapshot) => mailbox < call

(* While an answer waits to be read the writer has nothing to write.       *)
ReplyInv ==
    reply # "none" =>
        /\ ui = "waiting"
        /\ mailbox = NoSnapshot
        /\ writer \in {"loop", "recv"}
        /\ \A i \in DOMAIN queue : ~IsBlocking(i)
        /\ reply = "ok" => Stored = call

(* After the last sender is gone nothing is queued or put any more, and    *)
(* nothing is queued for a writer that is gone.                            *)
ShutdownInv ==
    /\ WriterGone => queue = <<>>
    /\ (Writing /\ purpose = "shutdown") \/ writer = "exited" =>
          ~SenderAlive /\ queue = <<>>
    /\ writer = "write" /\ purpose = "shutdown" => mailbox = NoSnapshot
    /\ writer = "exited" => mailbox = NoSnapshot

(* Snapshot numbers grow on the way from the database to the UI thread.    *)
OrderInv ==
    /\ Stored <= latest /\ latest <= issued /\ disk <= issued
    /\ acked <= disk
    /\ mailbox # NoSnapshot => Stored < mailbox /\ mailbox <= latest
    /\ job # NoSnapshot => Stored < job /\ job <= latest
    /\ (job # NoSnapshot /\ mailbox # NoSnapshot /\ purpose # "blocking")
          => job < mailbox
    /\ (job # NoSnapshot /\ mailbox # NoSnapshot /\ purpose = "blocking")
          => mailbox < job
    /\ ui = "waking" => latest # NoSnapshot

(* Where the newest snapshot is.                                           *)
NewestInv ==
    (writer # "panicked" /\ latest \notin lost) =>
        \/ latest = Stored
        \/ latest = mailbox
        \/ latest = job
        \/ ui = "sending"
        \/ \E i \in DOMAIN queue : IsBlocking(i) /\ queue[i].state = latest

Inv == TypeOK /\ JobInv /\ BlockingInv /\ ReplyInv /\ ShutdownInv
         /\ OrderInv /\ NewestInv

-----------------------------------------------------------------------------
(* A blocking request and a wakeup are messages of the channel.            *)
LEMMA MessageTypes ==
    /\ MailboxFilled \in WriterMessage
    /\ \A s \in Nat : Blocking(s) \in WriterMessage
    /\ \A m \in WriterMessage :
          m.type \in {"Blocking", "MailboxFilled"} /\ m.state \in Nat
BY DEF WriterMessage, MailboxFilled, Blocking, NoSnapshot

(* Sending: the message goes behind the ones that were there.              *)
LEMMA ChannelAppend ==
    ASSUME NEW q \in Seq(WriterMessage), NEW m \in WriterMessage
    PROVE  /\ Append(q, m) \in Seq(WriterMessage)
           /\ Len(Append(q, m)) = Len(q) + 1
           /\ DOMAIN Append(q, m) = DOMAIN q \cup {Len(q) + 1}
           /\ Append(q, m)[Len(q) + 1] = m
           /\ \A i \in DOMAIN q : i \in Nat /\ i <= Len(q)
                                    /\ Append(q, m)[i] = q[i]
OBVIOUS

(* Receiving: every message but the oldest moves up by one place.          *)
LEMMA ChannelTail ==
    ASSUME NEW q \in Seq(WriterMessage), q # <<>>
    PROVE  /\ Tail(q) \in Seq(WriterMessage)
           /\ Len(Tail(q)) = Len(q) - 1
           /\ 1 \in DOMAIN q /\ Head(q) = q[1] /\ Head(q) \in WriterMessage
           /\ \A i \in DOMAIN Tail(q) : i \in Nat /\ i >= 1
                 /\ i + 1 \in DOMAIN q /\ Tail(q)[i] = q[i + 1]
           /\ \A i \in DOMAIN q : i # 1 =>
                 i - 1 \in DOMAIN Tail(q) /\ Tail(q)[i - 1] = q[i]
OBVIOUS

(* Every step of either thread preserves the types.                        *)
LEMMA TypeStep == TypeOK /\ [Next]_vars => TypeOK'
<1> USE WriterAssumption DEF TypeOK, NoSnapshot, Databases
<1> SUFFICES ASSUME TypeOK, [Next]_vars PROVE TypeOK'
  OBVIOUS
<1> USE DEF uiVars, writerVars, dbVars, history
<1>1. CASE SaveAsync
  BY <1>1 DEF SaveAsync, IssueSave
<1>2. CASE SaveBlocking
  BY <1>2 DEF SaveBlocking, IssueSave
<1>3. CASE DropWriter
  BY <1>3 DEF DropWriter
<1>4. CASE JoinOrDetach
  BY <1>4 DEF JoinOrDetach
<1>5. CASE WakeWriter
  <2>1. queue' \in Seq(WriterMessage) /\ Len(queue') <= Capacity
    BY <1>5, MessageTypes, ChannelAppend DEF WakeWriter
  <2>2. mailbox' \in Nat /\ lost' \in SUBSET Nat
    <3>1. \/ UNCHANGED <<mailbox, lost>>
          \/ mailbox' = NoSnapshot /\ lost' = lost \cup {mailbox}
      BY <1>5, Zenon DEF WakeWriter
    <3>2. CASE UNCHANGED <<mailbox, lost>>
      BY <3>2
    <3>3. CASE mailbox' = NoSnapshot /\ lost' = lost \cup {mailbox}
      BY <3>3
    <3> QED
      BY <3>1, <3>2, <3>3
  <2>3. ui' = "idle" /\ UNCHANGED <<call, reply, writerVars, dbVars, issued,
                                    latest, acked, faults>>
    BY <1>5 DEF WakeWriter
  <2> QED
    BY <2>1, <2>2, <2>3
<1>6. CASE SendBlocking
  <2>1. queue' \in Seq(WriterMessage) /\ Len(queue') <= Capacity
    BY <1>6, MessageTypes, ChannelAppend DEF SendBlocking
  <2> QED
    BY <1>6, <2>1 DEF SendBlocking
<1>7. CASE ReceiveReply
  BY <1>7 DEF ReceiveReply
<1>8. CASE ReplyClosed
  BY <1>8 DEF ReplyClosed
<1>9. CASE MailboxDeadline
  BY <1>9 DEF MailboxDeadline
<1>10. CASE Receive
  BY <1>10, MessageTypes, ChannelTail DEF Receive
<1>11. CASE ThrottleElapsed
  BY <1>11 DEF ThrottleElapsed
<1>12. CASE Disconnected
  BY <1>12 DEF Disconnected
<1>13. CASE TakeMailbox
  BY <1>13 DEF TakeMailbox, AfterWrite
<1>14. CASE WriteSucceeds
  BY <1>14 DEF WriteSucceeds, AfterWrite
<1>15. CASE WriteFails
  BY <1>15 DEF WriteFails, AfterWrite
<1>16. CASE WriterPanics
  BY <1>16 DEF WriterPanics
<1>17. CASE Tick
  BY <1>17 DEF Tick
<1>18. CASE Relaunch
  BY <1>18 DEF Relaunch
<1>19. CASE UNCHANGED vars
  BY <1>19 DEF vars
<1> QED
  BY <1>1, <1>2, <1>3, <1>4, <1>5, <1>6, <1>7, <1>8, <1>9, <1>10, <1>11,
     <1>12, <1>13, <1>14, <1>15, <1>16, <1>17, <1>18, <1>19
     DEF Next, UiStep, WriterStep

(* Type correctness: every variable of the two threads keeps its type, and *)
(* the channel never holds more than CHANNEL_CAPACITY messages.            *)
THEOREM TypeCorrect == Spec => []TypeOK
<1>1. Init => TypeOK
  BY WriterAssumption DEF Init, TypeOK, NoSnapshot, Databases
<1> QED
  BY <1>1, TypeStep, PTL DEF Spec

-----------------------------------------------------------------------------
(* Every step of either thread preserves the inductive invariant.          *)
LEMMA InvStep == Inv /\ [Next]_vars => Inv'
<1> SUFFICES ASSUME Inv, [Next]_vars PROVE Inv'
  OBVIOUS
<1> USE WriterAssumption DEF NoSnapshot, Databases, uiVars, writerVars,
        dbVars, history, Stored, WriterGone, SenderAlive, Writing,
        IsBlocking, Inv, TypeOK, Blocking, MailboxFilled
<1>0. TypeOK'
  BY TypeStep
<1>1. CASE SaveAsync
  <2>1. JobInv'
    BY <1>1 DEF SaveAsync, IssueSave, JobInv, BlockingInv
  <2>2. BlockingInv'
    BY <1>1 DEF SaveAsync, IssueSave, BlockingInv
  <2>3. ReplyInv'
    BY <1>1 DEF SaveAsync, IssueSave, ReplyInv
  <2>4. ShutdownInv'
    BY <1>1 DEF SaveAsync, IssueSave, ShutdownInv
  <2>5. OrderInv'
    BY <1>1 DEF SaveAsync, IssueSave, JobInv, BlockingInv, OrderInv
  <2>6. NewestInv'
    BY <1>1 DEF SaveAsync, IssueSave, NewestInv
  <2> QED
    BY <1>0, <2>1, <2>2, <2>3, <2>4, <2>5, <2>6
<1>2. CASE SaveBlocking
  <2>1. JobInv'
    BY <1>2 DEF SaveBlocking, JobInv
  <2>2. BlockingInv'
    BY <1>2 DEF SaveBlocking, IssueSave, BlockingInv, OrderInv
  <2>3. ReplyInv'
    BY <1>2 DEF SaveBlocking, ReplyInv
  <2>4. ShutdownInv'
    BY <1>2 DEF SaveBlocking, IssueSave, ShutdownInv
  <2>5. OrderInv'
    BY <1>2 DEF SaveBlocking, IssueSave, OrderInv
  <2>6. NewestInv'
    BY <1>2 DEF SaveBlocking, NewestInv
  <2> QED
    BY <1>0, <2>1, <2>2, <2>3, <2>4, <2>5, <2>6
<1>3. CASE DropWriter
  BY <1>0, <1>3 DEF DropWriter, JobInv, BlockingInv, ReplyInv,
     ShutdownInv, OrderInv, NewestInv
<1>4. CASE JoinOrDetach
  BY <1>0, <1>4 DEF JoinOrDetach, JobInv, BlockingInv, ReplyInv,
     ShutdownInv, OrderInv, NewestInv
<1>5. CASE WakeWriter
  <2>1. JobInv'
    BY <1>5 DEF WakeWriter, JobInv
  <2>2. BlockingInv'
    <3>1. \A i \in DOMAIN queue' : ~(IsBlocking(i)')
      <4>1. \A i \in DOMAIN queue : ~IsBlocking(i)
        BY <1>5 DEF WakeWriter, BlockingInv
      <4>2. CASE queue' = Append(queue, MailboxFilled)
        BY <4>1, <4>2, MessageTypes, ChannelAppend
      <4>3. CASE queue' = queue
        BY <4>1, <4>3
      <4> QED
        BY <1>5, <4>2, <4>3 DEF WakeWriter
    <3> QED
      BY <1>5, <3>1 DEF WakeWriter, BlockingInv
  <2>3. ReplyInv'
    BY <1>5 DEF WakeWriter, ReplyInv
  <2>4. ShutdownInv'
    BY <1>5 DEF WakeWriter, ShutdownInv
  <2>5. OrderInv'
    BY <1>5 DEF WakeWriter, OrderInv
  <2>6. NewestInv'
    BY <1>5 DEF WakeWriter, NewestInv
  <2> QED
    BY <1>0, <2>1, <2>2, <2>3, <2>4, <2>5, <2>6
<1>6. CASE SendBlocking
  <2>1. JobInv'
    BY <1>6 DEF SendBlocking, JobInv
  <2>2. BlockingInv'
    <3>1. \A i \in DOMAIN queue : ~IsBlocking(i)
      BY <1>6 DEF SendBlocking, BlockingInv
    <3>2. CASE WriterGone
      BY <1>6, <3>1, <3>2 DEF SendBlocking, BlockingInv
    <3>3. CASE ~WriterGone
      <4>1. queue' = Append(queue, Blocking(call)) /\ ui' = "waiting"
        BY <1>6, <3>3 DEF SendBlocking
      <4>2. \A i \in DOMAIN queue' : IsBlocking(i)' => i = Len(queue) + 1
        BY <1>6, <3>1, <4>1, MessageTypes, ChannelAppend
      <4>3. \A i \in DOMAIN queue' : IsBlocking(i)' => queue'[i].state = call
        BY <4>1, <4>2, MessageTypes, ChannelAppend
      <4> QED
        BY <1>6, <4>1, <4>2, <4>3 DEF SendBlocking, BlockingInv
    <3> QED
      BY <3>2, <3>3
  <2>3. ReplyInv'
    BY <1>6 DEF SendBlocking, ReplyInv
  <2>4. ShutdownInv'
    BY <1>6 DEF SendBlocking, ShutdownInv
  <2>5. OrderInv'
    BY <1>6 DEF SendBlocking, OrderInv
  <2>6. NewestInv'
    BY <1>6 DEF SendBlocking, BlockingInv, NewestInv
  <2> QED
    BY <1>0, <2>1, <2>2, <2>3, <2>4, <2>5, <2>6
<1>7. CASE ReceiveReply
  <2>1. JobInv'
    BY <1>7 DEF ReceiveReply, JobInv
  <2>2. BlockingInv'
    BY <1>7 DEF ReceiveReply, BlockingInv
  <2>3. ReplyInv'
    BY <1>7 DEF ReceiveReply, ReplyInv
  <2>4. ShutdownInv'
    BY <1>7 DEF ReceiveReply, ShutdownInv
  <2>5. OrderInv'
    BY <1>7 DEF ReceiveReply, ReplyInv, OrderInv
  <2>6. NewestInv'
    BY <1>7 DEF ReceiveReply, NewestInv
  <2> QED
    BY <1>0, <2>1, <2>2, <2>3, <2>4, <2>5, <2>6
<1>8. CASE ReplyClosed
  <2>1. JobInv'
    BY <1>8 DEF ReplyClosed, JobInv
  <2>2. BlockingInv'
    BY <1>8 DEF ReplyClosed, BlockingInv, ShutdownInv
  <2>3. ReplyInv'
    BY <1>8 DEF ReplyClosed, ReplyInv
  <2>4. ShutdownInv'
    BY <1>8 DEF ReplyClosed, ShutdownInv
  <2>5. OrderInv'
    BY <1>8 DEF ReplyClosed, OrderInv
  <2>6. NewestInv'
    BY <1>8 DEF ReplyClosed, NewestInv
  <2> QED
    BY <1>0, <2>1, <2>2, <2>3, <2>4, <2>5, <2>6
<1>9. CASE MailboxDeadline
  BY <1>0, <1>9 DEF MailboxDeadline, JobInv, BlockingInv, ReplyInv,
     ShutdownInv, OrderInv, NewestInv
<1>10. CASE Receive
  <2>1. JobInv'
    BY <1>10 DEF Receive, JobInv
  <2>2. BlockingInv'
    BY <1>10 DEF Receive, BlockingInv
  <2>3. ReplyInv'
    BY <1>10 DEF Receive, ReplyInv
  <2>4. ShutdownInv'
    BY <1>10 DEF Receive, ShutdownInv
  <2>5. OrderInv'
    BY <1>10 DEF Receive, BlockingInv, OrderInv
  <2>6. NewestInv'
    <3>1. CASE Head(queue).type = "Blocking"
      <4>1. job' = latest
        BY <1>10, <3>1 DEF Receive, BlockingInv
      <4> QED
        BY <1>10, <4>1 DEF Receive, NewestInv
    <3>2. CASE Head(queue).type = "MailboxFilled"
      <4>1. \A i \in DOMAIN queue : IsBlocking(i) =>
              i - 1 \in DOMAIN queue' /\ queue'[i - 1] = queue[i]
        BY <1>10, <3>2, MessageTypes, ChannelTail DEF Receive
      <4> QED
        BY <1>10, <3>2, <4>1 DEF Receive, NewestInv
    <3> QED
      BY <1>10, <3>1, <3>2 DEF Receive
  <2> QED
    BY <1>0, <2>1, <2>2, <2>3, <2>4, <2>5, <2>6
<1>11. CASE ThrottleElapsed
  <2>1. JobInv'
    BY <1>11 DEF ThrottleElapsed, JobInv
  <2>2. BlockingInv'
    BY <1>11 DEF ThrottleElapsed, BlockingInv
  <2>3. ReplyInv'
    BY <1>11 DEF ThrottleElapsed, ReplyInv
  <2>4. ShutdownInv'
    BY <1>11 DEF ThrottleElapsed, ShutdownInv
  <2>5. OrderInv'
    BY <1>11 DEF ThrottleElapsed, OrderInv
  <2>6. NewestInv'
    BY <1>11 DEF ThrottleElapsed, JobInv, NewestInv
  <2> QED
    BY <1>0, <2>1, <2>2, <2>3, <2>4, <2>5, <2>6
<1>12. CASE Disconnected
  <2>1. JobInv'
    BY <1>12 DEF Disconnected, JobInv
  <2>2. BlockingInv'
    BY <1>12 DEF Disconnected, BlockingInv
  <2>3. ReplyInv'
    BY <1>12 DEF Disconnected, ReplyInv
  <2>4. ShutdownInv'
    BY <1>12 DEF Disconnected, ShutdownInv
  <2>5. OrderInv'
    BY <1>12 DEF Disconnected, OrderInv
  <2>6. NewestInv'
    BY <1>12 DEF Disconnected, JobInv, NewestInv
  <2> QED
    BY <1>0, <2>1, <2>2, <2>3, <2>4, <2>5, <2>6
<1>13. CASE TakeMailbox
  <2>1. JobInv'
    BY <1>13 DEF TakeMailbox, AfterWrite, JobInv
  <2>2. BlockingInv'
    BY <1>13 DEF TakeMailbox, BlockingInv
  <2>3. ReplyInv'
    BY <1>13 DEF TakeMailbox, ReplyInv
  <2>4. ShutdownInv'
    BY <1>13 DEF TakeMailbox, AfterWrite, ShutdownInv
  <2>5. OrderInv'
    BY <1>13 DEF TakeMailbox, OrderInv
  <2>6. NewestInv'
    BY <1>13 DEF TakeMailbox, JobInv, BlockingInv, NewestInv
  <2> QED
    BY <1>0, <2>1, <2>2, <2>3, <2>4, <2>5, <2>6
<1>14. CASE WriteSucceeds
  <2>1. JobInv'
    BY <1>14 DEF WriteSucceeds, AfterWrite, JobInv
  <2>2. BlockingInv'
    BY <1>14 DEF WriteSucceeds, AfterWrite, BlockingInv
  <2>3. ReplyInv'
    BY <1>14 DEF WriteSucceeds, AfterWrite, JobInv, BlockingInv, ReplyInv
  <2>4. ShutdownInv'
    BY <1>14 DEF WriteSucceeds, AfterWrite, ShutdownInv
  <2>5. OrderInv'
    BY <1>14 DEF WriteSucceeds, JobInv, OrderInv
  <2>6. NewestInv'
    BY <1>14 DEF WriteSucceeds, JobInv, OrderInv, NewestInv
  <2> QED
    BY <1>0, <2>1, <2>2, <2>3, <2>4, <2>5, <2>6
<1>15. CASE WriteFails
  <2>1. JobInv'
    BY <1>15 DEF WriteFails, AfterWrite, JobInv
  <2>2. BlockingInv'
    BY <1>15 DEF WriteFails, AfterWrite, BlockingInv
  <2>3. ReplyInv'
    BY <1>15 DEF WriteFails, AfterWrite, JobInv, BlockingInv, ReplyInv
  <2>4. ShutdownInv'
    BY <1>15 DEF WriteFails, AfterWrite, ShutdownInv
  <2>5. OrderInv'
    BY <1>15 DEF WriteFails, OrderInv
  <2>6. NewestInv'
    BY <1>15 DEF WriteFails, NewestInv
  <2> QED
    BY <1>0, <2>1, <2>2, <2>3, <2>4, <2>5, <2>6
<1>16. CASE WriterPanics
  BY <1>0, <1>16 DEF WriterPanics, JobInv, BlockingInv, ReplyInv,
     ShutdownInv, OrderInv, NewestInv
<1>17. CASE Tick
  BY <1>0, <1>17 DEF Tick, JobInv, BlockingInv, ReplyInv,
     ShutdownInv, OrderInv, NewestInv
<1>18. CASE Relaunch
  BY <1>0, <1>18 DEF Relaunch, JobInv, BlockingInv, ReplyInv,
     ShutdownInv, OrderInv, NewestInv
<1>19. CASE UNCHANGED vars
  BY <1>0, <1>19 DEF vars, JobInv, BlockingInv, ReplyInv,
     ShutdownInv, OrderInv, NewestInv
<1> QED
  BY <1>1, <1>2, <1>3, <1>4, <1>5, <1>6, <1>7, <1>8, <1>9, <1>10, <1>11,
     <1>12, <1>13, <1>14, <1>15, <1>16, <1>17, <1>18, <1>19
     DEF Next, UiStep, WriterStep

(* The inductive invariant holds of every reachable state.                 *)
THEOREM Invariance == Spec => []Inv
<1>1. Init => Inv
  BY WriterAssumption DEF Init, Inv, TypeOK, JobInv, BlockingInv, ReplyInv,
     ShutdownInv, OrderInv, NewestInv, NoSnapshot, Databases, Stored,
     WriterGone, SenderAlive, Writing, IsBlocking
<1> QED
  BY <1>1, InvStep, PTL DEF Spec

(* The newest snapshot is never forgotten: whatever the capacity of the    *)
(* channel, a full channel, a blocking save emptying the mailbox and the   *)
(* shutdown all keep it stored or on its way.                              *)
THEOREM NewestKept == Spec => []NewestNotForgotten
<1>1. Inv => NewestNotForgotten
  <2> SUFFICES ASSUME Inv, writer # "panicked", latest \notin lost,
                      latest # Stored
               PROVE  latest \in InFlight
    BY DEF NewestNotForgotten
  <2>1. latest \in {mailbox, job} \cup Queued \cup Sending
    BY DEF Inv, NewestInv, BlockingInv, IsBlocking, Queued, Sending
  <2>2. latest # NoSnapshot
    BY DEF Inv, OrderInv, TypeOK, NoSnapshot, Stored
  <2>3. ~WriterGone
    <3> SUFFICES ASSUME writer = "exited" PROVE FALSE
      BY DEF WriterGone
    <3> QED
      BY <2>1, <2>2 DEF Inv, ShutdownInv, JobInv, WriterGone, Writing,
         SenderAlive, Queued, Sending
  <2> QED
    BY <2>1, <2>2, <2>3 DEF InFlight
<1> QED
  BY <1>1, Invariance, PTL

(* Snapshots reach the database in the order the UI thread built them.     *)
THEOREM InOrder == Spec => []SnapshotsInOrder
<1>1. Inv => SnapshotsInOrder
  <2> SUFFICES ASSUME Inv PROVE SnapshotsInOrder
    OBVIOUS
  <2>1. ASSUME NEW s \in (Queued \cup Sending) \ {NoSnapshot}
        PROVE  s = latest /\ Stored < s /\ mailbox < s /\ job < s
    <3>1. CASE s \in Sending
      BY <3>1 DEF Sending, Inv, BlockingInv
    <3>2. CASE s \in Queued
      <4>1. PICK i \in DOMAIN queue : IsBlocking(i) /\ s = queue[i].state
        BY <3>2 DEF Queued, IsBlocking
      <4>2. s = latest /\ Stored < s /\ job < s
        BY <4>1 DEF Inv, BlockingInv
      <4>3. mailbox < s
        BY <4>1, <4>2 DEF Inv, BlockingInv, TypeOK, NoSnapshot
      <4> QED
        BY <4>2, <4>3
    <3> QED
      BY <3>1, <3>2
  <2> QED
    BY <2>1 DEF SnapshotsInOrder, Inv, OrderInv
<1> QED
  BY <1>1, Invariance, PTL

(* A save_blocking that answers Ok has its snapshot in the database.       *)
THEOREM ReplyIsTrue == Spec => []ReplyMeansStored
<1>1. Inv => ReplyMeansStored
  BY DEF Inv, ReplyInv, ReplyMeansStored
<1> QED
  BY <1>1, Invariance, PTL

(* What save_blocking reported saved to the file stays saved.              *)
THEOREM AckedStays == Spec => []AckedIsDurable
<1>1. Inv => AckedIsDurable
  BY DEF Inv, OrderInv, AckedIsDurable
<1> QED
  BY <1>1, Invariance, PTL

(* No step of either thread, panic or relaunch takes the file back to an   *)
(* older snapshot.                                                         *)
THEOREM NeverBack == Spec => DiskNeverGoesBack
<1>1. Inv /\ [Next]_vars => [disk' >= disk]_vars
  <2> SUFFICES ASSUME Inv, Next PROVE disk' >= disk
    OBVIOUS
  <2>1. CASE WriteSucceeds
    BY <2>1 DEF WriteSucceeds, Inv, TypeOK, JobInv, OrderInv, Stored
  <2>2. CASE ~WriteSucceeds
    <3>1. disk' = disk
      BY <2>2 DEF Next, UiStep, WriterStep, SaveAsync, SaveBlocking,
         DropWriter, JoinOrDetach, WakeWriter, SendBlocking, ReceiveReply,
         ReplyClosed, MailboxDeadline, Receive, ThrottleElapsed,
         Disconnected, TakeMailbox, WriteFails, WriterPanics, Tick, Relaunch,
         dbVars
    <3> QED
      BY <3>1 DEF Inv, TypeOK
  <2> QED
    BY <2>1, <2>2
<1> QED
  BY <1>1, Invariance, PTL DEF Spec, DiskNeverGoesBack
=============================================================================
