--------------------------- MODULE SharesProofs ---------------------------
(***************************************************************************)
(* Proofs about Shares, for any shares, stream threads, contents, limits   *)
(* and bounds: no fetch is suppressed for a copy that got lost, and the    *)
(* queues and threads implement ShareDelivery.                             *)
(*                                                                         *)
(* Inv adds to SuppressedIsOnItsWay the types, what the background pass    *)
(* and a synchronization hold in each of their stages (StageInv), and that *)
(* whatever is held here was sent, and what is acknowledged was decoded    *)
(* (SentInv).  The refinement needs the last two only.                     *)
(***************************************************************************)
EXTENDS Shares, TLAPS

PassRecord == [at : {"idle", "start", "decode", "ack"}, limit : Limits,
               due : Queue, failed : Queue, ids : SUBSET Share]
FetchRecord == [at : {"idle", "fetch", "register", "push"}, todo : SUBSET Share,
                id : Share \union {NoShare}, limit : Limits]
BulkRecord == [at : {"idle", "fetch", "apply"}, todo : SUBSET Share,
               got : SUBSET Share, limit : Limits]
RetryRecord == [attempts : 0..MaxAttempts - 1, waiting : BOOLEAN]

Types ==
    /\ isActive \in BOOLEAN
    /\ server \in [Share -> {"absent", "available", "consumed"}]
    /\ content \in [Share -> Contents]
    /\ limit \in Limits
    /\ ackSet \subseteq Share
    /\ pending \in Queue /\ decrypted \in Queue
    /\ retry \in [Share -> RetryRecord]
    /\ pass \in PassRecord
    /\ fetch \in [Fetcher -> FetchRecord]
    /\ bulk \in BulkRecord
    /\ rounds \in 0..MaxRounds /\ faults \in 0..MaxFaults
    /\ tabs \in Queue
    /\ decoded \subseteq Share /\ givenUp \subseteq Share

\* The pass holds copies only while it decodes, and a synchronization that is
\* not under way got nothing.
StageInv ==
    /\ bulk.at = "idle" => bulk.got = {}
    /\ pass.at = "idle" => pass = IdlePass
    /\ pass.at # "decode" => pass.due = NoCopies /\ pass.failed = NoCopies
    /\ pass.at = "start" => pass.ids = {}

Sent(s) == server[s] # "absent"

SentInv ==
    /\ \A f \in Fetcher :
          /\ \A s \in fetch[f].todo : Sent(s)
          /\ fetch[f].at # "idle" => fetch[f].id \in Share /\ Sent(fetch[f].id)
    /\ \A s \in bulk.todo \union bulk.got : Sent(s)
    /\ \A s \in Share :
          pending[s] + pass.due[s] + pass.failed[s] > 0 => Sent(s)
    /\ \A s \in decoded : Sent(s)
    /\ pass.ids \subseteq decoded

Inv == Types /\ StageInv /\ SentInv /\ SuppressedIsOnItsWay

-----------------------------------------------------------------------------
\* Nothing is held in the states without work.
LEMMA IdleTypes ==
    /\ NoCopies \in Queue /\ NoLimit \in Limits
    /\ IdlePass \in PassRecord /\ IdleFetch \in FetchRecord /\ IdleBulk \in BulkRecord
    /\ \A advertised \in ServerLimits : ResolveMaxFileSize(advertised) \in Limits
<1>1. NoCopies \in Queue
  BY DEF NoCopies, Queue
<1>2. NoLimit \in Limits /\ \A advertised \in ServerLimits : ResolveMaxFileSize(advertised) \in Limits
  BY DEF Limits
<1>3. IdlePass \in PassRecord
  BY <1>1, <1>2 DEF IdlePass, PassRecord
<1>4. IdleFetch \in FetchRecord
  BY <1>2 DEF IdleFetch, FetchRecord
<1>5. IdleBulk \in BulkRecord
  BY <1>2 DEF IdleBulk, BulkRecord
<1>. QED  BY <1>1, <1>2, <1>3, <1>4, <1>5

LEMMA InitInv == Init => Inv
<1>. SUFFICES ASSUME Init PROVE Inv
  OBVIOUS
<1>t. Types
  <2>1. [s \in Share |-> NoRetry] \in [Share -> RetryRecord]
    BY SharesAssumption DEF NoRetry, RetryRecord
  <2>2. [s \in Share |-> 0] \in Queue
    BY DEF Queue
  <2>. QED  BY <2>1, <2>2, IdleTypes, SharesAssumption DEF Init, Types
<1>p. StageInv
  BY DEF Init, StageInv, IdlePass, IdleBulk
<1>e. SentInv
  BY DEF Init, SentInv, Sent, IdleFetch, IdleBulk, IdlePass, NoCopies
<1>a. SuppressedIsOnItsWay
  BY DEF Init, SuppressedIsOnItsWay
<1>. QED  BY <1>t, <1>p, <1>e, <1>a DEF Inv

-----------------------------------------------------------------------------
(* The other devices, and a stream thread. *)

LEMMA ShareFileStep ==
    ASSUME Inv, NEW s \in Share, NEW max \in Limits, ShareFile(s, max)
    PROVE  Inv'
<1>t. Types'
  BY DEF Inv, Types, ShareFile, queues, history
<1>p. StageInv'
  BY DEF Inv, StageInv, ShareFile, queues, history
<1>e. SentInv'
  BY DEF Inv, Types, SentInv, Sent, ShareFile, queues, history
<1>a. SuppressedIsOnItsWay'
  BY DEF Inv, Types, SuppressedIsOnItsWay, OnItsWay, ShareFile, queues, history
<1>. QED  BY <1>t, <1>p, <1>e, <1>a DEF Inv

\* What a stream thread does leaves all but its own record, the acknowledgement
\* set and the pending shares alone.  Its record holds what was sent, it pushes
\* nothing else, and it registers only what it is about to push.
Threads(f, r) ==
    /\ fetch' = [fetch EXCEPT ![f] = r]
    /\ \A s \in r.todo : Sent(s)
    /\ r.at # "idle" => r.id \in Share /\ Sent(r.id)
    /\ rounds' \in 0..MaxRounds /\ faults' \in 0..MaxFaults
Pushes(f) ==
    /\ pending' \in Queue
    /\ \A s \in Share : pending'[s] >= pending[s]
                        /\ (pending'[s] > pending[s] => Sent(s))
    /\ fetch[f].at = "push" => pending'[fetch[f].id] > 0
Registers(r) ==
    \A s \in ackSet' : s \in Share /\ (s \in ackSet \/ (r.at = "push" /\ r.id = s))

LEMMA FetchSteps ==
    ASSUME Inv, FetchStep, NEW f \in Fetcher, NEW r \in FetchRecord,
           Threads(f, r), Pushes(f), Registers(r)
    PROVE  Inv'
<1>. USE DEF FetchStep, history, Threads, Pushes, Registers
<1>t. Types'
  BY DEF Inv, Types
<1>p. StageInv'
  BY DEF Inv, StageInv
<1>1. \A s \in Share : /\ pending[s] \in Nat /\ pending'[s] \in Nat
                       /\ pass.due[s] \in Nat /\ pass.failed[s] \in Nat
  BY DEF Inv, Types, Queue, PassRecord
<1>2. \A g \in Fetcher : fetch'[g] = IF g = f THEN r ELSE fetch[g]
  BY DEF Inv, Types
<1>e. SentInv'
  <2>1. \A s \in Share : pending'[s] + pass.due[s] + pass.failed[s] > 0 => Sent(s)
    BY <1>1 DEF Inv, SentInv
  <2>. QED  BY <1>2, <2>1 DEF Inv, SentInv, Sent
<1>a. SuppressedIsOnItsWay'
  <2>. SUFFICES ASSUME NEW s \in ackSet'
                PROVE  OnItsWay(s)' \/ s \in decoded \/ s \in givenUp
    BY DEF SuppressedIsOnItsWay
  <2>1. CASE r.at = "push" /\ r.id = s
    BY <1>2, <2>1 DEF OnItsWay
  <2>2. CASE fetch[f].at = "push" /\ fetch[f].id = s
    BY <1>1, <2>2 DEF OnItsWay
  <2>3. CASE s \in ackSet /\ ~(fetch[f].at = "push" /\ fetch[f].id = s)
    BY <1>1, <1>2, <2>3 DEF Inv, SuppressedIsOnItsWay, OnItsWay
  <2>. QED  BY <2>1, <2>2, <2>3
<1>. QED  BY <1>t, <1>p, <1>e, <1>a DEF Inv

LEMMA FetchFields ==
    ASSUME Types, NEW f \in Fetcher
    PROVE  /\ fetch[f] \in FetchRecord
           /\ fetch[f].todo \subseteq Share /\ fetch[f].id \in Share \union {NoShare}
           /\ fetch[f].limit \in Limits
<1>1. fetch[f] \in FetchRecord
  BY DEF Types
<1>. QED  BY <1>1 DEF FetchRecord

\* Counters stay within their bounds.
LEMMA Counters ==
    ASSUME Types
    PROVE  /\ rounds \in 0..MaxRounds /\ faults \in 0..MaxFaults
           /\ StartRound => rounds' \in 0..MaxRounds
           /\ Fault => faults' \in 0..MaxFaults
BY SharesAssumption DEF Types, StartRound, Fault

\* Most steps of a thread push and register nothing.
LEMMA QuietThread ==
    ASSUME Inv, NEW f \in Fetcher, NEW r
    PROVE  /\ UNCHANGED pending /\ fetch[f].at # "push" => Pushes(f)
           /\ UNCHANGED ackSet => Registers(r)
<1>1. /\ ackSet \subseteq Share /\ pending \in Queue
      /\ \A s \in Share : pending[s] \in Nat
  BY DEF Inv, Types, Queue
<1>. QED  BY <1>1 DEF Pushes, Registers

\* A thread holds only what was sent.
LEMMA HoldsSent ==
    ASSUME Inv, NEW f \in Fetcher
    PROVE  /\ \A s \in fetch[f].todo : Sent(s)
           /\ fetch[f].at # "idle" => fetch[f].id \in Share /\ Sent(fetch[f].id)
BY DEF Inv, SentInv

LEMMA AnnounceStep ==
    ASSUME Inv, NEW f \in Fetcher, Announce(f)
    PROVE  Inv'
<1>1. PICK ids \in {{s} : s \in {x \in Share : server[x] # "absent"}}
                    \union ({Available} \ {{}}) :
          fetch' = [fetch EXCEPT ![f].todo = ids]
  BY DEF Announce
<1>2. ids \subseteq Share /\ \A s \in ids : Sent(s)
  BY DEF Available, Sent
<1>. DEFINE r == [fetch[f] EXCEPT !.todo = ids]
<1>3. fetch' = [fetch EXCEPT ![f] = r]
  BY <1>1
<1>4. r \in FetchRecord /\ r.todo = ids /\ r.at = "idle" /\ fetch[f].at = "idle"
  BY <1>2, FetchFields DEF Inv, FetchRecord, Announce, IdleFetch
<1>5. FetchStep /\ UNCHANGED <<ackSet, pending>>
  BY DEF Announce
<1>6. rounds' \in 0..MaxRounds /\ faults' \in 0..MaxFaults
  BY Counters DEF Inv, Announce
<1>. HIDE DEF r
<1>7. Threads(f, r)
  BY <1>2, <1>3, <1>4, <1>6 DEF Threads
<1>8. Pushes(f) /\ Registers(r)
  BY <1>4, <1>5, QuietThread
<1>. QED  BY <1>4, <1>5, <1>7, <1>8, FetchSteps

LEMMA LookUpStep ==
    ASSUME Inv, NEW f \in Fetcher, NEW s \in Share, LookUp(f, s)
    PROVE  Inv'
<1>1. /\ fetch[f].at = "idle" /\ s \in fetch[f].todo
      /\ FetchStep /\ UNCHANGED <<ackSet, pending, rounds, faults>>
  BY DEF LookUp
<1>2. Sent(s) /\ \A x \in fetch[f].todo : Sent(x)
  BY <1>1, HoldsSent
<1>3. rounds' \in 0..MaxRounds /\ faults' \in 0..MaxFaults
  BY <1>1, Counters DEF Inv
<1>4. limit \in Limits
  BY DEF Inv, Types
<1>5. CASE s \in ackSet
  <2>. DEFINE r == [IdleFetch EXCEPT !.todo = fetch[f].todo \ {s}]
  <2>1. fetch' = [fetch EXCEPT ![f] = r]
    BY <1>5 DEF LookUp
  <2>2. r \in FetchRecord /\ r.todo \subseteq fetch[f].todo /\ r.at = "idle"
    BY FetchFields, IdleTypes DEF Inv, FetchRecord, IdleFetch
  <2>. HIDE DEF r
  <2>3. Threads(f, r)
    BY <1>2, <1>3, <2>1, <2>2 DEF Threads
  <2>4. Pushes(f) /\ Registers(r)
    BY <1>1, QuietThread
  <2>. QED  BY <1>1, <2>2, <2>3, <2>4, FetchSteps
<1>6. CASE s \notin ackSet
  <2>. DEFINE r == [at |-> "fetch", todo |-> fetch[f].todo \ {s}, id |-> s, limit |-> limit]
  <2>1. fetch' = [fetch EXCEPT ![f] = r]
    BY <1>6 DEF LookUp
  <2>2. r \in FetchRecord /\ r.todo \subseteq fetch[f].todo /\ r.at = "fetch" /\ r.id = s
    BY <1>4, FetchFields DEF Inv, FetchRecord
  <2>. HIDE DEF r
  <2>3. Threads(f, r)
    BY <1>2, <1>3, <2>1, <2>2 DEF Threads
  <2>4. Pushes(f) /\ Registers(r)
    BY <1>1, QuietThread
  <2>. QED  BY <1>1, <2>2, <2>3, <2>4, FetchSteps
<1>. QED  BY <1>5, <1>6

LEMMA FetchedStep ==
    ASSUME Inv, NEW f \in Fetcher, Fetched(f)
    PROVE  Inv'
<1>. DEFINE q == fetch[f]
            r1 == [q EXCEPT !.at = "register"]
            r2 == [IdleFetch EXCEPT !.todo = q.todo]
<1>1. q.at = "fetch" /\ FetchStep /\ UNCHANGED <<ackSet, pending, rounds>>
  BY DEF Fetched
<1>2. q.id \in Share /\ Sent(q.id) /\ \A x \in q.todo : Sent(x)
  BY <1>1, HoldsSent
<1>3. rounds' \in 0..MaxRounds /\ faults' \in 0..MaxFaults
  BY Counters DEF Inv, Fetched
<1>4. fetch' = [fetch EXCEPT ![f] = r1] \/ fetch' = [fetch EXCEPT ![f] = r2]
  BY DEF Fetched, At
<1>5. r1 \in FetchRecord /\ r1.todo = q.todo /\ r1.id = q.id /\ r1.at = "register"
  BY FetchFields DEF Inv, FetchRecord
<1>6. r2 \in FetchRecord /\ r2.todo = q.todo /\ r2.at = "idle"
  BY FetchFields, IdleTypes DEF Inv, FetchRecord, IdleFetch
<1>. HIDE DEF r1, r2
<1>7. Pushes(f) /\ Registers(r1) /\ Registers(r2)
  BY <1>1, QuietThread
<1>8. CASE fetch' = [fetch EXCEPT ![f] = r1]
  <2>1. Threads(f, r1)
    BY <1>2, <1>3, <1>5, <1>8 DEF Threads
  <2>. QED  BY <1>1, <1>5, <1>7, <2>1, FetchSteps
<1>9. CASE fetch' = [fetch EXCEPT ![f] = r2]
  <2>1. Threads(f, r2)
    BY <1>2, <1>3, <1>6, <1>9 DEF Threads
  <2>. QED  BY <1>1, <1>6, <1>7, <2>1, FetchSteps
<1>. QED  BY <1>4, <1>8, <1>9

\* A share is registered before it is pushed: the thread that pushes it is its
\* way to a tab.
LEMMA RegisterStep ==
    ASSUME Inv, NEW f \in Fetcher, Register(f)
    PROVE  Inv'
<1>. DEFINE q == fetch[f]
            r == [q EXCEPT !.at = "push"]
<1>1. /\ q.at = "register" /\ FetchStep /\ UNCHANGED <<pending, rounds, faults>>
      /\ ackSet' = ackSet \union {q.id}
      /\ fetch' = [fetch EXCEPT ![f] = r]
  BY DEF Register, At
<1>2. q.id \in Share /\ Sent(q.id) /\ \A x \in q.todo : Sent(x)
  BY <1>1, HoldsSent
<1>3. r \in FetchRecord /\ r.todo = q.todo /\ r.id = q.id /\ r.at = "push"
  BY FetchFields DEF Inv, FetchRecord
<1>4. ackSet \subseteq Share /\ rounds' \in 0..MaxRounds /\ faults' \in 0..MaxFaults
  BY <1>1, Counters DEF Inv, Types
<1>. HIDE DEF r
<1>5. Threads(f, r)
  BY <1>1, <1>2, <1>3, <1>4 DEF Threads
<1>6. Pushes(f)
  BY <1>1, QuietThread
<1>7. Registers(r)
  BY <1>1, <1>2, <1>3, <1>4 DEF Registers
<1>. QED  BY <1>1, <1>3, <1>5, <1>6, <1>7, FetchSteps

LEMMA PushStep ==
    ASSUME Inv, NEW f \in Fetcher, Push(f)
    PROVE  Inv'
<1>. DEFINE q == fetch[f]
            r == [IdleFetch EXCEPT !.todo = q.todo]
<1>1. /\ q.at = "push" /\ FetchStep /\ UNCHANGED <<ackSet, rounds, faults>>
      /\ pending' = [pending EXCEPT ![q.id] = @ + 1]
      /\ fetch' = [fetch EXCEPT ![f] = r]
  BY DEF Push
<1>2. q.id \in Share /\ Sent(q.id) /\ \A x \in q.todo : Sent(x)
  BY <1>1, HoldsSent
<1>3. r \in FetchRecord /\ r.todo = q.todo /\ r.at = "idle"
  BY FetchFields, IdleTypes DEF Inv, FetchRecord, IdleFetch
<1>4. rounds' \in 0..MaxRounds /\ faults' \in 0..MaxFaults
  BY <1>1, Counters DEF Inv
<1>5. pending \in [Share -> Nat]
  BY DEF Inv, Types, Queue
<1>6. /\ pending' \in Queue
      /\ \A s \in Share : pending'[s] = IF s = q.id THEN pending[s] + 1 ELSE pending[s]
  BY <1>1, <1>2, <1>5 DEF Queue
<1>. HIDE DEF r
<1>7. Threads(f, r)
  BY <1>1, <1>2, <1>3, <1>4 DEF Threads
<1>8. Pushes(f)
  BY <1>1, <1>2, <1>5, <1>6 DEF Pushes
<1>9. Registers(r)
  BY <1>1, QuietThread
<1>. QED  BY <1>1, <1>3, <1>7, <1>8, <1>9, FetchSteps

-----------------------------------------------------------------------------
(* The initial synchronization. *)

LEMMA BulkFields ==
    ASSUME Types
    PROVE  /\ bulk \in BulkRecord
           /\ bulk.todo \subseteq Share /\ bulk.got \subseteq Share
           /\ bulk.limit \in Limits /\ bulk.at \in {"idle", "fetch", "apply"}
BY DEF Types, BulkRecord

\* It leaves the streams and the pass alone, and gets only what was sent.
LEMMA BulkSteps ==
    ASSUME Inv, BulkStep, NEW r \in BulkRecord, bulk' = r,
           \A s \in r.todo \union r.got : Sent(s),
           limit' \in Limits, rounds' \in 0..MaxRounds, faults' \in 0..MaxFaults,
           ackSet' \subseteq ackSet \union r.got,
           UNCHANGED pending,
           bulk.got \subseteq r.got, r.at # "idle"
    PROVE  Inv'
<1>. USE DEF BulkStep, history
<1>t. Types'
  <2>1. ackSet' \subseteq Share
    BY DEF Inv, Types, BulkRecord
  <2>. QED  BY <2>1 DEF Inv, Types
<1>p. StageInv'
  BY DEF Inv, StageInv
<1>e. SentInv'
  BY DEF Inv, SentInv, Sent
<1>a. SuppressedIsOnItsWay'
  BY DEF Inv, SuppressedIsOnItsWay, OnItsWay
<1>. QED  BY <1>t, <1>p, <1>e, <1>a DEF Inv

LEMMA BeginStep ==
    ASSUME Inv, Begin
    PROVE  Inv'
<1>1. PICK advertised \in ServerLimits :
          bulk' = [at |-> "fetch", todo |-> Available, got |-> {},
                   limit |-> ResolveMaxFileSize(advertised)]
  BY DEF Begin
<1>. DEFINE r == [at |-> "fetch", todo |-> Available, got |-> {},
                  limit |-> ResolveMaxFileSize(advertised)]
<1>2. r \in BulkRecord
  BY IdleTypes DEF BulkRecord, Available
<1>3. \A s \in r.todo \union r.got : Sent(s)
  BY DEF Available, Sent
<1>4. rounds' \in 0..MaxRounds /\ faults' \in 0..MaxFaults
  BY Counters DEF Inv, Begin
<1>5. bulk.at = "idle" /\ BulkStep /\ UNCHANGED <<limit, ackSet, pending>>
  BY DEF Begin
<1>6. bulk' = r /\ r.at # "idle" /\ bulk.got \subseteq r.got
  BY <1>1, <1>5 DEF Inv, StageInv
<1>7. limit' \in Limits
  BY <1>5 DEF Inv, Types
<1>. HIDE DEF r
<1>. QED  BY <1>2, <1>3, <1>4, <1>5, <1>6, <1>7, BulkSteps

LEMMA BulkFetchedStep ==
    ASSUME Inv, NEW s \in Share, BulkFetched(s)
    PROVE  Inv'
<1>. DEFINE r1 == [bulk EXCEPT !.todo = @ \ {s}, !.got = @ \union {s}]
            r2 == [bulk EXCEPT !.todo = @ \ {s}]
<1>1. /\ bulk.at = "fetch" /\ s \in bulk.todo
      /\ BulkStep /\ UNCHANGED <<limit, ackSet, pending, rounds>>
  BY DEF BulkFetched
<1>2. \A x \in bulk.todo \union bulk.got : Sent(x)
  BY DEF Inv, SentInv
<1>3. rounds' \in 0..MaxRounds /\ faults' \in 0..MaxFaults
  BY Counters DEF Inv, BulkFetched
<1>4. bulk' = r1 \/ bulk' = r2
  BY DEF BulkFetched
<1>5. /\ r1 \in BulkRecord /\ r1.at # "idle" /\ bulk.got \subseteq r1.got
      /\ r1.todo \union r1.got \subseteq bulk.todo \union bulk.got
  BY <1>1, BulkFields DEF Inv, BulkRecord
<1>6. /\ r2 \in BulkRecord /\ r2.at # "idle" /\ bulk.got \subseteq r2.got
      /\ r2.todo \union r2.got \subseteq bulk.todo \union bulk.got
  BY <1>1, BulkFields DEF Inv, BulkRecord
<1>7. limit' \in Limits
  BY <1>1 DEF Inv, Types
<1>. HIDE DEF r1, r2
<1>8. CASE bulk' = r1
  BY <1>1, <1>2, <1>3, <1>5, <1>7, <1>8, BulkSteps
<1>9. CASE bulk' = r2
  BY <1>1, <1>2, <1>3, <1>6, <1>7, <1>9, BulkSteps
<1>. QED  BY <1>4, <1>8, <1>9

LEMMA BulkRegisterStep ==
    ASSUME Inv, BulkRegister
    PROVE  Inv'
<1>. DEFINE r == [bulk EXCEPT !.at = "apply"]
<1>1. /\ bulk' = r /\ ackSet' = ackSet \union bulk.got
      /\ BulkStep /\ UNCHANGED <<limit, pending, rounds, faults>>
  BY DEF BulkRegister
<1>2. \A x \in bulk.todo \union bulk.got : Sent(x)
  BY DEF Inv, SentInv
<1>3. rounds' \in 0..MaxRounds /\ faults' \in 0..MaxFaults
  BY <1>1, Counters DEF Inv
<1>4. r \in BulkRecord /\ r.at # "idle" /\ r.got = bulk.got /\ r.todo = bulk.todo
  BY BulkFields DEF Inv, BulkRecord
<1>5. limit' \in Limits
  BY <1>1 DEF Inv, Types
<1>. HIDE DEF r
<1>. QED  BY <1>1, <1>2, <1>3, <1>4, <1>5, BulkSteps

\* What a synchronization got is pending afterwards, if it was not already.
LEMMA BulkApplyStep ==
    ASSUME Inv, BulkApply
    PROVE  Inv'
<1>. USE DEF BulkStep, history
<1>1. /\ bulk' = IdleBulk /\ bulk'.at = "idle" /\ bulk'.got = {} /\ bulk'.todo = {}
      /\ BulkStep /\ UNCHANGED <<ackSet, rounds, faults>>
  BY DEF BulkApply, IdleBulk
<1>2. \A s \in Share : /\ pending[s] \in Nat
                       /\ pass.due[s] \in Nat /\ pass.failed[s] \in Nat
  BY DEF Inv, Types, Queue, PassRecord
<1>3. pending' = [s \in Share |-> IF s \in bulk.got /\ pending[s] = 0
                                  THEN pending[s] + 1 ELSE pending[s]]
  BY <1>2 DEF BulkApply, Unseen, Held
<1>4. \A s \in Share : /\ pending'[s] = IF s \in bulk.got /\ pending[s] = 0
                                       THEN pending[s] + 1 ELSE pending[s]
                       /\ pending'[s] \in Nat
  BY <1>2, <1>3
<1>t. Types'
  <2>1. pending' \in Queue
    BY <1>2, <1>3 DEF Queue
  <2>2. limit' \in Limits
    BY BulkFields DEF Inv, BulkApply
  <2>. QED  BY <1>1, <2>1, <2>2, IdleTypes DEF Inv, Types
<1>p. StageInv'
  BY <1>1 DEF Inv, StageInv
<1>e. SentInv'
  BY <1>1, <1>2, <1>4 DEF Inv, SentInv, Sent
<1>a. SuppressedIsOnItsWay'
  <2>. SUFFICES ASSUME NEW s \in ackSet'
                PROVE  OnItsWay(s)' \/ s \in decoded \/ s \in givenUp
    BY <1>1 DEF SuppressedIsOnItsWay
  <2>1. s \in Share /\ s \in ackSet
    BY <1>1 DEF Inv, Types
  <2>2. CASE s \in bulk.got
    BY <1>1, <1>2, <1>4, <2>1, <2>2 DEF OnItsWay
  <2>3. CASE s \notin bulk.got
    BY <1>1, <1>2, <1>4, <2>1, <2>3 DEF Inv, SuppressedIsOnItsWay, OnItsWay
  <2>. QED  BY <2>2, <2>3
<1>. QED  BY <1>t, <1>p, <1>e, <1>a DEF Inv

-----------------------------------------------------------------------------
(* The render loop, the background pass and the backoff windows. *)

LEMMA PassFields ==
    ASSUME Types
    PROVE  /\ pass \in PassRecord /\ pass.limit \in Limits
           /\ pass.due \in Queue /\ pass.failed \in Queue /\ pass.ids \subseteq Share
           /\ pass.at \in {"idle", "start", "decode", "ack"}
           /\ \A s \in Share : /\ pending[s] \in Nat /\ decrypted[s] \in Nat
                               /\ pass.due[s] \in Nat /\ pass.failed[s] \in Nat
<1>1. pass \in PassRecord /\ pending \in Queue /\ decrypted \in Queue
  BY DEF Types
<1>. QED  BY <1>1 DEF PassRecord, Queue

\* The copies of a share that are not decoded yet.
Copies(s) == pending[s] + pass.due[s] + pass.failed[s]

\* They only become fewer here, and none that a registered share depends on gets
\* lost: it is decoded or given up.
Moves ==
    /\ \A s \in Share : Sent(s) => Sent(s)'
    /\ \A s \in Share : Copies(s)' > 0 => Copies(s) > 0
    /\ ackSet' \subseteq ackSet
    /\ \A s \in ackSet' :
          Copies(s) > 0 => Copies(s)' > 0 \/ s \in decoded' \/ s \in givenUp'
    /\ decoded \subseteq decoded' /\ givenUp \subseteq givenUp'
    /\ \A s \in decoded' : s \in decoded \/ Sent(s)
    /\ pass'.ids \subseteq decoded'

LEMMA PassSteps ==
    ASSUME Inv, Types', StageInv', UNCHANGED <<fetch, bulk>>, Moves
    PROVE  Inv'
<1>1. /\ decoded \subseteq Share /\ decoded' \subseteq Share /\ ackSet \subseteq Share
      /\ bulk.todo \subseteq Share /\ bulk.got \subseteq Share
      /\ \A f \in Fetcher : fetch[f].todo \subseteq Share
  BY BulkFields, FetchFields DEF Inv, Types
<1>e. SentInv'
  <2>1. \A s \in Share : Sent(s) => Sent(s)'
    BY DEF Moves
  <2>2. \A f \in Fetcher :
          /\ \A s \in fetch'[f].todo : Sent(s)'
          /\ fetch'[f].at # "idle" => fetch'[f].id \in Share /\ Sent(fetch[f].id)'
    BY <1>1, <2>1 DEF Inv, SentInv
  <2>3. \A s \in bulk'.todo \union bulk'.got : Sent(s)'
    BY <1>1, <2>1 DEF Inv, SentInv
  <2>4. \A s \in Share : Copies(s)' > 0 => Sent(s)'
    BY <2>1 DEF Inv, SentInv, Moves, Copies
  <2>5. \A s \in decoded' : Sent(s)'
    BY <1>1, <2>1 DEF Inv, SentInv, Moves
  <2>. QED  BY <2>2, <2>3, <2>4, <2>5 DEF SentInv, Sent, Copies, Moves
<1>a. SuppressedIsOnItsWay'
  BY <1>1 DEF Inv, SuppressedIsOnItsWay, OnItsWay, Moves, Copies
<1>. QED  BY <1>e, <1>a DEF Inv

LEMMA ToggleActiveStep ==
    ASSUME Inv, ToggleActive
    PROVE  Inv'
<1>1. /\ isActive' \in BOOLEAN /\ (faults' = faults \/ Fault)
      /\ UNCHANGED <<server, content, limit, ackSet, pending, retry, decrypted, pass,
                     fetch, bulk, rounds, tabs, decoded, givenUp>>
  BY DEF Inv, Types, ToggleActive, queues, history
<1>2. faults' \in 0..MaxFaults
  BY <1>1, Counters DEF Inv, Types
<1>t. Types'
  BY <1>1, <1>2 DEF Inv, Types
<1>p. StageInv'
  BY <1>1 DEF Inv, StageInv
<1>e. SentInv'
  BY <1>1 DEF Inv, SentInv, Sent
<1>a. SuppressedIsOnItsWay'
  BY <1>1 DEF Inv, SuppressedIsOnItsWay, OnItsWay
<1>. QED  BY <1>t, <1>p, <1>e, <1>a DEF Inv

LEMMA RenderStep ==
    ASSUME Inv, Render
    PROVE  Inv'
<1>1. /\ pass' = pass \/ (pass.at = "idle" /\ pass' = [pass EXCEPT !.at = "start"])
      /\ tabs' = [s \in Share |-> tabs[s] + decrypted[s]] /\ decrypted' = NoCopies
      /\ UNCHANGED <<isActive, server, content, limit, ackSet, pending, retry, fetch,
                     bulk, rounds, faults, decoded, givenUp>>
  BY DEF Render
<1>2. /\ pass' \in PassRecord /\ pass'.due = pass.due /\ pass'.failed = pass.failed
      /\ pass'.ids = pass.ids /\ (pass'.at = pass.at \/ pass'.at = "start")
  BY <1>1, PassFields DEF Inv, PassRecord
<1>3. tabs' \in Queue
  BY <1>1, PassFields DEF Inv, Types, Queue
<1>t. Types'
  BY <1>1, <1>2, <1>3, IdleTypes DEF Inv, Types
<1>p. StageInv'
  <2>1. CASE pass' = pass
    BY <1>1, <2>1 DEF Inv, StageInv
  <2>2. CASE pass.at = "idle" /\ pass' = [pass EXCEPT !.at = "start"]
    BY <1>1, <1>2, <2>2, PassFields DEF Inv, StageInv, IdlePass, PassRecord
  <2>. QED  BY <1>1, <2>1, <2>2
<1>m. Moves
  BY <1>1, <1>2, PassFields DEF Inv, SentInv, Moves, Copies, Sent, Types
<1>. QED  BY <1>1, <1>t, <1>p, <1>m, PassSteps

\* The part of a queue that is taken, and the part that stays.
LEMMA AmongFields ==
    ASSUME NEW q \in Queue, NEW ids
    PROVE  /\ Among(q, ids) \in Queue
           /\ \A s \in Share : Among(q, ids)[s] = IF s \in ids THEN q[s] ELSE 0
BY DEF Among, Queue

LEMMA PlusFields ==
    ASSUME NEW p \in Queue, NEW q \in Queue
    PROVE  /\ Plus(p, q) \in Queue
           /\ \A s \in Share : Plus(p, q)[s] = p[s] + q[s]
BY DEF Plus, Queue

\* What is due moves to the pass, to be decoded or, without a key, to fail.
LEMMA TakeDueMoves ==
    ASSUME Inv, TakeDue \/ KeyMissing
    PROVE  /\ pass' \in PassRecord /\ pass'.at = "decode" /\ pass'.ids = {}
           /\ pending' \in Queue
           /\ \A s \in Share : Copies(s)' = Copies(s)
<1>. DEFINE ready == Ready
            due == DueCopies
            r1 == [at |-> "decode", limit |-> limit, due |-> due,
                   failed |-> NoCopies, ids |-> {}]
            r2 == [at |-> "decode", limit |-> limit, due |-> NoCopies,
                   failed |-> due, ids |-> {}]
<1>1. pass.due = NoCopies /\ pass.failed = NoCopies
  BY DEF Inv, StageInv, TakeDue, KeyMissing
<1>2. pending' = Among(pending, Share \ ready) /\ (pass' = r1 \/ pass' = r2)
  BY DEF TakeDue, KeyMissing
<1>3. pending \in Queue /\ limit \in Limits
  BY DEF Inv, Types
<1>4. /\ due \in Queue /\ pending' \in Queue
      /\ \A s \in Share : /\ due[s] = IF s \in ready THEN pending[s] ELSE 0
                          /\ pending'[s] = IF s \in Share \ ready THEN pending[s] ELSE 0
  BY <1>2, <1>3, AmongFields DEF DueCopies
<1>5. \A s \in Share : NoCopies[s] = 0 /\ pending[s] \in Nat
  BY <1>3 DEF NoCopies, Queue
<1>. HIDE DEF due, ready
<1>6. r1 \in PassRecord /\ r2 \in PassRecord
  BY <1>3, <1>4, IdleTypes DEF PassRecord
<1>7. \A s \in Share : pass'.due[s] + pass'.failed[s] = due[s]
  <2>1. \A s \in Share : due[s] \in Nat
    BY <1>4 DEF Queue
  <2>. QED  BY <1>2, <1>5, <2>1
<1>8. \A s \in Share : pass'.due[s] \in Nat /\ pass'.failed[s] \in Nat /\ due[s] \in Nat
  BY <1>2, <1>4, <1>5, IdleTypes DEF Queue
<1>9. ASSUME NEW s \in Share PROVE Copies(s)' = Copies(s)
  <2>1. Copies(s)' = pending'[s] + due[s]
    BY <1>4, <1>5, <1>7, <1>8 DEF Copies
  <2>2. Copies(s) = pending[s]
    BY <1>1, <1>5 DEF Copies
  <2>. QED  BY <1>4, <1>5, <2>1, <2>2
<1>. QED  BY <1>2, <1>4, <1>6, <1>9

LEMMA TakeDueStep ==
    ASSUME Inv, TakeDue \/ KeyMissing
    PROVE  Inv'
<1>1. /\ PassStep /\ UNCHANGED <<server, ackSet, decrypted, decoded, givenUp>>
      /\ pass' \in PassRecord /\ pass'.at = "decode" /\ pass'.ids = {}
      /\ pending' \in Queue /\ \A s \in Share : Copies(s)' = Copies(s)
  BY TakeDueMoves DEF TakeDue, KeyMissing
<1>2. faults' \in 0..MaxFaults
  BY DEF Inv, Types, TakeDue, KeyMissing
<1>3. retry' \in [Share -> RetryRecord]
  <2>1. retry \in [Share -> RetryRecord]
    BY DEF Inv, Types
  <2>2. \A s \in Share : [retry[s] EXCEPT !.waiting = TRUE] \in RetryRecord
    BY <2>1 DEF RetryRecord
  <2>. QED  BY <2>1, <2>2 DEF TakeDue, KeyMissing
<1>t. Types'
  BY <1>1, <1>2, <1>3 DEF Inv, Types, PassStep
<1>p. StageInv'
  BY <1>1 DEF Inv, StageInv, PassStep
<1>m. Moves
  <2>1. \A s \in Share : Copies(s)' > 0 <=> Copies(s) > 0
    BY <1>1
  <2>2. decoded \subseteq Share /\ ackSet \subseteq Share
    BY DEF Inv, Types
  <2>. QED  BY <1>1, <2>1, <2>2 DEF Moves, Sent
<1>. QED  BY <1>1, <1>t, <1>p, <1>m, PassSteps DEF PassStep

\* What the pass makes of a share it has taken: it drops a copy for good, it
\* decodes one, or it sets one aside to be tried again.
GivesUp(s) ==
    /\ pass' = [pass EXCEPT !.due[s] = @ - 1]
    /\ givenUp' = givenUp \union {s}
    /\ UNCHANGED <<decrypted, decoded>>
Succeeds(s) ==
    /\ pass' = [pass EXCEPT !.due[s] = @ - 1, !.ids = @ \union {s}]
    /\ decrypted' = [decrypted EXCEPT ![s] = @ + 1]
    /\ decoded' = decoded \union {s}
    /\ UNCHANGED givenUp
SetsAside(s) ==
    /\ pass' = [pass EXCEPT !.due[s] = @ - 1, !.failed[s] = @ + 1]
    /\ UNCHANGED <<decrypted, decoded, givenUp>>

LEMMA DecodeOutcomes ==
    ASSUME Inv, DecodeNext
    PROVE  /\ pass.at = "decode"
           /\ \E s \in Share : /\ pass.due[s] > 0
                               /\ GivesUp(s) \/ Succeeds(s) \/ SetsAside(s)
           /\ retry' \in [Share -> RetryRecord]
<1>1. PICK s \in Held(pass.due) :
           \/ /\ Exceeds(content[s].wire, pass.limit)
              /\ pass' = [pass EXCEPT !.due[s] = @ - 1]
              /\ givenUp' = givenUp \union {s}
              /\ UNCHANGED <<retry, decrypted, decoded>>
           \/ /\ ~Exceeds(content[s].wire, pass.limit)
              /\ Decodes(content[s], pass.limit)
              /\ decrypted' = [decrypted EXCEPT ![s] = @ + 1]
              /\ decoded' = decoded \union {s}
              /\ retry' = [retry EXCEPT ![s] = NoRetry]
              /\ pass' = [pass EXCEPT !.due[s] = @ - 1, !.ids = @ \union {s}]
              /\ UNCHANGED givenUp
           \/ /\ ~Exceeds(content[s].wire, pass.limit)
              /\ ~Decodes(content[s], pass.limit)
              /\ Fails(s)
              /\ UNCHANGED <<decrypted, decoded>>
  BY DEF DecodeNext
<1>2. s \in Share /\ pass.due[s] > 0
  BY DEF Held
<1>3. /\ NoRetry \in RetryRecord
      /\ retry \in [Share -> RetryRecord] /\ retry[s].attempts \in 0..MaxAttempts - 1
  BY <1>2, SharesAssumption DEF NoRetry, RetryRecord, Inv, Types
<1>. DEFINE attempts == retry[s].attempts + 1
            more == [attempts |-> attempts, waiting |-> TRUE]
<1>4. CASE Fails(s) /\ UNCHANGED <<decrypted, decoded>>
  <2>1. CASE attempts >= MaxAttempts
    BY <1>2, <1>3, <1>4, <2>1 DEF Fails, GivesUp, DecodeNext
  <2>2. CASE ~(attempts >= MaxAttempts)
    <3>1. more \in RetryRecord
      BY <1>3, <2>2, SharesAssumption DEF RetryRecord
    <3>2. retry' = [retry EXCEPT ![s] = more] /\ SetsAside(s)
      BY <1>4, <2>2 DEF Fails, SetsAside
    <3>. QED  BY <1>2, <1>3, <3>1, <3>2 DEF DecodeNext
  <2>. QED  BY <2>1, <2>2
<1>5. CASE UNCHANGED retry /\ GivesUp(s)
  BY <1>2, <1>3, <1>5 DEF DecodeNext
<1>6. CASE retry' = [retry EXCEPT ![s] = NoRetry] /\ Succeeds(s)
  BY <1>2, <1>3, <1>6 DEF DecodeNext
<1>. QED  BY <1>1, <1>4, <1>5, <1>6 DEF GivesUp, Succeeds

\* How an outcome changes what the pass holds.
After(s, lost, ids) ==
    /\ pass' \in PassRecord /\ pass'.at = pass.at /\ pass'.ids = ids
    /\ \A x \in Share : Copies(x) \in Nat
    /\ \A x \in Share : Copies(x)' = IF x = s THEN Copies(s) - lost ELSE Copies(x)

LEMMA OutcomeFields ==
    ASSUME Inv, NEW s \in Share, pass.due[s] > 0, UNCHANGED pending
    PROVE  /\ GivesUp(s) => After(s, 1, pass.ids)
           /\ Succeeds(s) => After(s, 1, pass.ids \union {s})
           /\ SetsAside(s) => After(s, 0, pass.ids)
<1>1. /\ pass \in PassRecord /\ pass.due \in [Share -> Nat] /\ pass.failed \in [Share -> Nat]
      /\ pass.ids \subseteq Share /\ pass.at \in {"idle", "start", "decode", "ack"}
      /\ pass.limit \in Limits
      /\ \A x \in Share : pending[x] \in Nat /\ pass.due[x] \in Nat /\ pass.failed[x] \in Nat
  BY PassFields DEF Inv, Queue
<1>. DEFINE due == [pass.due EXCEPT ![s] = @ - 1]
            failed == [pass.failed EXCEPT ![s] = @ + 1]
<1>2. /\ due \in [Share -> Nat] /\ failed \in [Share -> Nat]
      /\ \A x \in Share : /\ due[x] = IF x = s THEN pass.due[s] - 1 ELSE pass.due[x]
                          /\ failed[x] = IF x = s THEN pass.failed[s] + 1 ELSE pass.failed[x]
  BY <1>1
<1>3. ASSUME GivesUp(s) PROVE After(s, 1, pass.ids)
  <2>1. pass' = [pass EXCEPT !.due = due]
    BY <1>3 DEF GivesUp
  <2>. HIDE DEF due, failed
  <2>2. /\ pass' \in PassRecord /\ pass'.at = pass.at /\ pass'.ids = pass.ids
        /\ pass'.due = due /\ pass'.failed = pass.failed
    BY <1>1, <1>2, <2>1 DEF PassRecord, Queue
  <2>. QED  BY <1>1, <1>2, <2>2 DEF Copies, After
<1>4. ASSUME Succeeds(s) PROVE After(s, 1, pass.ids \union {s})
  <2>1. pass' = [pass EXCEPT !.due = due, !.ids = @ \union {s}]
    BY <1>4 DEF Succeeds
  <2>. HIDE DEF due, failed
  <2>2. /\ pass' \in PassRecord /\ pass'.at = pass.at /\ pass'.ids = pass.ids \union {s}
        /\ pass'.due = due /\ pass'.failed = pass.failed
    BY <1>1, <1>2, <2>1 DEF PassRecord, Queue
  <2>. QED  BY <1>1, <1>2, <2>2 DEF Copies, After
<1>5. ASSUME SetsAside(s) PROVE After(s, 0, pass.ids)
  <2>1. pass' = [pass EXCEPT !.due = due, !.failed = failed]
    BY <1>5 DEF SetsAside
  <2>. HIDE DEF due, failed
  <2>2. /\ pass' \in PassRecord /\ pass'.at = pass.at /\ pass'.ids = pass.ids
        /\ pass'.due = due /\ pass'.failed = failed
    BY <1>1, <1>2, <2>1 DEF PassRecord, Queue
  <2>. QED  BY <1>1, <1>2, <2>2 DEF Copies, After
<1>. QED  BY <1>3, <1>4, <1>5

LEMMA DecodeStep ==
    ASSUME Inv, DecodeNext
    PROVE  Inv'
<1>1. PICK s \in Share : /\ pass.due[s] > 0
                         /\ GivesUp(s) \/ Succeeds(s) \/ SetsAside(s)
  BY DecodeOutcomes
<1>2. /\ PassStep /\ UNCHANGED <<server, ackSet, pending, faults>>
      /\ pass.at = "decode" /\ retry' \in [Share -> RetryRecord]
  BY DecodeOutcomes DEF DecodeNext
<1>3. /\ decrypted \in [Share -> Nat] /\ decoded \subseteq Share /\ givenUp \subseteq Share
      /\ ackSet \subseteq Share /\ pass.ids \subseteq decoded
      /\ decrypted[s] \in Nat
  BY DEF Inv, Types, Queue, SentInv
<1>4. Sent(s)
  BY <1>1, PassFields DEF Inv, SentInv
<1>5. pass' \in PassRecord /\ pass'.at = pass.at
  BY <1>1, <1>2, OutcomeFields DEF After
<1>6. /\ decrypted' \in Queue /\ decoded' \subseteq Share /\ givenUp' \subseteq Share
      /\ decoded \subseteq decoded' /\ givenUp \subseteq givenUp'
      /\ \A x \in decoded' : x \in decoded \/ x = s
  BY <1>1, <1>3 DEF GivesUp, Succeeds, SetsAside, Queue
<1>t. Types'
  BY <1>2, <1>5, <1>6 DEF Inv, Types, PassStep
<1>p. StageInv'
  BY <1>2, <1>5 DEF Inv, StageInv, PassStep
<1>m. Moves
  <2>1. \A x \in Share : Sent(x) => Sent(x)'
    BY <1>2 DEF Sent
  <2>2. CASE GivesUp(s)
    <3>1. After(s, 1, pass.ids) /\ s \in givenUp' /\ decoded' = decoded
      BY <1>1, <1>2, <2>2, OutcomeFields DEF GivesUp
    <3>. QED  BY <1>2, <1>3, <1>4, <1>6, <2>1, <3>1 DEF Moves, After
  <2>3. CASE Succeeds(s)
    <3>1. After(s, 1, pass.ids \union {s}) /\ decoded' = decoded \union {s}
      BY <1>1, <1>2, <2>3, OutcomeFields DEF Succeeds
    <3>. QED  BY <1>2, <1>3, <1>4, <1>6, <2>1, <3>1 DEF Moves, After
  <2>4. CASE SetsAside(s)
    <3>1. After(s, 0, pass.ids) /\ decoded' = decoded
      BY <1>1, <1>2, <2>4, OutcomeFields DEF SetsAside
    <3>. QED  BY <1>2, <1>3, <1>4, <1>6, <2>1, <3>1 DEF Moves, After
  <2>. QED  BY <1>1, <2>2, <2>3, <2>4
<1>. QED  BY <1>2, <1>t, <1>p, <1>m, PassSteps DEF PassStep

LEMMA RequeueMoves ==
    ASSUME Inv, Requeue
    PROVE  /\ pass' \in PassRecord /\ pass'.ids \subseteq pass.ids
           /\ pass'.due = NoCopies /\ pass'.failed = NoCopies
           /\ (pass' = IdlePass \/ pass'.at = "ack")
           /\ pending' \in Queue
           /\ \A s \in Share : Copies(s)' = Copies(s)
<1>1. /\ pending' = Plus(pass.failed, pending)
      /\ \/ pass' = IdlePass
         \/ pass' = [pass EXCEPT !.at = "ack", !.failed = NoCopies,
                                 !.ids = @ \intersect ackSet]
      /\ pass.due = NoCopies
  BY DEF Requeue
<1>2. /\ pass' \in PassRecord /\ pass'.ids \subseteq pass.ids
      /\ pass'.due = NoCopies /\ pass'.failed = NoCopies
      /\ (pass' = IdlePass \/ pass'.at = "ack")
  <2>1. CASE pass' = IdlePass
    BY <2>1, PassFields, IdleTypes DEF Inv, IdlePass
  <2>2. CASE pass' = [pass EXCEPT !.at = "ack", !.failed = NoCopies,
                                  !.ids = @ \intersect ackSet]
    BY <1>1, <2>2, PassFields, IdleTypes DEF Inv, PassRecord
  <2>. QED  BY <1>1, <2>1, <2>2
<1>3. /\ pending' \in Queue
      /\ \A s \in Share : pending'[s] = pass.failed[s] + pending[s]
  BY <1>1, PassFields, PlusFields DEF Inv, Types
<1>4. \A s \in Share : NoCopies[s] = 0
  BY DEF NoCopies
<1>5. \A s \in Share : Copies(s)' = Copies(s)
  BY <1>1, <1>2, <1>3, <1>4, PassFields DEF Copies, Inv
<1>. QED  BY <1>2, <1>3, <1>5

LEMMA RequeueStep ==
    ASSUME Inv, Requeue
    PROVE  Inv'
<1>1. PassStep /\ UNCHANGED <<server, ackSet, retry, decrypted, decoded, givenUp, faults>>
  BY DEF Requeue
<1>2. /\ pass' \in PassRecord /\ pass'.ids \subseteq pass.ids
      /\ pass'.due = NoCopies /\ pass'.failed = NoCopies
      /\ (pass' = IdlePass \/ pass'.at = "ack")
      /\ pending' \in Queue
      /\ \A s \in Share : Copies(s)' = Copies(s)
  BY RequeueMoves
<1>t. Types'
  BY <1>1, <1>2 DEF Inv, Types, PassStep
<1>p. StageInv'
  BY <1>1, <1>2 DEF Inv, StageInv, PassStep, IdlePass
<1>m. Moves
  <2>1. \A s \in Share : Copies(s)' > 0 <=> Copies(s) > 0
    BY <1>2
  <2>2. decoded \subseteq Share /\ ackSet \subseteq Share /\ pass.ids \subseteq decoded
    BY DEF Inv, Types, SentInv
  <2>. QED  BY <1>1, <1>2, <2>1, <2>2 DEF Moves, Sent
<1>. QED  BY <1>1, <1>t, <1>p, <1>m, PassSteps DEF PassStep

LEMMA AcknowledgeStep ==
    ASSUME Inv, NEW s \in Share, Acknowledge(s)
    PROVE  Inv'
<1>1. /\ PassStep /\ UNCHANGED <<pending, retry, decrypted, decoded, givenUp>>
      /\ pass.at = "ack" /\ s \in pass.ids
      /\ pass' = IdlePass \/ pass' = [pass EXCEPT !.ids = @ \ {s}]
      /\ server' = server \/ server' = [server EXCEPT ![s] = "consumed"]
      /\ ackSet' \subseteq ackSet
  BY DEF Acknowledge
<1>2. faults' \in 0..MaxFaults
  BY Counters DEF Inv, Acknowledge
<1>3. pass.due = NoCopies /\ pass.failed = NoCopies
  BY <1>1 DEF Inv, StageInv
<1>4. /\ pass' \in PassRecord /\ pass'.ids \subseteq pass.ids
      /\ pass'.due = NoCopies /\ pass'.failed = NoCopies
      /\ (pass' = IdlePass \/ pass'.at = "ack")
  <2>1. CASE pass' = IdlePass
    BY <2>1, PassFields, IdleTypes DEF Inv, IdlePass
  <2>2. CASE pass' = [pass EXCEPT !.ids = @ \ {s}]
    BY <1>1, <1>3, <2>2, PassFields, IdleTypes DEF Inv, PassRecord
  <2>. QED  BY <1>1, <2>1, <2>2
<1>5. /\ server' \in [Share -> {"absent", "available", "consumed"}]
      /\ \A x \in Share : Sent(x) => Sent(x)'
  BY <1>1 DEF Inv, Types, Sent
<1>t. Types'
  BY <1>1, <1>2, <1>4, <1>5 DEF Inv, Types, PassStep
<1>p. StageInv'
  BY <1>1, <1>4 DEF Inv, StageInv, PassStep, IdlePass
<1>m. Moves
  <2>1. \A x \in Share : Copies(x)' = Copies(x)
    BY <1>1, <1>3, <1>4 DEF Copies
  <2>2. decoded \subseteq Share /\ ackSet \subseteq Share /\ pass.ids \subseteq decoded
    BY DEF Inv, Types, SentInv
  <2>. QED  BY <1>1, <1>4, <1>5, <2>1, <2>2 DEF Moves
<1>. QED  BY <1>1, <1>t, <1>p, <1>m, PassSteps DEF PassStep

LEMMA WindowEndsStep ==
    ASSUME Inv, NEW s \in Share, WindowEnds(s)
    PROVE  Inv'
<1>1. retry' \in [Share -> RetryRecord]
  <2>1. retry \in [Share -> RetryRecord]
    BY DEF Inv, Types
  <2>2. [retry[s] EXCEPT !.waiting = FALSE] \in RetryRecord
    BY <2>1 DEF RetryRecord
  <2>. QED  BY <2>1, <2>2 DEF WindowEnds
<1>t. Types'
  BY <1>1 DEF Inv, Types, WindowEnds, history
<1>p. StageInv'
  BY DEF Inv, StageInv, WindowEnds
<1>e. SentInv'
  BY DEF Inv, SentInv, Sent, WindowEnds, history
<1>a. SuppressedIsOnItsWay'
  BY DEF Inv, SuppressedIsOnItsWay, OnItsWay, WindowEnds, history
<1>. QED  BY <1>t, <1>p, <1>e, <1>a DEF Inv

LEMMA RelaunchStep ==
    ASSUME Inv, Relaunch
    PROVE  Inv'
<1>1. /\ limit' = NoLimit /\ ackSet' = {} /\ pending' = NoCopies /\ decrypted' = NoCopies
      /\ retry' = [s \in Share |-> NoRetry] /\ pass' = IdlePass
      /\ fetch' = [f \in Fetcher |-> IdleFetch] /\ bulk' = IdleBulk /\ givenUp' = {}
      /\ UNCHANGED <<isActive, server, content, rounds, tabs, decoded>>
  BY DEF Relaunch
<1>2. faults' \in 0..MaxFaults
  BY Counters DEF Inv, Relaunch
<1>3. NoRetry \in RetryRecord
  BY SharesAssumption DEF NoRetry, RetryRecord
<1>t. Types'
  BY <1>1, <1>2, <1>3, IdleTypes DEF Inv, Types
<1>p. StageInv'
  BY <1>1 DEF StageInv, IdlePass, IdleBulk
<1>e. SentInv'
  BY <1>1 DEF Inv, SentInv, Sent, IdleFetch, IdleBulk, IdlePass, NoCopies
<1>a. SuppressedIsOnItsWay'
  BY <1>1 DEF SuppressedIsOnItsWay
<1>. QED  BY <1>t, <1>p, <1>e, <1>a DEF Inv

LEMMA StutterStep ==
    ASSUME Inv, UNCHANGED vars
    PROVE  Inv'
<1>. USE DEF vars, queues, history
<1>t. Types'
  BY DEF Inv, Types
<1>p. StageInv'
  BY DEF Inv, StageInv
<1>e. SentInv'
  BY DEF Inv, SentInv, Sent
<1>a. SuppressedIsOnItsWay'
  BY DEF Inv, SuppressedIsOnItsWay, OnItsWay
<1>. QED  BY <1>t, <1>p, <1>e, <1>a DEF Inv

LEMMA NextStep == Inv /\ [Next]_vars => Inv'
<1>. SUFFICES ASSUME Inv, [Next]_vars PROVE Inv'
  OBVIOUS
<1>1. CASE \E s \in Share, max \in Limits : ShareFile(s, max)
  BY <1>1, ShareFileStep
<1>2. CASE \E f \in Fetcher : Announce(f) \/ Fetching(f)
  BY <1>2, AnnounceStep, LookUpStep, FetchedStep, RegisterStep, PushStep DEF Fetching
<1>3. CASE Begin \/ Synchronizing
  BY <1>3, BeginStep, BulkFetchedStep, BulkRegisterStep, BulkApplyStep DEF Synchronizing
<1>4. CASE ToggleActive \/ Render \/ Pass
  BY <1>4, ToggleActiveStep, RenderStep, TakeDueStep, DecodeStep, RequeueStep, AcknowledgeStep DEF Pass
<1>5. CASE \E s \in Share : WindowEnds(s)
  BY <1>5, WindowEndsStep
<1>6. CASE Relaunch
  BY <1>6, RelaunchStep
<1>7. CASE UNCHANGED vars
  BY <1>7, StutterStep
<1>. QED  BY <1>1, <1>2, <1>3, <1>4, <1>5, <1>6, <1>7 DEF Next

\* The inductive invariant.
THEOREM Invariance == Spec => []Inv
BY InitInv, NextStep, PTL DEF Spec

\* Every variable keeps its type, and the pass holds nothing while it is idle.
THEOREM TypeCorrect == Spec => []TypeOK
<1>1. Inv => TypeOK
  <2>. SUFFICES ASSUME Inv PROVE TypeOK
    OBVIOUS
  <2>1. \A f \in Fetcher : /\ fetch[f].at \in {"idle", "fetch", "register", "push"}
                           /\ fetch[f].todo \subseteq Share
                           /\ fetch[f].id \in Share \union {NoShare}
    BY FetchFields DEF Inv, FetchRecord
  <2>. QED
    BY <2>1, PassFields, BulkFields
    DEF Inv, Types, StageInv, TypeOK, RetryRecord, Queue
<1>. QED  BY <1>1, Invariance, PTL

\* Doorbells and catch-ups skip a share that is registered for acknowledgement:
\* none is skipped for a copy that got lost.
THEOREM NoneSkippedForLost == Spec => []SuppressedIsOnItsWay
<1>1. Inv => SuppressedIsOnItsWay
  BY DEF Inv
<1>. QED  BY <1>1, Invariance, PTL

-----------------------------------------------------------------------------
(* The refinement: each step of Shares is one of ShareDelivery or changes   *)
(* nothing there.                                                           *)

Waiting == Plus(pending, Plus(pass.due, pass.failed))

WaitingIsCopies ==
    /\ Waiting = [s \in Share |-> Copies(s)]
    /\ \A s \in Share : Waiting[s] = Copies(s) /\ Copies(s) \in Nat

LEMMA WaitingCopies == Types => WaitingIsCopies
<1>. SUFFICES ASSUME Types PROVE WaitingIsCopies
  OBVIOUS
<1>1. pending \in Queue /\ pass.due \in Queue /\ pass.failed \in Queue
  BY PassFields DEF Types
<1>2. \A s \in Share : Plus(pass.due, pass.failed)[s] = pass.due[s] + pass.failed[s]
  BY <1>1, PlusFields
<1>3. ASSUME NEW s \in Share
      PROVE  /\ pending[s] + Plus(pass.due, pass.failed)[s] = Copies(s)
             /\ Copies(s) \in Nat
  <2>1. pending[s] \in Nat /\ pass.due[s] \in Nat /\ pass.failed[s] \in Nat
    BY PassFields
  <2>2. Plus(pass.due, pass.failed)[s] = pass.due[s] + pass.failed[s]
    BY <1>2
  <2>. QED  BY <2>1, <2>2 DEF Copies
<1>4. Waiting = [s \in Share |-> pending[s] + Plus(pass.due, pass.failed)[s]]
  BY DEF Waiting, Plus
<1>. QED  BY <1>3, <1>4 DEF WaitingIsCopies

\* The same of the next state.
LEMMA WaitingCopiesNext == Types' => WaitingIsCopies'
BY WaitingCopies, PTL

LEMMA WaitingMoves ==
    ASSUME Types, Types'
    PROVE  /\ Waiting = [s \in Share |-> Copies(s)]
           /\ Waiting' = [s \in Share |-> Copies(s)']
           /\ \A s \in Share : Waiting[s] = Copies(s) /\ Copies(s) \in Nat
BY WaitingCopies, WaitingCopiesNext DEF WaitingIsCopies

LEMMA MapsInit == Init => Delivery!Init
<1>. SUFFICES ASSUME Init PROVE Delivery!Init
  OBVIOUS
<1>1. Types
  BY InitInv DEF Inv
<1>2. \A s \in Share : Copies(s) = 0
  <2>1. pass.due = NoCopies /\ pass.failed = NoCopies /\ pending = NoCopies
    BY DEF Init, IdlePass
  <2>2. ASSUME NEW s \in Share PROVE Copies(s) = 0
    <3>1. pending[s] = 0 /\ pass.due[s] = 0 /\ pass.failed[s] = 0
      BY <2>1 DEF NoCopies
    <3>. QED  BY <3>1 DEF Copies
  <2>. QED  BY <2>2
<1>3. Waiting = [s \in Share |-> 0]
  BY <1>1, <1>2, WaitingCopies DEF WaitingIsCopies
<1>. QED  BY <1>3 DEF Init, Delivery!Init, Waiting, NoCopies

\* Steps that decode, give up, open and consume nothing, and bring no copy.
LEMMA MapsToStutter ==
    ASSUME Inv, Inv', UNCHANGED <<server, decrypted, tabs, decoded>>,
           \A s \in Share : Copies(s)' = Copies(s)
    PROVE  UNCHANGED Delivery!vars
<1>1. Waiting' = Waiting
  BY WaitingMoves DEF Inv
<1>. QED  BY <1>1 DEF Delivery!vars, Waiting

\* Copies arrive.
LEMMA MapsToFetch ==
    ASSUME Inv, Inv', UNCHANGED <<server, decrypted, tabs, decoded>>,
           NEW arrived \in SUBSET Share,
           \A s \in arrived : Sent(s),
           \A s \in Share : Copies(s)' = IF s \in arrived THEN Copies(s) + 1 ELSE Copies(s)
    PROVE  Delivery!Next
<1>1. Waiting' = [s \in Share |-> IF s \in arrived THEN Waiting[s] + 1 ELSE Waiting[s]]
  BY WaitingMoves DEF Inv
<1>2. Delivery!Fetch(arrived)
  BY <1>1 DEF Delivery!Fetch, Waiting, Sent
<1>. QED  BY <1>2 DEF Delivery!Next

\* A copy is decoded or given up.
LEMMA MapsToDecode ==
    ASSUME Inv, Inv', UNCHANGED <<server, tabs>>, NEW s \in Share, Copies(s) > 0,
           \A x \in Share : Copies(x)' = IF x = s THEN Copies(s) - 1 ELSE Copies(x),
           \/ decrypted' = [decrypted EXCEPT ![s] = @ + 1] /\ decoded' = decoded \union {s}
           \/ UNCHANGED <<decrypted, decoded>>
    PROVE  Delivery!Next
<1>1. Waiting' = [Waiting EXCEPT ![s] = @ - 1] /\ Waiting[s] > 0
  BY WaitingMoves DEF Inv
<1>2. Delivery!Decode(s)
  BY <1>1 DEF Delivery!Decode, Waiting
<1>. QED  BY <1>2 DEF Delivery!Next

LEMMA MapsShareFile ==
    ASSUME Inv, Inv', NEW s \in Share, NEW max \in Limits, ShareFile(s, max)
    PROVE  Delivery!Next
<1>1. Delivery!Send(s)
  BY DEF ShareFile, queues, history, Delivery!Send
<1>. QED  BY <1>1 DEF Delivery!Next

LEMMA MapsFetching ==
    ASSUME Inv, Inv', NEW f \in Fetcher, Announce(f) \/ Fetching(f)
    PROVE  Delivery!Next \/ UNCHANGED Delivery!vars
<1>1. CASE UNCHANGED pending
  <2>1. FetchStep
    BY DEF Announce, Fetching, LookUp, Fetched, Register, Push
  <2>2. \A s \in Share : Copies(s)' = Copies(s)
    BY <1>1, <2>1 DEF FetchStep, Copies
  <2>. QED  BY <2>1, <2>2, MapsToStutter DEF FetchStep, history
<1>2. CASE Push(f)
  <2>1. fetch[f].id \in Share /\ Sent(fetch[f].id)
    BY <1>2, HoldsSent DEF Push
  <2>2. pending' = [pending EXCEPT ![fetch[f].id] = @ + 1] /\ pending \in [Share -> Nat]
        /\ UNCHANGED pass
    BY <1>2 DEF Push, Inv, Types, Queue, FetchStep
  <2>3. ASSUME NEW s \in Share
        PROVE  Copies(s)' = IF s \in {fetch[f].id} THEN Copies(s) + 1 ELSE Copies(s)
    BY <2>1, <2>2, PassFields DEF Inv, Copies
  <2>. QED  BY <1>2, <2>1, <2>3, MapsToFetch DEF Push, FetchStep, history
<1>. QED  BY <1>1, <1>2 DEF Announce, Fetching, LookUp, Fetched, Register

LEMMA MapsBulk ==
    ASSUME Inv, Inv', Begin \/ Synchronizing
    PROVE  Delivery!Next \/ UNCHANGED Delivery!vars
<1>1. BulkStep
  BY DEF Begin, Synchronizing, BulkFetched, BulkRegister, BulkApply
<1>2. CASE UNCHANGED pending
  <2>1. \A s \in Share : Copies(s)' = Copies(s)
    BY <1>1, <1>2 DEF BulkStep, Copies
  <2>. QED  BY <1>1, <2>1, MapsToStutter DEF BulkStep, history
<1>3. CASE BulkApply
  <2>1. Unseen(bulk.got) \in SUBSET Share /\ \A s \in Unseen(bulk.got) : Sent(s)
    BY BulkFields DEF Inv, SentInv, Unseen
  <2>2. ASSUME NEW s \in Share
        PROVE  Copies(s)' = IF s \in Unseen(bulk.got) THEN Copies(s) + 1 ELSE Copies(s)
    BY <1>1, <1>3, PassFields DEF Inv, BulkApply, BulkStep, Copies
  <2>. QED  BY <1>1, <2>1, <2>2, MapsToFetch DEF BulkStep, history
<1>. QED  BY <1>2, <1>3 DEF Begin, Synchronizing, BulkFetched, BulkRegister

LEMMA MapsRender ==
    ASSUME Inv, Inv', Render
    PROVE  Delivery!Next
<1>1. pass'.due = pass.due /\ pass'.failed = pass.failed /\ UNCHANGED pending
  BY PassFields DEF Inv, Render, PassRecord
<1>2. Waiting' = Waiting
  BY <1>1 DEF Waiting
<1>3. Delivery!Open
  BY <1>2 DEF Render, Delivery!Open, Waiting, NoCopies
<1>. QED  BY <1>3 DEF Delivery!Next

LEMMA MapsPass ==
    ASSUME Inv, Inv', Pass
    PROVE  Delivery!Next \/ UNCHANGED Delivery!vars
<1>1. CASE TakeDue \/ KeyMissing
  BY <1>1, TakeDueMoves, MapsToStutter DEF TakeDue, KeyMissing, PassStep
<1>2. CASE Requeue
  BY <1>2, RequeueMoves, MapsToStutter DEF Requeue, PassStep
<1>3. CASE DecodeNext
  <2>1. PICK s \in Share : /\ pass.due[s] > 0
                           /\ GivesUp(s) \/ Succeeds(s) \/ SetsAside(s)
    BY <1>3, DecodeOutcomes
  <2>2. UNCHANGED <<server, tabs, pending>>
    BY <1>3 DEF DecodeNext, PassStep
  <2>3. Copies(s) > 0
    BY <2>1, PassFields DEF Inv, Copies
  <2>4. CASE GivesUp(s)
    BY <2>1, <2>2, <2>3, <2>4, OutcomeFields, MapsToDecode DEF GivesUp, After
  <2>5. CASE Succeeds(s)
    BY <2>1, <2>2, <2>3, <2>5, OutcomeFields, MapsToDecode DEF Succeeds, After
  <2>6. CASE SetsAside(s)
    <3>1. \A x \in Share : Copies(x)' = Copies(x)
      BY <2>1, <2>2, <2>6, OutcomeFields DEF After
    <3>. QED  BY <2>2, <2>6, <3>1, MapsToStutter DEF SetsAside
  <2>. QED  BY <2>1, <2>4, <2>5, <2>6
<1>4. ASSUME NEW s \in Share, Acknowledge(s)
      PROVE  Delivery!Next \/ UNCHANGED Delivery!vars
  <2>1. /\ UNCHANGED <<pending, decrypted, tabs, decoded>>
        /\ pass.at = "ack" /\ s \in pass.ids
        /\ pass' = IdlePass \/ pass' = [pass EXCEPT !.ids = @ \ {s}]
        /\ server' = server \/ server' = [server EXCEPT ![s] = "consumed"]
    BY <1>4 DEF Acknowledge, PassStep
  <2>2. pass'.due = pass.due /\ pass'.failed = pass.failed
    BY <2>1, PassFields DEF Inv, StageInv, IdlePass, PassRecord
  <2>3. \A x \in Share : Copies(x)' = Copies(x)
    BY <2>1, <2>2 DEF Copies
  <2>4. s \in decoded /\ Sent(s) /\ server \in [Share -> {"absent", "available", "consumed"}]
    BY <2>1 DEF Inv, SentInv, Types
  <2>5. CASE server' = server
    BY <2>1, <2>3, <2>5, MapsToStutter
  <2>6. CASE server[s] = "consumed" /\ server' = [server EXCEPT ![s] = "consumed"]
    <3>1. server' = server
      BY <2>4, <2>6
    <3>. QED  BY <2>1, <2>3, <3>1, MapsToStutter
  <2>7. CASE server[s] = "available" /\ server' = [server EXCEPT ![s] = "consumed"]
    <3>1. Waiting' = Waiting
      BY <2>3, WaitingMoves DEF Inv
    <3>2. Delivery!Consume(s)
      BY <2>1, <2>4, <2>7, <3>1 DEF Delivery!Consume, Waiting
    <3>. QED  BY <3>2 DEF Delivery!Next
  <2>. QED  BY <2>1, <2>4, <2>5, <2>6, <2>7 DEF Sent
<1>. QED  BY <1>1, <1>2, <1>3, <1>4 DEF Pass

LEMMA MapsWindowEnds ==
    ASSUME Inv, Inv', NEW s \in Share, WindowEnds(s)
    PROVE  UNCHANGED Delivery!vars
<1>1. UNCHANGED <<server, decrypted, tabs, decoded, pending, pass>>
  BY DEF WindowEnds, history
<1>2. \A x \in Share : Copies(x)' = Copies(x)
  BY <1>1 DEF Copies
<1>. QED  BY <1>1, <1>2, MapsToStutter

LEMMA MapsRelaunch ==
    ASSUME Inv, Inv', Relaunch
    PROVE  Delivery!Next
<1>1. \A s \in Share : Copies(s)' = 0
  BY DEF Relaunch, Copies, NoCopies, IdlePass
<1>2. Waiting' = [s \in Share |-> 0]
  BY <1>1, WaitingMoves DEF Inv
<1>3. Delivery!Relaunch
  BY <1>2 DEF Relaunch, Delivery!Relaunch, Waiting, NoCopies
<1>. QED  BY <1>3 DEF Delivery!Next

LEMMA MapsNext == Inv /\ Inv' /\ [Next]_vars => [Delivery!Next]_(Delivery!vars)
<1>. SUFFICES ASSUME Inv, Inv', [Next]_vars
              PROVE  Delivery!Next \/ UNCHANGED Delivery!vars
  OBVIOUS
<1>1. CASE \E s \in Share, max \in Limits : ShareFile(s, max)
  BY <1>1, MapsShareFile
<1>2. CASE \E f \in Fetcher : Announce(f) \/ Fetching(f)
  BY <1>2, MapsFetching
<1>3. CASE Begin \/ Synchronizing
  BY <1>3, MapsBulk
<1>4. CASE Render
  BY <1>4, MapsRender
<1>5. CASE Pass
  BY <1>5, MapsPass
<1>6. CASE \E s \in Share : WindowEnds(s)
  BY <1>6, MapsWindowEnds
<1>7. CASE Relaunch
  BY <1>7, MapsRelaunch
<1>8. CASE UNCHANGED vars
  BY <1>8, MapsToStutter DEF vars, queues, history, Copies
<1>9. CASE ToggleActive
  BY <1>9, MapsToStutter DEF ToggleActive, queues, history, Copies
<1>. QED  BY <1>1, <1>2, <1>3, <1>4, <1>5, <1>6, <1>7, <1>8, <1>9 DEF Next

\* What the queues, threads and retries do is what ShareDelivery promises.
THEOREM QueuesImplementDelivery == Spec => ImplementsDelivery
BY MapsInit, MapsNext, Invariance, PTL DEF Spec, ImplementsDelivery, Delivery!Spec
=============================================================================
