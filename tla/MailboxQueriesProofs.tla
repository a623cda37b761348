------------------------ MODULE MailboxQueriesProofs ------------------------
(***************************************************************************)
(* Proofs about MailboxQueries, for every set of displays and monitors,    *)
(* every EDID and every depth of the mailbox.                              *)
(***************************************************************************)
EXTENDS MailboxQueries, TLAPS

InCall(a) == call[a].at \in {"posting", "waiting", "replied", "accepted"}

Shape ==
    /\ lock \in BOOLEAN /\ settled \in BOOLEAN
    /\ buffer \in Messages \union {Nothing}
    /\ posted \in 0 .. FifoDepth /\ replies \in Nat
    /\ taken \in Requests \union {Nothing}
    /\ plugged \in [Displays -> Monitors]
    /\ call \in [Actors -> Calls]
    /\ reading \in [active : BOOLEAN, display : Displays \union {0},
                    edid : Seq(Messages), complete : BOOLEAN]

\* No more words are in the mailbox than requests went in.
Words == posted + replies + (IF taken = Nothing THEN 0 ELSE 1)

\* What is in a mailbox came through the buffer.
MailboxInv ==
    /\ Words <= FifoDepth + 1
    /\ posted > 0 \/ lock => buffer # Nothing

\* One call at a time holds the lock.
LockInv ==
    /\ LockFollowsCall
    /\ \A a, b \in Actors : InCall(a) /\ InCall(b) => a = b
    /\ \A a \in Actors : call[a].at # "out" => call[a].request \in Requests

\* The buffer has been answered since the call in progress posted its request.
Answered(a) ==
    \/ call[a].at \in {"replied", "accepted"}
    \/ call[a].at = "waiting" /\ replies > 0

\* How far a request written while the mailbox was idle has come.
ExchangeInv ==
    \A a \in Actors : InCall(a) =>
        /\ call[a].own =>
              /\ buffer.request = call[a].request
              /\ taken \in {Nothing, call[a].request}
              /\ IF call[a].at = "posting" THEN posted = 0 /\ taken = Nothing
                 ELSE Words = (IF call[a].at = "waiting" THEN 1 ELSE 0)
        /\ Answered(a) /\ taken # Nothing => taken = buffer.request
        /\ call[a].at = "accepted" => LongEnough(call[a].request, buffer.request)
        /\ call[a].at = "accepted" /\ call[a].own => buffer.success

\* The loop over the blocks, between any two of its steps.
LoopInv ==
    /\ \A n \in 1 .. Len(reading.edid) : reading.edid[n].contents.sound
    /\ reading.active =>
          /\ reading.display \in Displays
          /\ Len(reading.edid) < RPI5_DISPLAY_HANDOFF_MAX_EDID_BLOCKS
          /\ call["query"].request = Request("edid", reading.display, Len(reading.edid))
    /\ Len(reading.edid) <= RPI5_DISPLAY_HANDOFF_MAX_EDID_BLOCKS

QueriesInv == Shape /\ MailboxInv /\ LockInv /\ ExchangeInv /\ LoopInv

\* The block that the display's monitor would give now.
IsCurrentBlock(m, n) ==
    /\ m.request = Request("edid", reading.display, n)
    /\ m.contents.monitor = plugged[reading.display]

\* A read that nothing has disturbed collects the blocks of one monitor.
SettledInv ==
    settled =>
        /\ \A n \in 1 .. Len(reading.edid) :
              /\ reading.edid[n].request.block = n - 1
              /\ reading.edid[n].contents.monitor = reading.edid[1].contents.monitor
        /\ reading.active =>
              /\ \A n \in 1 .. Len(reading.edid) : IsCurrentBlock(reading.edid[n], n - 1)
              /\ InCall("query") /\ call["query"].own /\ Answered("query") /\ buffer.success =>
                    IsCurrentBlock(buffer, Len(reading.edid))
              /\ call["query"].at = "out" /\ call["query"].own /\ call["query"].got # Nothing =>
                    IsCurrentBlock(call["query"].got, Len(reading.edid))

CompleteInv == reading.complete => ~ reading.active /\ Complete(reading.edid)

-----------------------------------------------------------------------------
(* Calls *)

LEMMA NothingIsApart ==
    /\ Nothing \notin Requests /\ Nothing \notin Messages
    /\ \A r \in Requests : r.kind \in DOMAIN Length
<1>1. \A r \in Requests : r.kind \in {"number", "temperature", "timing", "edid"}
  BY DEF Requests, Temperature, Lookups, EdidRequests, Request
<1>2. Nothing \notin Requests
  BY <1>1 DEF Nothing
<1>3. Nothing \notin Messages
  BY DEF Nothing, Messages
<1>4. QED
  BY <1>1, <1>2, <1>3 DEF Length

\* What is left when actor a's call becomes c.
LEMMA CallBecomes ==
    ASSUME Shape, NEW a \in Actors, NEW c \in Calls, Becomes(a, c)
    PROVE  /\ call' \in [Actors -> Calls]
           /\ call'[a] = c
           /\ \A b \in Actors : b # a => call'[b] = call[b]
BY DEF Shape, Becomes

LEMMA OutIsCall ==
    /\ Out \in Calls /\ Out.at = "out" /\ ~ Out.own /\ Out.got = Nothing
    /\ Out.request = Nothing
BY DEF Out, Calls

\* The place of a call changes, or its result.
LEMMA CallMoves ==
    ASSUME Shape, NEW a \in Actors,
           NEW p \in {"out", "entering", "posting", "waiting", "replied", "accepted"},
           NEW c, c = [call[a] EXCEPT !.at = p]
    PROVE  /\ c \in Calls /\ c.at = p
           /\ c.request = call[a].request /\ c.own = call[a].own /\ c.got = call[a].got
<1>1. call[a] \in Calls
  BY DEF Shape
<1>2. QED
  BY <1>1 DEF Calls

LEMMA CallReturns ==
    ASSUME Shape, NEW a \in Actors, NEW got \in Messages \union {Nothing}
    PROVE  /\ Returned(a, got) \in Calls
           /\ Returned(a, got).at = "out"
           /\ a = "query" /\ reading.active =>
                 /\ Returned(a, got).request = call[a].request
                 /\ Returned(a, got).own = call[a].own
           /\ Returned(a, got).got \in {got, Nothing}
           /\ Returned(a, got).own => Returned(a, got).got = got /\ call[a].own
<1>1. call[a] \in Calls
  BY DEF Shape
<1>2. CASE a = "query" /\ reading.active
  BY <1>1, <1>2 DEF Returned, Calls
<1>3. CASE ~ (a = "query" /\ reading.active)
  BY <1>3, OutIsCall DEF Returned
<1>4. QED
  BY <1>2, <1>3

LEMMA CallEnters ==
    ASSUME NEW r \in Requests, NEW m \in BOOLEAN
    PROVE  /\ Entering(r, m) \in Calls /\ Entering(r, m).at = "entering"
           /\ Entering(r, m).request = r /\ Entering(r, m).got = Nothing
           /\ ~ Entering(r, m).own
BY DEF Entering, Out, Calls

-----------------------------------------------------------------------------
(* The steps of a call *)

LEMMA Starts == Init => QueriesInv
<1> SUFFICES ASSUME Init PROVE QueriesInv
  OBVIOUS
<1>1. /\ call \in [Actors -> Calls]
      /\ \A a \in Actors : call[a] = Out
  BY OutIsCall DEF Init
<1>2. reading = NotReading /\ Len(reading.edid) = 0 /\ reading.active = FALSE
  BY DEF Init, NotReading
<1>3. Shape
  <2>1. reading \in [active : BOOLEAN, display : Displays \union {0},
                    edid : Seq(Messages), complete : BOOLEAN]
    BY DEF Init, NotReading
  <2>2. posted \in 0 .. FifoDepth /\ replies \in Nat
    BY QueriesAssumption DEF Init
  <2>3. lock \in BOOLEAN /\ settled \in BOOLEAN /\ buffer = Nothing /\ taken = Nothing
        /\ plugged \in [Displays -> Monitors]
    BY DEF Init
  <2>4. QED
    BY <1>1, <2>1, <2>2, <2>3 DEF Shape
<1>4. MailboxInv
  BY QueriesAssumption DEF Init, MailboxInv, Words
<1>5. LockInv
  BY <1>1, OutIsCall DEF Init, LockInv, LockFollowsCall, InCall
<1>6. ExchangeInv
  BY <1>1, OutIsCall DEF ExchangeInv, InCall
<1>7. LoopInv
  BY <1>1, <1>2, OutIsCall DEF Init, LoopInv, Actors, RPI5_DISPLAY_HANDOFF_MAX_EDID_BLOCKS
<1>8. QED
  BY <1>3, <1>4, <1>5, <1>6, <1>7 DEF QueriesInv

LEMMA AcquireKeeps ==
    ASSUME QueriesInv, NEW a \in Actors, Acquire(a) PROVE QueriesInv'
<1> DEFINE idle == posted = 0 /\ taken = Nothing
           c == [call[a] EXCEPT !.at = "posting", !.own = idle]
<1>1. /\ call[a].at = "entering" /\ ~ lock /\ lock' = TRUE
      /\ buffer' = Message(call[a].request, FALSE, NoContents)
      /\ Becomes(a, c)
      /\ UNCHANGED <<posted, taken, replies, plugged, reading, settled>>
  BY DEF Acquire, AcquireSpinLockOrFail, firmware
<1>2. Shape /\ call[a] \in Calls /\ call[a].request \in Requests
  BY <1>1 DEF QueriesInv, Shape, LockInv
<1>3. /\ c \in Calls /\ c.at = "posting" /\ c.request = call[a].request
      /\ c.own = idle /\ c.got = call[a].got
  BY <1>2 DEF Calls
<1> HIDE DEF c
<1>4. /\ call' \in [Actors -> Calls] /\ call'[a] = c
      /\ \A b \in Actors : b # a => call'[b] = call[b]
  BY <1>1, <1>2, <1>3, CallBecomes
<1>5. /\ buffer' \in Messages /\ buffer'.request = call[a].request
      /\ buffer'.contents = NoContents
  <2>1. FALSE \in BOOLEAN /\ NoContents \in Contents \union {NoContents}
    OBVIOUS
  <2>2. QED
    BY <1>1, <1>2, <2>1 DEF Message, Messages
<1>6. \A b \in Actors : ~ InCall(b)
  BY <1>1 DEF QueriesInv, LockInv, LockFollowsCall, InCall
<1>7. Shape'
  BY <1>1, <1>2, <1>4, <1>5 DEF Shape
<1>8. MailboxInv'
  BY <1>1, <1>5, NothingIsApart DEF QueriesInv, MailboxInv, Words
<1>9. LockInv'
  BY <1>1, <1>2, <1>3, <1>4, <1>6 DEF QueriesInv, LockInv, LockFollowsCall, InCall
<1>10. ExchangeInv'
  <2>1. \A b \in Actors : InCall(b)' => b = a
    BY <1>4, <1>6 DEF InCall
  <2>2. ~ Answered(a)' /\ call'[a].at = "posting"
    BY <1>3, <1>4 DEF Answered
  <2>3. QED
    BY <1>1, <1>3, <1>4, <1>5, <2>1, <2>2 DEF ExchangeInv, InCall
<1>11. LoopInv'
  <2>1. call'["query"].request = call["query"].request
    BY <1>3, <1>4 DEF Actors
  <2>2. QED
    BY <1>1, <2>1 DEF QueriesInv, LoopInv
<1>12. QED
  BY <1>7, <1>8, <1>9, <1>10, <1>11 DEF QueriesInv

LEMMA PostKeeps ==
    ASSUME QueriesInv, NEW a \in Actors, Post(a) PROVE QueriesInv'
<1> DEFINE c == [call[a] EXCEPT !.at = "waiting"]
<1>1. /\ call[a].at = "posting" /\ InCall(a) /\ posted # FifoDepth
      /\ posted' = posted + 1 /\ replies' = 0
      /\ Becomes(a, c)
      /\ UNCHANGED <<lock, buffer, taken, plugged, reading, settled>>
  BY DEF Post, MailboxFull, InCall
<1>2. Shape
  BY DEF QueriesInv
<1>3. /\ c \in Calls /\ c.at = "waiting" /\ c.request = call[a].request
      /\ c.own = call[a].own
  BY <1>2, CallMoves
<1> HIDE DEF c
<1>4. /\ call' \in [Actors -> Calls] /\ call'[a] = c
      /\ \A b \in Actors : b # a => call'[b] = call[b]
  BY <1>1, <1>2, <1>3, CallBecomes
<1>5. \A b \in Actors : InCall(b)' <=> InCall(b)
  BY <1>1, <1>3, <1>4 DEF InCall
<1>6. lock
  BY <1>1 DEF QueriesInv, LockInv, LockFollowsCall, InCall
<1>7. Shape'
  <2>1. posted' \in 0 .. FifoDepth /\ replies' \in Nat
    BY <1>1, <1>2, QueriesAssumption DEF Shape
  <2>2. QED
    BY <1>1, <1>2, <1>4, <2>1 DEF Shape
<1>8. MailboxInv'
  <2>1. Words' <= FifoDepth + 1
    BY <1>1, <1>2, QueriesAssumption DEF Words, Shape
  <2>2. QED
    BY <1>1, <1>6, <2>1 DEF QueriesInv, MailboxInv
<1>9. LockInv'
  BY <1>1, <1>3, <1>4, <1>5 DEF QueriesInv, LockInv, LockFollowsCall, InCall
<1>10. ExchangeInv'
  <2>1. \A b \in Actors : InCall(b)' => b = a
    BY <1>1, <1>5 DEF QueriesInv, LockInv
  <2>2. ~ Answered(a)' /\ call'[a].at = "waiting"
    BY <1>1, <1>3, <1>4 DEF Answered
  <2>3. call[a].own => posted = 0 /\ taken = Nothing /\ buffer.request = call[a].request
    BY <1>1 DEF QueriesInv, ExchangeInv
  <2>4. call[a].own => Words' = 1
    BY <1>1, <2>3 DEF Words
  <2>5. QED
    BY <1>1, <1>3, <1>4, <2>1, <2>2, <2>3, <2>4 DEF ExchangeInv
<1>11. LoopInv'
  <2>1. call'["query"].request = call["query"].request
    BY <1>3, <1>4 DEF Actors
  <2>2. QED
    BY <1>1, <2>1 DEF QueriesInv, LoopInv
<1>12. QED
  BY <1>7, <1>8, <1>9, <1>10, <1>11 DEF QueriesInv

LEMMA FewerWords ==
    ASSUME NEW p \in Int, NEW q \in Int, NEW r \in Int, NEW n \in Int, NEW m \in Int,
           r <= q, p + q + n <= m + 1
    PROVE  p + r + n <= m + 1
OBVIOUS

\* A call ends, with or without an answer.
LEMMA LeavingKeeps ==
    ASSUME QueriesInv, NEW a \in Actors, call[a].at # "out",
           NEW got \in {Nothing, buffer}, Becomes(a, Returned(a, got)),
           lock' = (lock /\ ~ InCall(a)),
           replies' = replies \/ (replies' = 0 /\ InCall(a)),
           UNCHANGED <<buffer, posted, taken, plugged, reading, settled>>
    PROVE  QueriesInv'
<1> DEFINE c == Returned(a, got)
<1>1. Shape /\ got \in Messages \union {Nothing}
  BY DEF QueriesInv, Shape
<1>2. /\ c \in Calls /\ c.at = "out"
      /\ a = "query" /\ reading.active => c.request = call[a].request
  BY <1>1, CallReturns
<1> HIDE DEF c
<1>3. /\ call' \in [Actors -> Calls] /\ call'[a] = c
      /\ \A b \in Actors : b # a => call'[b] = call[b]
  BY <1>1, <1>2, CallBecomes DEF c
<1>4. Shape'
  BY <1>1, <1>3 DEF Shape
<1>5. MailboxInv'
  <2>1. replies' <= replies
    BY <1>1 DEF Shape
  <2>2. Words' <= FifoDepth + 1
    <3>1. /\ Words <= FifoDepth + 1 /\ FifoDepth \in Int
          /\ posted \in Int /\ replies \in Int /\ replies' \in Int
      BY <1>1, <1>4, QueriesAssumption DEF QueriesInv, MailboxInv, Shape
    <3>2. PICK n \in {0, 1} : Words = posted + replies + n /\ Words' = posted + replies' + n
      BY DEF Words
    <3>3. n \in Int
      OBVIOUS
    <3>4. QED
      BY <2>1, <3>1, <3>2, <3>3, FewerWords
  <2>3. QED
    BY <2>2 DEF QueriesInv, MailboxInv
<1>6. LockInv'
  <2>1. /\ ~ InCall(a)'
        /\ \A b \in Actors : b # a => (InCall(b)' <=> InCall(b))
    BY <1>2, <1>3 DEF InCall
  <2>2. CASE InCall(a)
    <3>1. \A b \in Actors : ~ InCall(b)'
      BY <2>1, <2>2 DEF QueriesInv, LockInv
    <3>2. QED
      BY <1>2, <1>3, <2>2, <3>1 DEF QueriesInv, LockInv, LockFollowsCall, InCall
  <2>3. CASE ~ InCall(a)
    <3>1. \A b \in Actors : InCall(b)' <=> InCall(b)
      BY <2>1, <2>3
    <3>2. QED
      BY <1>2, <1>3, <2>3, <3>1 DEF QueriesInv, LockInv, LockFollowsCall, InCall
  <2>4. QED
    BY <2>2, <2>3
<1>7. ExchangeInv'
  <2>1. \A b \in Actors : InCall(b)' => b # a /\ InCall(b) /\ replies' = replies
    BY <1>2, <1>3 DEF QueriesInv, LockInv, InCall
  <2>2. QED
    BY <1>3, <2>1 DEF QueriesInv, ExchangeInv, Answered, Words
<1>8. LoopInv'
  <2>1. reading.active => call'["query"].request = call["query"].request
    BY <1>2, <1>3 DEF Actors
  <2>2. QED
    BY <2>1 DEF QueriesInv, LoopInv
<1>9. QED
  BY <1>4, <1>5, <1>6, <1>7, <1>8 DEF QueriesInv

LEMMA ReplyKeeps ==
    ASSUME QueriesInv, NEW a \in Actors, Reply(a) PROVE QueriesInv'
<1> DEFINE c == [call[a] EXCEPT !.at = "replied"]
<1>1. /\ call[a].at = "waiting" /\ replies > 0 /\ replies' = replies - 1
      /\ Becomes(a, c) /\ InCall(a)
      /\ UNCHANGED <<lock, buffer, posted, taken, plugged, reading, settled>>
  BY DEF Reply, InCall
<1>2. Shape
  BY DEF QueriesInv
<1>3. /\ c \in Calls /\ c.at = "replied" /\ c.request = call[a].request
      /\ c.own = call[a].own
  BY <1>2, CallMoves
<1> HIDE DEF c
<1>4. /\ call' \in [Actors -> Calls] /\ call'[a] = c
      /\ \A b \in Actors : b # a => call'[b] = call[b]
  BY <1>1, <1>2, <1>3, CallBecomes
<1>5. Shape'
  BY <1>1, <1>2, <1>4 DEF Shape
<1>6. Words' = Words - 1 /\ Words \in Int
  BY <1>1, <1>2, QueriesAssumption DEF Words, Shape
<1>7. MailboxInv'
  BY <1>1, <1>6, QueriesAssumption DEF QueriesInv, MailboxInv
<1>8. \A b \in Actors : InCall(b)' <=> InCall(b)
  BY <1>1, <1>3, <1>4 DEF InCall
<1>9. LockInv'
  BY <1>1, <1>3, <1>4, <1>8 DEF QueriesInv, LockInv, LockFollowsCall, InCall
<1>10. ExchangeInv'
  <2>1. \A b \in Actors : InCall(b)' => b = a
    BY <1>1, <1>8 DEF QueriesInv, LockInv
  <2>2. Answered(a)
    BY <1>1 DEF Answered
  <2>3. QED
    BY <1>1, <1>3, <1>4, <1>6, <2>1, <2>2 DEF QueriesInv, ExchangeInv
<1>11. LoopInv'
  <2>1. call'["query"].request = call["query"].request
    BY <1>3, <1>4 DEF Actors
  <2>2. QED
    BY <1>1, <2>1 DEF QueriesInv, LoopInv
<1>12. QED
  BY <1>5, <1>7, <1>9, <1>10, <1>11 DEF QueriesInv

LEMMA AcceptKeeps ==
    ASSUME QueriesInv, NEW a \in Actors, Accept(a) PROVE QueriesInv'
<1> DEFINE c == [call[a] EXCEPT !.at = "accepted"]
<1>1. /\ call[a].at = "replied" /\ Good(call[a].request) /\ lock' = lock
      /\ Becomes(a, c) /\ InCall(a)
      /\ UNCHANGED <<buffer, posted, taken, replies, plugged, reading, settled>>
  BY DEF Accept, InCall, LockWhileCopying, firmware
<1>2. Shape
  BY DEF QueriesInv
<1>3. /\ c \in Calls /\ c.at = "accepted" /\ c.request = call[a].request
      /\ c.own = call[a].own
  BY <1>2, CallMoves
<1> HIDE DEF c
<1>4. /\ call' \in [Actors -> Calls] /\ call'[a] = c
      /\ \A b \in Actors : b # a => call'[b] = call[b]
  BY <1>1, <1>2, <1>3, CallBecomes
<1>5. Shape'
  BY <1>1, <1>2, <1>4 DEF Shape
<1>6. MailboxInv' /\ Words' = Words
  BY <1>1 DEF QueriesInv, MailboxInv, Words
<1>7. \A b \in Actors : InCall(b)' <=> InCall(b)
  BY <1>1, <1>3, <1>4 DEF InCall
<1>8. LockInv'
  BY <1>1, <1>3, <1>4, <1>7 DEF QueriesInv, LockInv, LockFollowsCall, InCall
<1>9. ExchangeInv'
  <2>1. \A b \in Actors : InCall(b)' => b = a
    BY <1>1, <1>7 DEF QueriesInv, LockInv
  <2>2. Answered(a)
    BY <1>1 DEF Answered
  <2>3. LongEnough(call[a].request, buffer.request) /\ buffer.success
    BY <1>1 DEF Good
  <2>4. QED
    BY <1>1, <1>3, <1>4, <1>6, <2>1, <2>2, <2>3 DEF QueriesInv, ExchangeInv
<1>10. LoopInv'
  <2>1. call'["query"].request = call["query"].request
    BY <1>3, <1>4 DEF Actors
  <2>2. QED
    BY <1>1, <2>1 DEF QueriesInv, LoopInv
<1>11. QED
  BY <1>5, <1>6, <1>8, <1>9, <1>10 DEF QueriesInv

LEMMA ProceedKeeps ==
    ASSUME QueriesInv, NEW a \in Actors, Proceed(a) PROVE QueriesInv'
<1>1. CASE Acquire(a)
  BY <1>1, AcquireKeeps
<1>2. CASE Reply(a)
  BY <1>2, ReplyKeeps
<1>3. CASE Accept(a)
  BY <1>3, AcceptKeeps
<1>4. CASE Refuse(a)
  <2>1. /\ call[a].at # "out" /\ Becomes(a, Returned(a, Nothing))
        /\ UNCHANGED <<lock, buffer, posted, taken, replies, plugged, reading, settled>>
        /\ ~ InCall(a)
    BY <1>4 DEF Refuse, Failed, InCall, firmware
  <2>2. lock' = (lock /\ ~ InCall(a))
    BY <2>1 DEF QueriesInv, Shape
  <2>3. QED
    BY <2>1, <2>2, LeavingKeeps
<1>5. CASE PostFails(a) \/ TimeOut(a) \/ Reject(a)
  <2>1. /\ call[a].at # "out" /\ Becomes(a, Returned(a, Nothing))
        /\ UNCHANGED <<buffer, posted, taken, plugged, reading, settled>>
        /\ InCall(a) /\ lock' = FALSE /\ replies' \in {replies, 0}
    BY <1>5 DEF PostFails, TimeOut, Reject, Failed, InCall, Released, firmware
  <2>2. QED
    BY <2>1, LeavingKeeps
<1>6. CASE Copy(a)
  <2>1. /\ call[a].at # "out" /\ Becomes(a, Returned(a, buffer))
        /\ UNCHANGED <<buffer, posted, taken, replies, plugged, reading, settled>>
        /\ InCall(a) /\ lock' = FALSE
    BY <1>6 DEF Copy, InCall, firmware
  <2>2. QED
    BY <2>1, LeavingKeeps
<1>7. CASE Post(a)
  BY <1>7, PostKeeps
<1>8. QED
  BY <1>1, <1>2, <1>3, <1>4, <1>5, <1>6, <1>7 DEF Proceed

-----------------------------------------------------------------------------
(* The steps of the users *)

\* A call of an actor that is in none begins, or its result is put away.
LEMMA EnteringKeeps ==
    ASSUME QueriesInv, NEW a \in Actors, call[a].at = "out",
           NEW c \in Calls, c.at \in {"out", "entering"},
           c.at # "out" => c.request \in Requests,
           Becomes(a, c), UNCHANGED <<lock, buffer, firmware>>
    PROVE  /\ call' \in [Actors -> Calls] /\ call'[a] = c
           /\ \A b \in Actors : b # a => call'[b] = call[b]
           /\ MailboxInv' /\ LockInv' /\ ExchangeInv'
<1>1. /\ call' \in [Actors -> Calls] /\ call'[a] = c
      /\ \A b \in Actors : b # a => call'[b] = call[b]
  BY CallBecomes DEF QueriesInv
<1>2. \A b \in Actors : InCall(b)' <=> InCall(b)
  BY <1>1 DEF InCall
<1>3. ~ InCall(a)
  BY DEF InCall
<1>4. MailboxInv' /\ Words' = Words
  BY DEF QueriesInv, MailboxInv, Words, firmware
<1>5. LockInv'
  BY <1>1, <1>2 DEF QueriesInv, LockInv, LockFollowsCall, InCall
<1>6. ExchangeInv'
  BY <1>1, <1>2, <1>3, <1>4 DEF QueriesInv, ExchangeInv, Answered, firmware
<1>7. QED
  BY <1>1, <1>4, <1>5, <1>6

LEMMA FanTimerKeeps ==
    ASSUME QueriesInv, FanTimerTicks PROVE QueriesInv'
<1> DEFINE c == Entering(Temperature, TRUE)
<1>1. Temperature \in Requests /\ TRUE \in BOOLEAN /\ "fan" \in Actors
  BY DEF Requests, Actors
<1>2. c \in Calls /\ c.at = "entering" /\ c.request = Temperature
  BY <1>1, CallEnters
<1>3. /\ call["fan"].at = "out" /\ Becomes("fan", c)
      /\ UNCHANGED <<lock, buffer, firmware, plugged, reading, settled>>
  BY DEF FanTimerTicks
<1> HIDE DEF c
<1>4. /\ call' \in [Actors -> Calls] /\ call'["query"] = call["query"]
      /\ MailboxInv' /\ LockInv' /\ ExchangeInv'
  BY <1>1, <1>2, <1>3, EnteringKeeps DEF Actors
<1>5. Shape'
  BY <1>3, <1>4 DEF QueriesInv, Shape, firmware
<1>6. LoopInv'
  BY <1>3, <1>4 DEF QueriesInv, LoopInv
<1>7. QED
  BY <1>4, <1>5, <1>6 DEF QueriesInv

LEMMA LookUpKeeps ==
    ASSUME QueriesInv, LookUp PROVE QueriesInv'
<1>1. PICK r \in Lookups, masked \in BOOLEAN : Becomes("query", Entering(r, masked))
  BY DEF LookUp
<1> DEFINE c == Entering(r, masked)
<1>2. r \in Requests /\ "query" \in Actors
  BY DEF Requests, Actors
<1>3. c \in Calls /\ c.at = "entering" /\ c.request = r
  BY <1>2, CallEnters
<1>4. /\ call["query"].at = "out" /\ Becomes("query", c)
      /\ reading' = NotReading /\ settled' = FALSE
      /\ UNCHANGED <<lock, buffer, firmware, plugged>>
  BY <1>1 DEF LookUp, Busy
<1> HIDE DEF c
<1>5. call' \in [Actors -> Calls] /\ MailboxInv' /\ LockInv' /\ ExchangeInv'
  BY <1>2, <1>3, <1>4, EnteringKeeps
<1>6. /\ reading' \in [active : BOOLEAN, display : Displays \union {0},
                      edid : Seq(Messages), complete : BOOLEAN]
      /\ Len(reading'.edid) = 0 /\ ~ reading'.active
  BY <1>4 DEF NotReading
<1>7. Shape'
  BY <1>4, <1>5, <1>6 DEF QueriesInv, Shape, firmware
<1>8. LoopInv'
  BY <1>6 DEF LoopInv, RPI5_DISPLAY_HANDOFF_MAX_EDID_BLOCKS
<1>9. QED
  BY <1>5, <1>7, <1>8 DEF QueriesInv

LEMMA EdidRequestIsRequest ==
    ASSUME NEW d \in Displays, NEW b \in Blocks
    PROVE  Request("edid", d, b) \in Requests
BY DEF Requests, EdidRequests

LEMMA ReadDisplayEdidKeeps ==
    ASSUME QueriesInv, ReadDisplayEdid PROVE QueriesInv'
<1>1. PICK d \in Displays, masked \in BOOLEAN :
         /\ Becomes("query", Entering(Request("edid", d, 0), masked))
         /\ reading' = [NotReading EXCEPT !.active = TRUE, !.display = d]
  BY DEF ReadDisplayEdid
<1> DEFINE r == Request("edid", d, 0)
           c == Entering(r, masked)
<1>2. r \in Requests /\ "query" \in Actors
  BY EdidRequestIsRequest DEF Actors, Blocks, RPI5_DISPLAY_HANDOFF_MAX_EDID_BLOCKS
<1>3. c \in Calls /\ c.at = "entering" /\ c.request = r
  BY <1>2, CallEnters
<1>4. /\ call["query"].at = "out" /\ Becomes("query", c)
      /\ settled' = TRUE
      /\ UNCHANGED <<lock, buffer, firmware, plugged>>
  BY <1>1 DEF ReadDisplayEdid, Busy
<1>5. /\ reading' \in [active : BOOLEAN, display : Displays \union {0},
                      edid : Seq(Messages), complete : BOOLEAN]
      /\ Len(reading'.edid) = 0 /\ reading'.display = d
  <2>1. reading' = [active |-> TRUE, display |-> d, edid |-> <<>>, complete |-> FALSE]
    BY <1>1 DEF NotReading
  <2>2. QED
    BY <2>1
<1> HIDE DEF c
<1>6. /\ call' \in [Actors -> Calls] /\ call'["query"] = c
      /\ MailboxInv' /\ LockInv' /\ ExchangeInv'
  BY <1>2, <1>3, <1>4, EnteringKeeps
<1>7. Shape'
  BY <1>4, <1>5, <1>6 DEF QueriesInv, Shape, firmware
<1>8. LoopInv'
  BY <1>3, <1>5, <1>6 DEF LoopInv, RPI5_DISPLAY_HANDOFF_MAX_EDID_BLOCKS
<1>9. QED
  BY <1>6, <1>7, <1>8 DEF QueriesInv

\* A block with a good checksum came from a monitor.
LEMMA SoundHasMonitor ==
    ASSUME NEW m \in Messages, m.contents.sound
    PROVE  m.contents.monitor \in Monitors
<1>1. m.contents \in Contents \union {NoContents}
  BY DEF Messages
<1>2. m.contents # NoContents
  BY DEF NoContents
<1>3. QED
  BY <1>1, <1>2 DEF Contents

\* The blocks after one more has been read.
LEMMA BlockAdded ==
    ASSUME NEW s \in Seq(Messages), NEW m \in Messages, m.contents.sound,
           \A n \in 1 .. Len(s) : s[n].contents.sound
    PROVE  /\ Append(s, m) \in Seq(Messages) /\ Len(Append(s, m)) = Len(s) + 1
           /\ \A n \in 1 .. Len(s) : Append(s, m)[n] = s[n]
           /\ Append(s, m)[Len(s) + 1] = m
           /\ \A n \in 1 .. Len(s) + 1 : Append(s, m)[n].contents.sound
           /\ WantedBlocks(Append(s, m)) \in Nat
           /\ ReadLimit(Append(s, m)) <= RPI5_DISPLAY_HANDOFF_MAX_EDID_BLOCKS
<1> DEFINE t == Append(s, m)
<1>1. /\ t \in Seq(Messages) /\ Len(t) = Len(s) + 1 /\ Len(s) \in Nat
      /\ \A n \in 1 .. Len(s) : t[n] = s[n]
      /\ t[Len(s) + 1] = m
  OBVIOUS
<1> HIDE DEF t
<1>2. \A n \in 1 .. Len(s) + 1 : t[n].contents.sound
  BY <1>1
<1>3. t[1] \in Messages /\ t[1].contents.sound
  BY <1>1, <1>2
<1>4. t[1].contents.monitor \in Monitors
  BY <1>3, SoundHasMonitor
<1>5. WantedBlocks(t) \in Nat
  <2>1. \A x \in Monitors : EdidBlocks[x] \in Nat
    <3>1. EdidBlocks \in [Monitors -> 1 .. 256]
      BY QueriesAssumption
    <3>2. 1 .. 256 \subseteq Nat
      OBVIOUS
    <3>3. QED
      BY <3>1, <3>2
  <2>2. QED
    BY <1>4, <2>1 DEF WantedBlocks
<1>6. ReadLimit(t) <= RPI5_DISPLAY_HANDOFF_MAX_EDID_BLOCKS
  BY <1>5 DEF ReadLimit, RPI5_DISPLAY_HANDOFF_MAX_EDID_BLOCKS
<1>7. QED
  BY <1>1, <1>2, <1>5, <1>6 DEF t

LEMMA NextBlockKeeps ==
    ASSUME QueriesInv, NextBlock PROVE QueriesInv'
<1> DEFINE got == call["query"].got
           edid == Append(reading.edid, got)
           kept == got # Nothing /\ ValidateEdidBlock(got, reading.edid = <<>>)
           more == kept /\ Len(edid) < ReadLimit(edid)
           r == Request("edid", reading.display, Len(edid))
<1>1. /\ reading.active /\ call["query"].at = "out" /\ "query" \in Actors
      /\ settled' \in BOOLEAN
      /\ UNCHANGED <<lock, buffer, firmware, plugged>>
  BY DEF NextBlock, QueriesInv, Shape, Calls, Actors
<1>2. /\ got \in Messages \union {Nothing} /\ call["query"].masked \in BOOLEAN
      /\ reading.edid \in Seq(Messages) /\ reading.display \in Displays
      /\ Len(reading.edid) < RPI5_DISPLAY_HANDOFF_MAX_EDID_BLOCKS
      /\ \A n \in 1 .. Len(reading.edid) : reading.edid[n].contents.sound
      /\ reading \in [active : BOOLEAN, display : Displays \union {0},
                      edid : Seq(Messages), complete : BOOLEAN]
  BY <1>1 DEF QueriesInv, Shape, LoopInv, Calls
<1>3. kept => /\ edid \in Seq(Messages) /\ Len(edid) = Len(reading.edid) + 1
              /\ \A n \in 1 .. Len(edid) : edid[n].contents.sound
              /\ WantedBlocks(edid) \in Nat
              /\ ReadLimit(edid) <= RPI5_DISPLAY_HANDOFF_MAX_EDID_BLOCKS
  <2>1. kept => got \in Messages /\ got.contents.sound
    BY <1>2 DEF ValidateEdidBlock
  <2>2. QED
    BY <1>2, <2>1, BlockAdded
<1>4. \/ /\ more /\ Becomes("query", Entering(r, call["query"].masked))
         /\ reading' = [reading EXCEPT !.edid = edid]
      \/ /\ ~ more /\ Becomes("query", Out)
         /\ reading' = [reading EXCEPT !.active = FALSE, !.edid = IF kept THEN edid ELSE @,
                                       !.complete = kept /\ Complete(edid)]
  BY DEF NextBlock
<1> HIDE DEF kept, edid, got
<1>5. CASE more
  <2> DEFINE c == Entering(r, call["query"].masked)
  <2>1. Len(edid) \in Blocks /\ Len(edid) < RPI5_DISPLAY_HANDOFF_MAX_EDID_BLOCKS
    <3>1. Len(edid) \in Nat /\ ReadLimit(edid) \in Nat
      BY <1>2, <1>3, <1>5 DEF ReadLimit, RPI5_DISPLAY_HANDOFF_MAX_EDID_BLOCKS
    <3>2. Len(edid) < ReadLimit(edid) /\ ReadLimit(edid) <= 4
      BY <1>3, <1>5 DEF RPI5_DISPLAY_HANDOFF_MAX_EDID_BLOCKS
    <3>3. Len(edid) < 4
      BY <3>1, <3>2
    <3>4. \A n \in Nat : n < 4 => n \in Blocks /\ n < RPI5_DISPLAY_HANDOFF_MAX_EDID_BLOCKS
      BY DEF Blocks, RPI5_DISPLAY_HANDOFF_MAX_EDID_BLOCKS
    <3>5. QED
      BY <3>1, <3>3, <3>4
  <2>2. r \in Requests
    BY <1>2, <2>1, EdidRequestIsRequest
  <2>3. c \in Calls /\ c.at = "entering" /\ c.request = r
    BY <1>2, <2>2, CallEnters
  <2>4. /\ Becomes("query", c) /\ reading' = [reading EXCEPT !.edid = edid]
    BY <1>4, <1>5
  <2> HIDE DEF c
  <2>5. /\ call' \in [Actors -> Calls] /\ call'["query"] = c
        /\ MailboxInv' /\ LockInv' /\ ExchangeInv'
    BY <1>1, <2>2, <2>3, <2>4, EnteringKeeps
  <2>6. /\ reading' \in [active : BOOLEAN, display : Displays \union {0},
                         edid : Seq(Messages), complete : BOOLEAN]
        /\ reading'.edid = edid /\ reading'.display = reading.display
    BY <1>2, <1>3, <1>5, <2>4
  <2>7. Shape'
    BY <1>1, <2>5, <2>6 DEF QueriesInv, Shape, firmware
  <2>8. LoopInv'
    BY <1>2, <1>3, <1>5, <2>1, <2>3, <2>5, <2>6 DEF LoopInv, RPI5_DISPLAY_HANDOFF_MAX_EDID_BLOCKS
  <2>9. QED
    BY <2>5, <2>7, <2>8 DEF QueriesInv
<1>6. CASE ~ more
  <2>1. /\ Becomes("query", Out)
        /\ reading' = [reading EXCEPT !.active = FALSE, !.edid = IF kept THEN edid ELSE @,
                                      !.complete = kept /\ Complete(edid)]
    BY <1>4, <1>6
  <2>2. call' \in [Actors -> Calls] /\ MailboxInv' /\ LockInv' /\ ExchangeInv'
    BY <1>1, <2>1, OutIsCall, EnteringKeeps
  <2>3. kept \in BOOLEAN /\ (kept /\ Complete(edid)) \in BOOLEAN
    BY DEF kept, Complete
  <2>4. /\ reading' \in [active : BOOLEAN, display : Displays \union {0},
                         edid : Seq(Messages), complete : BOOLEAN]
        /\ reading'.edid = (IF kept THEN edid ELSE reading.edid) /\ ~ reading'.active
    BY <1>2, <1>3, <2>1, <2>3
  <2>5. Shape'
    BY <1>1, <2>2, <2>4 DEF QueriesInv, Shape, firmware
  <2>6. /\ \A n \in 1 .. Len(reading'.edid) : reading'.edid[n].contents.sound
        /\ Len(reading'.edid) <= RPI5_DISPLAY_HANDOFF_MAX_EDID_BLOCKS
    BY <1>2, <1>3, <2>4 DEF RPI5_DISPLAY_HANDOFF_MAX_EDID_BLOCKS
  <2>7. LoopInv'
    BY <2>4, <2>6 DEF LoopInv
  <2>8. QED
    BY <2>2, <2>5, <2>7 DEF QueriesInv
<1>7. QED
  BY <1>5, <1>6

-----------------------------------------------------------------------------
(* The steps of the firmware and the user *)

LEMMA FirmwareTakesKeeps ==
    ASSUME QueriesInv, FirmwareTakes PROVE QueriesInv'
<1>1. /\ posted > 0 /\ taken = Nothing /\ posted' = posted - 1 /\ taken' = buffer.request
      /\ UNCHANGED <<lock, buffer, replies, plugged, call, reading, settled>>
  BY DEF FirmwareTakes
<1>2. buffer \in Messages /\ posted \in Nat /\ replies \in Nat
  BY <1>1, QueriesAssumption DEF QueriesInv, Shape, MailboxInv
<1>3. taken' \in Requests
  BY <1>1, <1>2 DEF Messages
<1>4. Shape'
  BY <1>1, <1>2, <1>3, QueriesAssumption DEF QueriesInv, Shape
<1>5. Words' = Words
  BY <1>1, <1>2, <1>3, NothingIsApart DEF Words
<1>6. MailboxInv'
  BY <1>1, <1>2, <1>5, NothingIsApart DEF QueriesInv, MailboxInv
<1>7. LockInv'
  BY <1>1 DEF QueriesInv, LockInv, LockFollowsCall, InCall
<1>8. ExchangeInv'
  BY <1>1, <1>5 DEF QueriesInv, ExchangeInv, InCall, Answered
<1>9. LoopInv'
  BY <1>1 DEF QueriesInv, LoopInv
<1>10. QED
  BY <1>4, <1>6, <1>7, <1>8, <1>9 DEF QueriesInv

\* What the firmware leaves in the buffer.
LEMMA FirmwareAnswer ==
    ASSUME QueriesInv, FirmwareAnswers
    PROVE  /\ taken \in Requests
           /\ buffer' \in Messages /\ buffer'.request = taken
           /\ buffer'.success => buffer'.contents \in Answers(taken)
<1>1. taken \in Requests
  BY DEF FirmwareAnswers, QueriesInv, Shape
<1>2. Answers(taken) \subseteq Contents \union {NoContents}
  BY DEF Answers
<1>3. CASE buffer' = Message(taken, FALSE, NoContents)
  <2>1. FALSE \in BOOLEAN /\ NoContents \in Contents \union {NoContents}
    OBVIOUS
  <2>2. QED
    BY <1>1, <1>3, <2>1 DEF Message, Messages
<1>4. CASE \E c \in Answers(taken) : buffer' = Message(taken, TRUE, c)
  <2>1. PICK c \in Answers(taken) : buffer' = Message(taken, TRUE, c)
    BY <1>4
  <2>2. TRUE \in BOOLEAN /\ c \in Contents \union {NoContents}
    BY <1>2
  <2>3. QED
    BY <1>1, <2>1, <2>2 DEF Message, Messages
<1>5. QED
  BY <1>1, <1>3, <1>4 DEF FirmwareAnswers

LEMMA FirmwareAnswersKeeps ==
    ASSUME QueriesInv, FirmwareAnswers PROVE QueriesInv'
<1>1. /\ taken # Nothing /\ replies' = replies + 1 /\ taken' = Nothing
      /\ UNCHANGED <<lock, posted, plugged, call, reading, settled>>
  BY DEF FirmwareAnswers
<1>2. buffer' \in Messages /\ buffer'.request = taken
  BY FirmwareAnswer
<1>3. posted \in Nat /\ replies \in Nat
  BY QueriesAssumption DEF QueriesInv, Shape
<1>4. Shape'
  BY <1>1, <1>2, <1>3 DEF QueriesInv, Shape
<1>5. Words' = Words /\ Words > 0
  BY <1>1, <1>3 DEF Words
<1>6. MailboxInv'
  BY <1>1, <1>2, <1>5, NothingIsApart DEF QueriesInv, MailboxInv
<1>7. LockInv'
  BY <1>1 DEF QueriesInv, LockInv, LockFollowsCall, InCall
<1>8. ExchangeInv'
  <2> SUFFICES ASSUME NEW a \in Actors, InCall(a)
               PROVE  /\ call[a].own =>
                            /\ buffer'.request = call[a].request
                            /\ call[a].at = "waiting" /\ Words' = 1
                      /\ call[a].at = "accepted" =>
                            LongEnough(call[a].request, buffer'.request)
                      /\ call[a].at = "accepted" /\ call[a].own => buffer'.success
    BY <1>1 DEF ExchangeInv, InCall
  <2>1. call[a].own => taken = call[a].request /\ call[a].at = "waiting" /\ Words = 1
    BY <1>1, <1>5 DEF QueriesInv, ExchangeInv
  <2>2. call[a].at = "accepted" => LongEnough(call[a].request, buffer'.request)
    BY <1>1, <1>2 DEF QueriesInv, ExchangeInv, Answered
  <2>3. QED
    BY <1>2, <1>5, <2>1, <2>2
<1>9. LoopInv'
  BY <1>1 DEF QueriesInv, LoopInv
<1>10. QED
  BY <1>4, <1>6, <1>7, <1>8, <1>9 DEF QueriesInv

LEMMA ReplugKeeps ==
    ASSUME QueriesInv, Replug PROVE QueriesInv'
<1>1. /\ plugged' \in [Displays -> Monitors] /\ settled' \in BOOLEAN
      /\ UNCHANGED <<lock, buffer, posted, taken, replies, call, reading>>
  BY DEF Replug, QueriesInv, Shape, firmware
<1>2. Shape'
  BY <1>1 DEF QueriesInv, Shape
<1>3. MailboxInv' /\ Words' = Words
  BY <1>1 DEF QueriesInv, MailboxInv, Words
<1>4. LockInv'
  BY <1>1 DEF QueriesInv, LockInv, LockFollowsCall, InCall
<1>5. ExchangeInv'
  BY <1>1, <1>3 DEF QueriesInv, ExchangeInv, InCall, Answered
<1>6. LoopInv'
  BY <1>1 DEF QueriesInv, LoopInv
<1>7. QED
  BY <1>2, <1>3, <1>4, <1>5, <1>6 DEF QueriesInv

LEMMA QueriesStep == QueriesInv /\ [Next]_vars => QueriesInv'
<1> SUFFICES ASSUME QueriesInv, [Next]_vars PROVE QueriesInv'
  OBVIOUS
<1>1. ASSUME NEW a \in Actors, Proceed(a) PROVE QueriesInv'
  BY <1>1, ProceedKeeps
<1>2. CASE UNCHANGED vars
  BY <1>2 DEF vars, firmware, QueriesInv, Shape, MailboxInv, Words, LockInv, LockFollowsCall,
     InCall, ExchangeInv, Answered, LoopInv
<1>3. QED
  BY <1>1, <1>2, FanTimerKeeps, LookUpKeeps, ReadDisplayEdidKeeps, NextBlockKeeps,
     FirmwareTakesKeeps, FirmwareAnswersKeeps, ReplugKeeps DEF Next

LEMMA QueriesAlways == Spec => []QueriesInv
BY Starts, QueriesStep, PTL DEF Spec

\* Everything has its type; above all the loop over the blocks asks for none
\* that has no place in the buffer, whatever a base block announces.
THEOREM Types == Spec => []TypeOK
<1>1. QueriesInv => TypeOK
  <2> SUFFICES ASSUME QueriesInv PROVE TypeOK
    OBVIOUS
  <2>1. replies <= FifoDepth + 1 /\ replies \in Nat
    BY QueriesAssumption DEF QueriesInv, Shape, MailboxInv, Words
  <2>2. QED
    BY <2>1, QueriesAssumption DEF QueriesInv, Shape, LoopInv, TypeOK
<1>2. QED
  BY <1>1, QueriesAlways, PTL

\* The lock is held exactly while a call is in progress.
THEOREM LockFollows == Spec => []LockFollowsCall
<1>1. QueriesInv => LockFollowsCall
  BY DEF QueriesInv, LockInv
<1>2. QED
  BY <1>1, QueriesAlways, PTL

\* Two users that interrupt each other get their own answers through one buffer.
THEOREM OwnAnswers == Spec => []AnswersAreOwn
<1>1. QueriesInv => AnswersAreOwn
  BY DEF QueriesInv, ExchangeInv, InCall, AnswersAreOwn
<1>2. QED
  BY <1>1, QueriesAlways, PTL

\* No late answer makes a display query copy more than the answer has, and no
\* base block makes the loop keep more blocks than the caller has room for.
THEOREM AnswersSuffice == Spec => []NothingBehindAnswers
<1>1. QueriesInv => NothingBehindAnswers
  BY DEF QueriesInv, ExchangeInv, LoopInv, InCall, NothingBehindAnswers, LongEnough
<1>2. QED
  BY <1>1, QueriesAlways, PTL

\* A step that changes one actor's call, in the middle of the other's, gets
\* neither past the lock nor to the mailbox.
LEMMA ApartStep ==
    ASSUME QueriesInv, [Next]_vars, NEW a \in Actors, NEW b \in Actors, a # b,
           InCall(a), call'[b] # call[b]
    PROVE  UNCHANGED <<lock, buffer, firmware>>
<1>1. lock /\ ~ InCall(b) /\ Shape
  BY DEF QueriesInv, LockInv, LockFollowsCall, InCall
<1>2. ASSUME NEW c \in Actors, Proceed(c) PROVE UNCHANGED <<lock, buffer, firmware>>
  <2>1. CASE c = b
    <3>1. Refuse(b)
      BY <1>1, <1>2, <2>1 DEF Proceed, Acquire, AcquireSpinLockOrFail, Post, PostFails, Reply,
         TimeOut, Accept, Reject, Copy, InCall
    <3>2. QED
      BY <3>1 DEF Refuse
  <2>2. CASE c # b
    <3>1. \E d : Becomes(c, d)
      BY <1>2 DEF Proceed, Acquire, Refuse, Post, PostFails, Reply, TimeOut, Accept, Reject, Copy
    <3>2. call'[b] = call[b]
      BY <1>1, <2>2, <3>1 DEF Shape, Becomes
    <3>3. QED
      BY <3>2
  <2>3. QED
    BY <2>1, <2>2
<1>3. CASE FanTimerTicks \/ LookUp \/ ReadDisplayEdid \/ NextBlock
  BY <1>3 DEF FanTimerTicks, LookUp, ReadDisplayEdid, NextBlock
<1>4. CASE FirmwareTakes \/ FirmwareAnswers \/ Replug \/ UNCHANGED vars
  <2>1. call' = call
    BY <1>4 DEF FirmwareTakes, FirmwareAnswers, Replug, vars
  <2>2. QED
    BY <2>1
<1>5. QED
  BY <1>2, <1>3, <1>4 DEF Next

\* Two users share a lock, a buffer and a mailbox, one interrupts the other at
\* any point, and it never reaches what the interrupted call is using.
THEOREM InterruptsAreHarmless == Spec => CallersKeepApart
<1>1. QueriesInv /\ [Next]_vars =>
        \A a, b \in Actors :
            /\ a # b
            /\ call[a].at \in {"posting", "waiting", "replied", "accepted"}
            /\ call'[b] # call[b]
            => UNCHANGED <<lock, buffer, firmware>>
  BY ApartStep DEF InCall
<1>2. QED
  BY <1>1, QueriesAlways, PTL DEF Spec, CallersKeepApart

-----------------------------------------------------------------------------
(* Reading the blocks of one monitor *)

ReadInv == QueriesInv /\ SettledInv /\ CompleteInv

\* What SettledInv says of the call in progress and of its result.
CallCurrent ==
    settled /\ reading.active =>
        /\ InCall("query") /\ call["query"].own /\ Answered("query") /\ buffer.success =>
              IsCurrentBlock(buffer, Len(reading.edid))
        /\ call["query"].at = "out" /\ call["query"].own /\ call["query"].got # Nothing =>
              IsCurrentBlock(call["query"].got, Len(reading.edid))

\* A step that leaves the monitors and the blocks alone.
LEMMA QuietStep ==
    ASSUME ReadInv, UNCHANGED <<plugged, reading, settled>>, CallCurrent'
    PROVE  SettledInv' /\ CompleteInv'
<1>1. CompleteInv'
  BY DEF ReadInv, CompleteInv, Complete, WantedBlocks
<1>2. SettledInv'
  BY DEF ReadInv, SettledInv, CallCurrent, IsCurrentBlock
<1>3. QED
  BY <1>1, <1>2

LEMMA ProceedReads ==
    ASSUME ReadInv, NEW a \in Actors, Proceed(a) PROVE SettledInv' /\ CompleteInv'
<1>1. UNCHANGED <<plugged, reading, settled>>
  BY DEF Proceed, Acquire, Refuse, Post, PostFails, Reply, TimeOut, Accept, Reject, Copy
<1>2. CallCurrent
  BY DEF ReadInv, SettledInv, CallCurrent
<1>3. Shape /\ LockInv /\ ExchangeInv /\ "query" \in Actors
  BY DEF ReadInv, QueriesInv, Actors
<1>4. CASE Acquire(a) \/ Post(a)
  <2>1. Post(a) => replies' = 0 /\ call[a].at = "posting"
    BY DEF Post
  <2>2. \A b \in Actors : InCall(b) => b = a /\ Post(a)
    BY <1>3, <1>4, <2>1 DEF Acquire, AcquireSpinLockOrFail, LockInv, LockFollowsCall, InCall
  <2>3. CASE a # "query"
    <3>1. call'["query"] = call["query"]
      BY <1>3, <1>4, <2>3 DEF Acquire, Post, Becomes, Shape
    <3>2. ~ InCall("query")'
      BY <1>3, <2>2, <2>3, <3>1 DEF InCall
    <3>3. CallCurrent'
      BY <1>1, <1>2, <3>1, <3>2 DEF CallCurrent, IsCurrentBlock
    <3>4. QED
      BY <1>1, <3>3, QuietStep
  <2>4. CASE a = "query"
    <3>1. CASE Acquire(a)
      <4>1. call'["query"].at = "posting"
        BY <1>3, <2>4, <3>1 DEF Acquire, Becomes, Shape, Calls
      <4>2. CallCurrent'
        BY <4>1 DEF CallCurrent, Answered
      <4>3. QED
        BY <1>1, <4>2, QuietStep
    <3>2. CASE Post(a)
      <4>1. call'["query"].at = "waiting"
        BY <1>3, <2>4, <3>2 DEF Post, Becomes, Shape, Calls
      <4>2. CallCurrent'
        BY <2>1, <3>2, <4>1 DEF CallCurrent, Answered
      <4>3. QED
        BY <1>1, <4>2, QuietStep
    <3>3. QED
      BY <1>4, <3>1, <3>2
  <2>5. QED
    BY <2>3, <2>4
<1>5. CASE Reply(a) \/ Accept(a)
  <2>1. /\ UNCHANGED buffer /\ InCall(a) /\ Answered(a)
        /\ \E p \in {"replied", "accepted"} : Becomes(a, [call[a] EXCEPT !.at = p])
    BY <1>5 DEF Reply, Accept, InCall, Answered
  <2>2. CASE a = "query"
    <3>1. call'["query"].at # "out" /\ call'["query"].own = call["query"].own
      BY <1>3, <2>1, <2>2 DEF Becomes, Shape, Calls
    <3>2. CallCurrent'
      BY <1>1, <1>2, <2>1, <2>2, <3>1 DEF CallCurrent, IsCurrentBlock
    <3>3. QED
      BY <1>1, <3>2, QuietStep
  <2>3. CASE a # "query"
    <3>1. call'["query"] = call["query"]
      BY <1>3, <2>1, <2>3 DEF Becomes, Shape
    <3>2. ~ InCall("query")'
      BY <1>3, <2>1, <2>3, <3>1 DEF LockInv, InCall
    <3>3. CallCurrent'
      BY <1>1, <1>2, <3>1, <3>2 DEF CallCurrent, IsCurrentBlock
    <3>4. QED
      BY <1>1, <3>3, QuietStep
  <2>4. QED
    BY <2>2, <2>3
<1>6. CASE Refuse(a) \/ PostFails(a) \/ TimeOut(a) \/ Reject(a) \/ Copy(a)
  <2>1. PICK got \in {Nothing, buffer} :
           /\ Becomes(a, Returned(a, got)) /\ buffer' = buffer /\ replies' \in {replies, 0}
           /\ got # Nothing => call[a].at = "accepted" /\ got = buffer
    BY <1>6 DEF Refuse, PostFails, TimeOut, Reject, Copy, Failed, firmware
  <2>2. CASE a = "query" /\ reading.active
    <3>1. /\ call'["query"].at = "out" /\ call'["query"].own = call["query"].own
          /\ call'["query"].got = got
      BY <1>3, <2>1, <2>2 DEF Becomes, Returned, Shape, Calls
    <3>2. got # Nothing /\ call["query"].own =>
             InCall("query") /\ Answered("query") /\ buffer.success /\ got = buffer
      BY <1>3, <2>1, <2>2 DEF ExchangeInv, InCall, Answered
    <3>3. CallCurrent'
      BY <1>1, <1>2, <2>2, <3>1, <3>2 DEF CallCurrent, IsCurrentBlock, InCall
    <3>4. QED
      BY <1>1, <3>3, QuietStep
  <2>3. CASE a # "query" /\ reading.active
    <3>1. call'["query"] = call["query"]
      BY <1>3, <2>1, <2>3 DEF Becomes, Shape
    <3>2. CallCurrent'
      BY <1>1, <1>2, <2>1, <3>1 DEF CallCurrent, IsCurrentBlock, InCall, Answered
    <3>3. QED
      BY <1>1, <3>2, QuietStep
  <2>4. CASE ~ reading.active
    BY <1>1, <2>4, QuietStep DEF CallCurrent
  <2>5. QED
    BY <2>2, <2>3, <2>4
<1>7. QED
  BY <1>4, <1>5, <1>6 DEF Proceed

LEMMA FanTimerReads ==
    ASSUME ReadInv, FanTimerTicks PROVE SettledInv' /\ CompleteInv'
<1>1. /\ UNCHANGED <<lock, buffer, firmware, plugged, reading, settled>>
      /\ call'["query"] = call["query"]
  BY DEF FanTimerTicks, Becomes, ReadInv, QueriesInv, Shape, Actors
<1>2. CallCurrent'
  BY <1>1 DEF ReadInv, SettledInv, CallCurrent, IsCurrentBlock, InCall, Answered, firmware
<1>3. QED
  BY <1>1, <1>2, QuietStep

LEMMA StartsReading ==
    ASSUME ReadInv, LookUp \/ ReadDisplayEdid PROVE SettledInv' /\ CompleteInv'
<1>1. CASE LookUp
  BY <1>1 DEF LookUp, SettledInv, CompleteInv, NotReading
<1>2. CASE ReadDisplayEdid
  <2>1. reading'.edid = <<>> /\ ~ reading'.complete
    BY <1>2 DEF ReadDisplayEdid, NotReading
  <2>2. call'["query"].at = "entering"
    <3>1. PICK d \in Displays, masked \in BOOLEAN :
             Becomes("query", Entering(Request("edid", d, 0), masked))
      BY <1>2 DEF ReadDisplayEdid
    <3>2. QED
      BY <3>1 DEF Becomes, Entering, Out, ReadInv, QueriesInv, Shape, Actors
  <2>3. QED
    BY <2>1, <2>2 DEF SettledInv, CompleteInv, InCall
<1>3. QED
  BY <1>1, <1>2

\* Blocks that the same monitor would give now.
LEMMA CurrentBlocks ==
    ASSUME NEW s \in Seq(Messages), \A n \in 1 .. Len(s) : IsCurrentBlock(s[n], n - 1)
    PROVE  \A n \in 1 .. Len(s) :
              s[n].request.block = n - 1 /\ s[n].contents.monitor = s[1].contents.monitor
<1> TAKE n \in 1 .. Len(s)
<1>1. Len(s) \in Nat
  OBVIOUS
<1>2. n \in Int /\ 1 \in 1 .. Len(s)
  BY <1>1
<1>3. IsCurrentBlock(s[n], n - 1) /\ IsCurrentBlock(s[1], 1 - 1)
  BY <1>2
<1>4. s[n].contents.monitor = s[1].contents.monitor
  BY <1>3 DEF IsCurrentBlock
<1>5. s[n].request.block = n - 1
  BY <1>3 DEF IsCurrentBlock, Request
<1>6. QED
  BY <1>4, <1>5

LEMMA NextBlockReads ==
    ASSUME ReadInv, NextBlock PROVE SettledInv' /\ CompleteInv'
<1> DEFINE got == call["query"].got
           edid == Append(reading.edid, got)
           kept == got # Nothing /\ ValidateEdidBlock(got, reading.edid = <<>>)
           more == kept /\ Len(edid) < ReadLimit(edid)
           old == Len(reading.edid)
<1>1. /\ reading.active /\ call["query"].at = "out" /\ plugged' = plugged
      /\ settled' = (settled /\ call["query"].own)
      /\ got \in Messages \union {Nothing} /\ reading.edid \in Seq(Messages)
      /\ old \in Nat
      /\ reading \in [active : BOOLEAN, display : Displays \union {0},
                      edid : Seq(Messages), complete : BOOLEAN]
  BY DEF NextBlock, ReadInv, QueriesInv, Shape, Calls, Actors
<1>2. kept => /\ edid \in Seq(Messages) /\ Len(edid) = old + 1 /\ edid[old + 1] = got
              /\ \A n \in 1 .. old : edid[n] = reading.edid[n]
  BY <1>1
<1>3. settled' => /\ \A n \in 1 .. old : IsCurrentBlock(reading.edid[n], n - 1)
                  /\ got # Nothing => IsCurrentBlock(got, old)
  BY <1>1 DEF ReadInv, SettledInv
<1>4. settled' /\ kept => \A n \in 1 .. Len(edid) : IsCurrentBlock(edid[n], n - 1)
  <2> SUFFICES ASSUME settled', kept, NEW n \in 1 .. old + 1
               PROVE  IsCurrentBlock(edid[n], n - 1)
    BY <1>2
  <2>1. CASE n = old + 1
    BY <1>1, <1>2, <1>3, <2>1
  <2>2. CASE n \in 1 .. old
    BY <1>2, <1>3, <2>2
  <2>3. QED
    BY <1>1, <2>1, <2>2
<1>5. \/ /\ more /\ call'["query"].at = "entering"
         /\ reading' = [reading EXCEPT !.edid = edid]
      \/ /\ ~ more
         /\ reading' = [reading EXCEPT !.active = FALSE, !.edid = IF kept THEN edid ELSE @,
                                       !.complete = kept /\ Complete(edid)]
  <2>1. \A r, m : Entering(r, m).at = "entering"
    BY DEF Entering, Out
  <2>2. call \in [Actors -> Calls] /\ "query" \in Actors
    BY DEF ReadInv, QueriesInv, Shape, Actors
  <2>3. \A c : Becomes("query", c) => call'["query"] = c
    BY <2>2 DEF Becomes
  <2>4. QED
    BY <2>1, <2>3 DEF NextBlock
<1> HIDE DEF got, edid, kept
<1>6. CASE more
  <2>1. /\ reading'.edid = edid /\ reading'.display = reading.display
        /\ reading'.complete = reading.complete /\ call'["query"].at = "entering"
    BY <1>1, <1>5, <1>6
  <2>2. ~ reading.complete
    BY <1>1 DEF ReadInv, CompleteInv
  <2>3. settled' => \A n \in 1 .. Len(edid) :
             /\ edid[n].request = Request("edid", reading'.display, n - 1)
             /\ edid[n].contents.monitor = plugged'[reading'.display]
    BY <1>1, <1>4, <1>6, <2>1 DEF IsCurrentBlock
  <2>4. SettledInv'
    <3>1. settled' => \A n \in 1 .. Len(edid) :
             edid[n].request.block = n - 1 /\ edid[n].contents.monitor = edid[1].contents.monitor
      BY <1>1, <1>2, <1>4, <1>6, CurrentBlocks
    <3>2. QED
      BY <2>1, <2>3, <3>1 DEF SettledInv, IsCurrentBlock, InCall
  <2>5. QED
    BY <2>1, <2>2, <2>4 DEF CompleteInv
<1>7. CASE ~ more
  <2>1. /\ reading'.edid = (IF kept THEN edid ELSE reading.edid)
        /\ ~ reading'.active /\ reading'.complete = (kept /\ Complete(edid))
    BY <1>1, <1>5, <1>7
  <2>2. settled' => \A n \in 1 .. Len(reading'.edid) :
             /\ reading'.edid[n].request.block = n - 1
             /\ reading'.edid[n].contents.monitor = reading'.edid[1].contents.monitor
    <3>1. CASE kept
      BY <1>1, <1>2, <1>4, <2>1, <3>1, CurrentBlocks
    <3>2. CASE ~ kept
      BY <1>1, <1>3, <2>1, <3>2, CurrentBlocks
    <3>3. QED
      BY <3>1, <3>2
  <2>3. QED
    BY <2>1, <2>2 DEF SettledInv, CompleteInv
<1>8. QED
  BY <1>6, <1>7

LEMMA FirmwareReads ==
    ASSUME ReadInv, FirmwareTakes \/ FirmwareAnswers PROVE SettledInv' /\ CompleteInv'
<1>1. UNCHANGED <<plugged, call, reading, settled>>
  BY DEF FirmwareTakes, FirmwareAnswers
<1>2. CASE FirmwareTakes
  <2>1. CallCurrent'
    BY <1>1, <1>2 DEF FirmwareTakes, ReadInv, SettledInv, CallCurrent, IsCurrentBlock, InCall,
       Answered
  <2>2. QED
    BY <1>1, <2>1, QuietStep
<1>3. CASE FirmwareAnswers
  <2>1. ASSUME settled, reading.active, InCall("query"), call["query"].own, buffer'.success
        PROVE  IsCurrentBlock(buffer', Len(reading.edid))
    <3>1. taken = call["query"].request /\ taken # Nothing
      BY <1>3, <2>1 DEF ReadInv, QueriesInv, ExchangeInv, Actors, FirmwareAnswers
    <3>2. taken = Request("edid", reading.display, Len(reading.edid))
      BY <2>1, <3>1 DEF ReadInv, QueriesInv, LoopInv
    <3>3. buffer'.request = taken /\ buffer'.contents \in Answers(taken)
      BY <1>3, <2>1, FirmwareAnswer DEF ReadInv
    <3>4. taken.kind = "edid" /\ taken.display = reading.display
      BY <3>2 DEF Request
    <3>5. QED
      BY <3>2, <3>3, <3>4 DEF Answers, IsCurrentBlock
  <2>2. CallCurrent'
    BY <1>1, <2>1 DEF ReadInv, SettledInv, CallCurrent, IsCurrentBlock, InCall
  <2>3. QED
    BY <1>1, <2>2, QuietStep
<1>4. QED
  BY <1>2, <1>3

LEMMA ReplugReads ==
    ASSUME ReadInv, Replug PROVE SettledInv' /\ CompleteInv'
<1>1. PICK d \in Displays, m \in Monitors :
         /\ plugged' = [plugged EXCEPT ![d] = m]
         /\ settled' = (settled /\ ~ (reading.active /\ d = reading.display))
  BY DEF Replug
<1>2. UNCHANGED <<buffer, replies, call, reading>>
  BY DEF Replug, firmware
<1>3. settled' /\ reading.active => settled /\ plugged'[reading.display] = plugged[reading.display]
  BY <1>1 DEF ReadInv, QueriesInv, Shape, LoopInv
<1>4. settled' => settled
  BY <1>1
<1>5. SettledInv'
  BY <1>2, <1>3, <1>4 DEF ReadInv, SettledInv, IsCurrentBlock, InCall, Answered
<1>6. CompleteInv'
  BY <1>2 DEF ReadInv, CompleteInv, Complete, WantedBlocks
<1>7. QED
  BY <1>5, <1>6

LEMMA ReadStep == ReadInv /\ [Next]_vars => ReadInv'
<1> SUFFICES ASSUME ReadInv, [Next]_vars PROVE SettledInv' /\ CompleteInv'
  BY QueriesStep DEF ReadInv
<1>1. ASSUME NEW a \in Actors, Proceed(a) PROVE SettledInv' /\ CompleteInv'
  BY <1>1, ProceedReads
<1>2. CASE UNCHANGED vars
  BY <1>2 DEF vars, firmware, ReadInv, SettledInv, CompleteInv, Complete, WantedBlocks,
     IsCurrentBlock, InCall, Answered
<1>3. QED
  BY <1>1, <1>2, FanTimerReads, StartsReading, NextBlockReads, FirmwareReads, ReplugReads
     DEF Next

\* An EDID that counts as complete is whole, whatever the base block announces
\* and whoever interrupts the reading.
THEOREM CompleteEdids == Spec => []CompleteIsWhole
<1>1. Init => ReadInv
  BY Starts DEF Init, ReadInv, SettledInv, CompleteInv, NotReading
<1>2. ReadInv => CompleteIsWhole
  BY DEF ReadInv, QueriesInv, LoopInv, SettledInv, CompleteInv, Complete, CompleteIsWhole
<1>3. QED
  BY <1>1, <1>2, ReadStep, PTL DEF Spec

=============================================================================
