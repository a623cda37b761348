--------------------------- MODULE MailboxQueries ---------------------------
(***************************************************************************)
(* The calls of the firmware protocol that ask the VideoCore firmware over *)
(* UEFI's mailbox, and two users of them: PublishDisplayHandoff, which     *)
(* reads the displays and their EDIDs (ReadDisplayEdid), and the fan       *)
(* driver's timer, which reads the temperature.                            *)
(*                                                                         *)
(* There is one processor.  The timer's callback interrupts a query that   *)
(* runs at application level anywhere, also inside a call, and runs to its *)
(* end before the query goes on; a query made by the ReadyToBoot callback  *)
(* is not interrupted.  All calls share a spin lock that is tried once,    *)
(* and one message buffer.                                                 *)
(*                                                                         *)
(* The firmware takes the requests in turn, reads the buffer when it gets  *)
(* to one, writes the answer to the same place and then says so in the     *)
(* mailbox.  A call that waited too long gives up; its request is answered *)
(* all the same.  An answer says what kind it is and how long, and the     *)
(* words in the mailbox do not tell the requests apart.                    *)
(***************************************************************************)
EXTENDS Integers, Sequences

CONSTANTS
    Displays,   \* the display numbers that are asked for
    Monitors,   \* the monitors that may be plugged in
    NoMonitor,
    EdidBlocks, \* how many blocks each monitor's EDID announces
    FifoDepth   \* how many requests the mailbox holds

RPI5_DISPLAY_HANDOFF_MAX_EDID_BLOCKS == 4

ASSUME QueriesAssumption ==
    /\ Displays \subseteq 0 .. 255
    /\ NoMonitor \notin Monitors
    /\ EdidBlocks \in [Monitors -> 1 .. 256]
    /\ FifoDepth \in Nat \ {0}

Actors == {"query", "fan"}

\* The length of each kind's body in bytes, asked for and answered.
Length == [number |-> 4, temperature |-> 8, timing |-> 36, edid |-> 136]

Blocks == 0 .. RPI5_DISPLAY_HANDOFF_MAX_EDID_BLOCKS - 1

Request(kind, display, block) == [kind |-> kind, display |-> display, block |-> block]

Temperature == Request("temperature", 0, 0)

\* GetFbNumDisplays and GetFbDisplayId, whose index is left out, ask for a number.
Lookups == {Request("number", 0, 0)} \union {Request("timing", d, 0) : d \in Displays}

EdidRequests == {Request("edid", d, b) : d \in Displays, b \in Blocks}

Requests == {Temperature} \union Lookups \union EdidRequests

\* What comes with an answer to r besides its kind: the monitor whose block it
\* is, and whether the block's checksum is right.
Contents == [monitor : Monitors, sound : BOOLEAN]
NoContents == [monitor |-> NoMonitor, sound |-> FALSE]

\* A message: a request, or the answer to it.
Message(r, success, contents) ==
    [request |-> r, success |-> success, contents |-> contents]

Messages == [request : Requests, success : BOOLEAN, contents : Contents \union {NoContents}]
Nothing == [kind |-> "nothing"]

VARIABLES
    lock,       \* mMailboxLock
    buffer,     \* mDmaBuffer
    posted,     \* how many requests the firmware has not taken yet
    taken,      \* the request it works on, or Nothing
    replies,    \* how many words it has left in the mailbox
    plugged,    \* the monitor at each display
    call,       \* each actor's call in progress
    reading,    \* ReadDisplayEdid's locals and results
    settled     \* since it began its display kept its monitor, and every call
                \* found no request of an earlier one unanswered

firmware == <<posted, taken, replies>>
vars == <<lock, buffer, firmware, plugged, call, reading, settled>>

\* masked: the caller runs at TPL_CALLBACK; got: what the call has returned,
\* Nothing if an error; own: no earlier request was unanswered when this one was
\* written.
Calls == [at : {"out", "entering", "posting", "waiting", "replied", "accepted"},
          request : Requests \union {Nothing},
          masked : BOOLEAN,
          got : Messages \union {Nothing},
          own : BOOLEAN]

TypeOK ==
    /\ lock \in BOOLEAN /\ settled \in BOOLEAN
    /\ buffer \in Messages \union {Nothing}
    /\ posted \in 0 .. FifoDepth /\ replies \in 0 .. FifoDepth + 1
    /\ taken \in Requests \union {Nothing}
    /\ plugged \in [Displays -> Monitors]
    /\ call \in [Actors -> Calls]
    /\ reading \in [active : BOOLEAN, display : Displays \union {0},
                     edid : Seq(Messages), complete : BOOLEAN]
    /\ Len(reading.edid) <= RPI5_DISPLAY_HANDOFF_MAX_EDID_BLOCKS

Out == [at |-> "out", request |-> Nothing, masked |-> FALSE,
        got |-> Nothing, own |-> FALSE]
NotReading == [active |-> FALSE, display |-> 0, edid |-> <<>>, complete |-> FALSE]

Init ==
    /\ lock = FALSE /\ buffer = Nothing
    /\ posted = 0 /\ taken = Nothing /\ replies = 0
    /\ plugged \in [Displays -> Monitors]
    /\ call = [a \in Actors |-> Out]
    /\ reading = NotReading /\ settled = FALSE

-----------------------------------------------------------------------------
(* A call: GetTemperature, GetFbNumDisplays, GetFbDisplayId,               *)
(* GetDisplayTiming or GetEdidBlockDisplay                                 *)

\* The callback has the processor until it returns.
Runs(a) == a = "fan" \/ call["fan"].at = "out"

Becomes(a, c) == call' = [call EXCEPT ![a] = c]

Entering(r, masked) == [Out EXCEPT !.at = "entering", !.request = r, !.masked = masked]

\* A call returns; what nobody looks at afterwards is forgotten here.
Returned(a, got) ==
    IF a = "query" /\ reading.active
    THEN [call[a] EXCEPT !.at = "out", !.got = got]
    ELSE Out

Failed(a) == Returned(a, Nothing)

AcquireSpinLockOrFail == ~ lock /\ lock' = TRUE

\* The lock, and the request into the buffer.
Acquire(a) ==
    /\ Runs(a) /\ call[a].at = "entering"
    /\ AcquireSpinLockOrFail
    /\ buffer' = Message(call[a].request, FALSE, NoContents)
    /\ Becomes(a, [call[a] EXCEPT !.at = "posting",
                                  !.own = (posted = 0 /\ taken = Nothing)])
    /\ UNCHANGED <<firmware, plugged, reading, settled>>

\* A variation: the lock is waited for.
RefusedNever(a) == FALSE

\* EFI_DEVICE_ERROR: the lock is taken.
Refused(a) == lock

Refuse(a) ==
    /\ Runs(a) /\ call[a].at = "entering"
    /\ Refused(a)
    /\ Becomes(a, Failed(a))
    /\ UNCHANGED <<lock, buffer, firmware, plugged, reading, settled>>

MailboxFull == posted = FifoDepth

\* MailboxTransaction throws away what is left in the mailbox and posts.
Post(a) ==
    /\ Runs(a) /\ call[a].at = "posting"
    /\ ~ MailboxFull
    /\ posted' = posted + 1 /\ replies' = 0
    /\ Becomes(a, [call[a] EXCEPT !.at = "waiting"])
    /\ UNCHANGED <<lock, buffer, taken, plugged, reading, settled>>

\* MailboxTransaction ends with EFI_SUCCESS or EFI_TIMEOUT.
Reply(a) ==
    /\ Runs(a) /\ call[a].at = "waiting" /\ replies > 0
    /\ replies' = replies - 1
    /\ Becomes(a, [call[a] EXCEPT !.at = "replied"])
    /\ UNCHANGED <<lock, buffer, posted, taken, plugged, reading, settled>>

\* A variation: an error returns without ReleaseSpinLock.
KeepsLock(a) == lock

\* ReleaseSpinLock at the end of a call that fails.
Released(a) == FALSE

\* MailboxTransaction fails.  The requests in the mailbox are about the buffer
\* as this call has left it.
PostFails(a) ==
    /\ Runs(a) /\ call[a].at = "posting"
    /\ MailboxFull
    /\ lock' = Released(a) /\ replies' = 0
    /\ Becomes(a, Failed(a))
    /\ UNCHANGED <<buffer, posted, taken, plugged, reading, settled>>

TimeOut(a) ==
    /\ Runs(a) /\ call[a].at = "waiting" /\ replies = 0
    /\ lock' = Released(a)
    /\ Becomes(a, Failed(a))
    /\ UNCHANGED <<buffer, firmware, plugged, reading, settled>>

\* A variation: any length will do.
LongEnoughAlways(r, answer) == TRUE

\* GetTemperature does not look at the length.
LongEnough(r, answer) ==
    r.kind = "temperature" \/ Length[answer.kind] >= Length[r.kind]

Good(r) == buffer.success /\ LongEnough(r, buffer.request)

\* A variation: the lock is given back before the answer is copied.
LockFreeWhileCopying == FALSE

LockWhileCopying == lock

\* The answer's fields are checked and then copied, both in the buffer.
Accept(a) ==
    /\ Runs(a) /\ call[a].at = "replied" /\ Good(call[a].request)
    /\ lock' = LockWhileCopying
    /\ Becomes(a, [call[a] EXCEPT !.at = "accepted"])
    /\ UNCHANGED <<buffer, firmware, plugged, reading, settled>>

Reject(a) ==
    /\ Runs(a) /\ call[a].at = "replied" /\ ~ Good(call[a].request)
    /\ lock' = Released(a)
    /\ Becomes(a, Failed(a))
    /\ UNCHANGED <<buffer, firmware, plugged, reading, settled>>

Copy(a) ==
    /\ Runs(a) /\ call[a].at = "accepted"
    /\ lock' = FALSE
    /\ Becomes(a, Returned(a, buffer))
    /\ UNCHANGED <<buffer, firmware, plugged, reading, settled>>

Proceed(a) ==
    \/ Acquire(a) \/ Refuse(a) \/ Post(a) \/ PostFails(a)
    \/ Reply(a) \/ TimeOut(a) \/ Accept(a) \/ Reject(a) \/ Copy(a)

-----------------------------------------------------------------------------
(* The users *)

Busy == reading.active \/ call["query"].at # "out"

\* UpdateFan reads the temperature.
FanTimerTicks ==
    /\ call["fan"].at = "out"
    /\ ~ (Busy /\ call["query"].masked)
    /\ Becomes("fan", Entering(Temperature, TRUE))
    /\ UNCHANGED <<lock, buffer, firmware, plugged, reading, settled>>

\* PublishDisplayHandoff asks for one of the short answers.
LookUp ==
    /\ Runs("query") /\ ~ Busy
    /\ \E r \in Lookups : \E masked \in BOOLEAN : Becomes("query", Entering(r, masked))
    /\ reading' = NotReading /\ settled' = FALSE
    /\ UNCHANGED <<lock, buffer, firmware, plugged>>

\* ReadDisplayEdid clears its results and asks for the base block.
ReadDisplayEdid ==
    /\ Runs("query") /\ ~ Busy
    /\ \E d \in Displays : \E masked \in BOOLEAN :
          /\ Becomes("query", Entering(Request("edid", d, 0), masked))
          /\ reading' = [NotReading EXCEPT !.active = TRUE, !.display = d]
    /\ settled' = TRUE
    /\ UNCHANGED <<lock, buffer, firmware, plugged>>

\* The header of a base block is only looked for in the first one.
ValidateEdidBlock(m, base) ==
    m.contents.sound /\ (base => m.request.block = 0)

WantedBlocks(edid) == EdidBlocks[edid[1].contents.monitor]

\* A variation: the loop does not stop at the end of the buffer.
ReadLimitOpen(edid) == WantedBlocks(edid)

\* How many blocks the loop reads.
ReadLimit(edid) ==
    IF WantedBlocks(edid) > RPI5_DISPLAY_HANDOFF_MAX_EDID_BLOCKS
    THEN RPI5_DISPLAY_HANDOFF_MAX_EDID_BLOCKS
    ELSE WantedBlocks(edid)

\* A variation: the blocks wanted are off by one.
CompleteWithBase(edid) == Len(edid) + 1 >= WantedBlocks(edid)

Complete(edid) ==
    /\ WantedBlocks(edid) <= RPI5_DISPLAY_HANDOFF_MAX_EDID_BLOCKS
    /\ Len(edid) = WantedBlocks(edid)

\* The loop over the blocks, after a block has been asked for.
NextBlock ==
    LET got  == call["query"].got
        edid == Append(reading.edid, got)
        kept == got # Nothing /\ ValidateEdidBlock(got, reading.edid = <<>>)
        more == kept /\ Len(edid) < ReadLimit(edid)
    IN  /\ Runs("query") /\ reading.active /\ call["query"].at = "out"
        /\ settled' = (settled /\ call["query"].own)
        /\ \/ /\ more
              /\ Becomes("query", Entering(Request("edid", reading.display, Len(edid)),
                                       call["query"].masked))
              /\ reading' = [reading EXCEPT !.edid = edid]
           \/ /\ ~ more
              /\ reading' = [reading EXCEPT
                    !.active = FALSE,
                    !.edid = IF kept THEN edid ELSE @,
                    !.complete = kept /\ Complete(edid)]
              /\ Becomes("query", Out)
        /\ UNCHANGED <<lock, buffer, firmware, plugged>>

-----------------------------------------------------------------------------
(* The firmware and the user *)

FirmwareTakes ==
    /\ posted > 0 /\ taken = Nothing
    /\ posted' = posted - 1 /\ taken' = buffer.request
    /\ UNCHANGED <<lock, buffer, replies, plugged, call, reading, settled>>

\* The contents of an answer to r, none if there is nothing to answer with.
Answers(r) ==
    IF r.kind # "edid" THEN {NoContents}
    ELSE {c \in Contents : c.monitor = plugged[r.display] /\ r.block < EdidBlocks[c.monitor]}

\* The firmware answers, or says that it could not.
FirmwareAnswers ==
    /\ taken # Nothing
    /\ \/ \E c \in Answers(taken) : buffer' = Message(taken, TRUE, c)
       \/ buffer' = Message(taken, FALSE, NoContents)
    /\ replies' = replies + 1
    /\ taken' = Nothing
    /\ UNCHANGED <<lock, posted, plugged, call, reading, settled>>

\* A monitor is replaced.  One that is missing or fails gives no answers.
Replug ==
    /\ \E d \in Displays : \E m \in Monitors :
          /\ plugged[d] # m
          /\ plugged' = [plugged EXCEPT ![d] = m]
          /\ settled' = (settled /\ ~ (reading.active /\ d = reading.display))
    /\ UNCHANGED <<lock, buffer, firmware, call, reading>>

Next ==
    \/ \E a \in Actors : Proceed(a)
    \/ FanTimerTicks \/ LookUp \/ ReadDisplayEdid \/ NextBlock
    \/ FirmwareTakes \/ FirmwareAnswers \/ Replug

Spec == Init /\ [][Next]_vars

\* The processor runs; the timer's period leaves the query time to go on.  The
\* firmware owes nothing: a call that waits ends with a time-out.
FairSpec ==
    /\ Spec
    /\ WF_vars(Proceed("fan"))
    /\ SF_vars(Proceed("query"))
    /\ SF_vars(NextBlock)

-----------------------------------------------------------------------------
(* Properties *)

\* What a call copies is the firmware's answer to its own request, although
\* both users share one buffer and one interrupts the other, if no earlier
\* request was still unanswered when it was written.
AnswersAreOwn ==
    \A a \in Actors :
        call[a].at = "accepted" /\ call[a].own =>
            buffer.success /\ buffer.request = call[a].request

\* Even when the answer to a request given up earlier is taken for one's own,
\* no display query copies more than the answer has, and whatever a base block
\* announces, no more blocks are kept than the caller's buffer holds.
NothingBehindAnswers ==
    /\ \A a \in Actors :
          call[a].at = "accepted" /\ call[a].request.kind # "temperature" =>
              Length[buffer.request.kind] >= Length[call[a].request.kind]
    /\ Len(reading.edid) <= RPI5_DISPLAY_HANDOFF_MAX_EDID_BLOCKS

\* While one user's call is in progress, whatever the other one does leaves the
\* lock, the shared buffer and the mailbox as they are: the timer's callback,
\* which may come between any two steps of a query, can only be refused.
CallersKeepApart ==
    [][\A a, b \in Actors :
          /\ a # b
          /\ call[a].at \in {"posting", "waiting", "replied", "accepted"}
          /\ call'[b] # call[b]
          => UNCHANGED <<lock, buffer, firmware>>]_vars

\* The lock is held exactly while a call is in progress that has written its
\* request: no way out of a call leaves it behind, and an interrupted call
\* keeps it.
LockFollowsCall ==
    lock <=> \E a \in Actors : call[a].at \in {"posting", "waiting", "replied", "accepted"}

\* An EDID that counts as complete has as many blocks as its base block
\* announces.  They are the blocks of one monitor in their order, all with a
\* good checksum, unless the display got another monitor meanwhile or a late
\* answer to an earlier request came in.
CompleteIsWhole ==
    reading.complete =>
        /\ Len(reading.edid) = WantedBlocks(reading.edid)
        /\ settled => \A n \in 1 .. Len(reading.edid) :
              /\ reading.edid[n].request.block = n - 1
              /\ reading.edid[n].contents.sound
              /\ reading.edid[n].contents.monitor = reading.edid[1].contents.monitor

\* Reading an EDID ends, whatever the firmware does and however often the
\* timer interrupts: neither user waits for the other.
ReadsEnd == reading.active ~> ~ reading.active

=============================================================================
