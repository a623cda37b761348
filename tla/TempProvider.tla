---------------------------- MODULE TempProvider ----------------------------
(***************************************************************************)
(* The Windows temperature provider, WindowsDriver/Rpi5Temp/Driver.c, and  *)
(* the VideoCore property mailbox it talks to.  The driver asks the        *)
(* firmware through one message buffer and two hardware queues; every wait *)
(* is bounded, so a request it has given up on may be answered later, in   *)
(* the middle of the next call.  UEFI's runtime clock services use the     *)
(* same mailbox, without a lock in common.                                 *)
(*                                                                         *)
(* A temperature is abstracted to the number of its measurement: 1 for the *)
(* first one the firmware makes, and 0 for the zero of a cleared buffer,   *)
(* which is below TEMP_MIN_MILLIC.  Measurements may be out of the range    *)
(* that the driver accepts, at either end.                                 *)
(***************************************************************************)
EXTENDS Integers, Sequences

CONSTANTS
    Buffers,         \* the pages MmAllocateContiguousMemorySpecifyCache may return
    PollCount,       \* MBOX_POLL_COUNT
    Depth,           \* how many words a mailbox queue holds
    MaxMeasurements, \* bound on the measurements of the firmware
    TooCold, TooHot, \* the measurements below TEMP_MIN_MILLIC, above TEMP_MAX_MILLIC
    MaxFailures      \* MAXULONG, where the failure counter saturates

NoBuffer == "no buffer"
Other    == "other"     \* a request of another user of the mailbox

ASSUME TempAssumption ==
    /\ NoBuffer \notin Buffers /\ Other \notin Buffers
    /\ PollCount \in Nat \ {0}
    /\ Depth \in Nat \ {0}
    /\ MaxMeasurements \in Nat
    /\ 0 \notin TooHot
    /\ MaxFailures \in Nat \ {0}

VARIABLES
    pnp,       \* where the PnP/power thread is (PnpStates)
    call,      \* where TempReadTemperatureLocked is, under the lock (Calls)
    polls,     \* its loop counter i
    inbox,     \* requests written to MBOX_WRITE that the firmware has not taken
    outbox,    \* responses the firmware has queued for MBOX_READ
    service,   \* the request the firmware is serving
    measured,  \* how many measurements it has made
    message,   \* the words of the buffer that the driver looks at
    asked,     \* history: measured when the current call began
    overtaken, \* history: message[6] was written after its first check
    \* TEMP_DEVICE_CONTEXT: Message (and with it Mailbox), HardwareReady, ...
    buffer, hardwareReady, temperatureValid, lastTemperature, failures

mailbox == <<inbox, outbox>>
firmware == <<service, measured>>
status == <<temperatureValid, lastTemperature, failures>>
history == <<asked, overtaken>>
vars == <<pnp, call, polls, mailbox, firmware, message, history, buffer,
          hardwareReady, status>>

-----------------------------------------------------------------------------
(* Types *)

\* Entering is inside D0Entry, Leaving waits for the power-managed queue.
PnpStates == {"NoHardware", "Failed", "Prepared", "Entering", "D0", "Leaving", "Dx"}

\* The fetches of the response's words that decide on it, in their order.
Checks == {"code", "tag", "minimum", "maximum"}

\* No call, the three bounded loops (the last reads MBOX_STATUS, then MBOX_READ),
\* the fetches that check the response and the one that takes message[6].
Calls == {"none", "draining", "posting", "polling", "reading", "taking"} \union Checks

\* A mailbox word names the buffer of the request.
Words == Buffers \union {Other}

\* message[1], message[4] and message[6]: the two response flags are set or
\* clear, the value is 0 or a measurement.
Fields == {"code", "tag", "value"}
Messages == [code : BOOLEAN, tag : BOOLEAN, value : 0 .. MaxMeasurements]
Cleared == [code |-> FALSE, tag |-> FALSE, value |-> 0]

\* The request in service, the measurement it got (0: it fails) and the
\* fields of its buffer still to be written.
Idle == [word |-> NoBuffer, number |-> 0, unwritten |-> {}]
Services == {Idle} \union
    [word : Words, number : 0 .. MaxMeasurements, unwritten : SUBSET Fields]

TypeOK ==
    /\ pnp \in PnpStates
    /\ call \in Calls
    /\ polls \in 0 .. PollCount
    /\ inbox \in Seq(Words) /\ Len(inbox) <= Depth
    /\ outbox \in Seq(Words) /\ Len(outbox) <= Depth
    /\ service \in Services
    /\ measured \in 0 .. MaxMeasurements
    /\ asked \in 0 .. MaxMeasurements
    /\ overtaken \in BOOLEAN
    /\ message \in Messages
    /\ buffer \in Buffers \union {NoBuffer}
    /\ hardwareReady \in BOOLEAN
    /\ temperatureValid \in BOOLEAN
    /\ lastTemperature \in 0 .. MaxMeasurements
    /\ failures \in 0 .. MaxFailures

Init ==
    /\ pnp = "NoHardware"
    /\ call = "none"
    /\ polls = 0
    /\ inbox = <<>> /\ outbox = <<>>
    /\ service = Idle
    /\ measured = 0
    /\ message = Cleared
    /\ asked = 0
    /\ overtaken = FALSE
    /\ buffer = NoBuffer
    /\ hardwareReady = FALSE
    /\ temperatureValid = FALSE
    /\ lastTemperature = 0
    /\ failures = 0

-----------------------------------------------------------------------------
(* TempReadTemperatureLocked.  The lock is held from the first step to the *)
(* last; the loops spin, so the firmware runs beside them.  Its two        *)
(* callers, TempEvtD0Entry and TempEvtIoDeviceControl, do the same with    *)
(* the result.                                                             *)

\* ConsecutiveFailures saturates.
FailureCount(n) == IF n = MaxFailures THEN n ELSE n + 1

Fail ==
    /\ temperatureValid' = FALSE
    /\ failures' = FailureCount(failures)
    /\ UNCHANGED lastTemperature

Succeed ==
    /\ temperatureValid' = TRUE
    /\ lastTemperature' = message.value
    /\ failures' = 0

\* Mutants: the buffer is not cleared, or only its response flags are.
ClearedNot == message
ClearedFlags == [Cleared EXCEPT !.value = message.value]

\* The buffer becomes a request, its response words zero.
ClearedMessage == Cleared

ReadBegins ==
    IF hardwareReady' /\ buffer # NoBuffer
    THEN /\ call' = "draining"
         /\ message' = ClearedMessage
         /\ asked' = measured
         /\ overtaken' = FALSE
         /\ UNCHANGED <<polls, status>>
    ELSE Fail /\ UNCHANGED <<call, message, history, polls>>

\* The call is over, and with it D0Entry or the request.
ReadReturns ==
    /\ call' = "none"
    /\ polls' = 0
    /\ pnp' = IF pnp = "Entering" THEN "D0" ELSE pnp

\* Draining stale responses: each pass reads one word, unless another user of
\* the mailbox took it after the driver saw it in MBOX_STATUS.
Drain ==
    /\ call = "draining"
    /\ polls < PollCount
    /\ \/ outbox = <<>> /\ call' = "posting" /\ polls' = 0 /\ UNCHANGED outbox
       \/ /\ outbox' = IF outbox = <<>> THEN outbox ELSE Tail(outbox)
          /\ polls' = polls + 1 /\ UNCHANGED call
    /\ UNCHANGED <<pnp, inbox, firmware, message, history, buffer, hardwareReady, status>>

\* Writing the request once MBOX_STATUS is not full.  Another user of the
\* mailbox may fill the queue first: then the write is lost.
Post ==
    /\ call = "posting"
    /\ polls < PollCount
    /\ IF Len(inbox) < Depth
       THEN inbox' \in {Append(inbox, buffer), inbox} /\ call' = "polling" /\ polls' = 0
       ELSE polls' = polls + 1 /\ UNCHANGED <<inbox, call>>
    /\ UNCHANGED <<pnp, outbox, firmware, message, history, buffer, hardwareReady, status>>

\* Polling: is there a word?
PollStatus ==
    /\ call = "polling"
    /\ polls < PollCount
    /\ IF outbox = <<>>
       THEN polls' = polls + 1 /\ UNCHANGED call
       ELSE call' = "reading" /\ UNCHANGED polls
    /\ UNCHANGED <<pnp, mailbox, firmware, message, history, buffer, hardwareReady, status>>

\* MBOX_READ returns the next word.  When another user of the mailbox has taken
\* it in the meantime the register holds any word.
MayRead(word) == outbox # <<>> => Head(outbox) = word

Dequeued == IF outbox = <<>> THEN outbox ELSE Tail(outbox)

\* A mutant: words that answer somebody else's request are not counted.
PollMissesUncounted ==
    /\ call = "reading"
    /\ \E word \in Words \ {buffer} : MayRead(word)
    /\ outbox' = Dequeued
    /\ call' = "polling"
    /\ UNCHANGED <<pnp, polls, inbox, firmware, message, history, buffer, hardwareReady,
                   status>>

\* A word that is not the request.
PollMisses ==
    /\ call = "reading"
    /\ \E word \in Words \ {buffer} : MayRead(word)
    /\ outbox' = Dequeued
    /\ call' = "polling"
    /\ polls' = polls + 1
    /\ UNCHANGED <<pnp, inbox, firmware, message, history, buffer, hardwareReady, status>>

\* The word of the request: the buffer decides, and the firmware may still, or
\* again, be writing it.
PollHits ==
    /\ call = "reading"
    /\ MayRead(buffer)
    /\ outbox' = Dequeued
    /\ call' = "code" /\ polls' = 0
    /\ UNCHANGED <<pnp, inbox, firmware, message, history, buffer, hardwareReady, status>>

\* A mutant: message[6] has no minimum.
NothingIsBelowMinimum(value) == FALSE

BelowMinimum(value) == value = 0 \/ value \in TooCold

AboveMaximum(value) == value \in TooHot

\* What each fetch looks for.
Passes ==
    \/ call = "code" /\ message.code
    \/ call = "tag" /\ message.tag
    \/ call = "minimum" /\ ~ BelowMinimum(message.value)
    \/ call = "maximum" /\ ~ AboveMaximum(message.value)

NextFetch == [code |-> "tag", tag |-> "minimum", minimum |-> "maximum", maximum |-> "taking"]

\* One more word of the response is fetched and found good.
CheckPasses ==
    /\ call \in Checks
    /\ Passes
    /\ call' = NextFetch[call]
    /\ UNCHANGED <<pnp, polls, mailbox, firmware, message, history, buffer, hardwareReady,
                   status>>

\* Or it is not, and the call fails.
CheckFails ==
    /\ call \in Checks
    /\ ~ Passes
    /\ Fail
    /\ ReadReturns
    /\ UNCHANGED <<mailbox, firmware, message, history, buffer, hardwareReady>>

\* The temperature is what a third fetch of message[6] finds.
Take ==
    /\ call = "taking"
    /\ Succeed
    /\ ReadReturns
    /\ UNCHANGED <<mailbox, firmware, message, history, buffer, hardwareReady>>

\* Each loop gives up after MBOX_POLL_COUNT passes.
ReadGivesUp ==
    /\ call \in {"draining", "posting", "polling"}
    /\ polls = PollCount
    /\ Fail
    /\ ReadReturns
    /\ UNCHANGED <<mailbox, firmware, message, history, buffer, hardwareReady>>

TempReadTemperature ==
    \/ Drain \/ Post \/ PollStatus \/ PollMisses \/ PollHits
    \/ CheckPasses \/ CheckFails \/ Take \/ ReadGivesUp

-----------------------------------------------------------------------------
(* PnP and power callbacks, and the IOCTL of the sequential queue.  The     *)
(* lock keeps them out of a call.                                           *)

\* TempEvtPrepareHardware maps the mailbox and allocates the buffer.
PrepareHardware ==
    /\ pnp = "NoHardware"
    /\ pnp' = "Prepared"
    /\ buffer' \in Buffers
    /\ lastTemperature' = 0 /\ failures' = 0
    /\ temperatureValid' = FALSE /\ hardwareReady' = FALSE
    /\ UNCHANGED <<call, polls, mailbox, firmware, message, history>>

\* Resources it refuses, or a failed mapping or allocation, undone by
\* TempReleaseMemory.
PrepareHardwareFails ==
    /\ pnp = "NoHardware"
    /\ pnp' = "Failed"
    /\ UNCHANGED <<call, polls, mailbox, firmware, message, history, buffer,
                   hardwareReady, status>>

\* TempEvtD0Entry takes a first sample; it succeeds without one.
D0Entry ==
    /\ pnp \in {"Prepared", "Dx"}
    /\ call = "none"
    /\ hardwareReady' = (buffer # NoBuffer)
    /\ pnp' = IF buffer # NoBuffer THEN "Entering" ELSE "Failed"
    /\ ReadBegins
    /\ UNCHANGED <<mailbox, firmware, buffer>>

\* The framework stops the power-managed queue before it calls D0Exit.
LeaveD0 ==
    /\ pnp = "D0"
    /\ pnp' = "Leaving"
    /\ UNCHANGED <<call, polls, mailbox, firmware, message, history, buffer,
                   hardwareReady, status>>

\* TempEvtD0Exit, after the request being served.
D0Exit ==
    /\ pnp = "Leaving"
    /\ call = "none"
    /\ pnp' = "Dx"
    /\ hardwareReady' = FALSE
    /\ temperatureValid' = FALSE
    /\ UNCHANGED <<call, polls, mailbox, firmware, message, history, buffer,
                   lastTemperature, failures>>

\* TempEvtReleaseHardware frees the buffer, whatever the firmware has queued.
ReleaseHardware ==
    /\ pnp \in {"Dx", "Failed"}
    /\ call = "none"
    /\ pnp' = "NoHardware"
    /\ hardwareReady' = FALSE
    /\ temperatureValid' = FALSE
    /\ buffer' = NoBuffer
    /\ UNCHANGED <<call, polls, mailbox, firmware, message, history,
                   lastTemperature, failures>>

\* TempEvtIoDeviceControl: every request is a transaction of its own.
IoDeviceControl ==
    /\ pnp = "D0"
    /\ call = "none"
    /\ UNCHANGED hardwareReady
    /\ ReadBegins
    /\ UNCHANGED <<pnp, mailbox, firmware, buffer>>

-----------------------------------------------------------------------------
(* The firmware and the other user of the mailbox *)

\* The firmware takes a request: a temperature request is measured or fails,
\* another one is no concern of the driver's.
FirmwareTakes ==
    /\ service = Idle
    /\ inbox # <<>>
    /\ inbox' = Tail(inbox)
    /\ \/ /\ Head(inbox) \in Buffers
          /\ measured < MaxMeasurements
          /\ measured' = measured + 1
          /\ service' = [word |-> Head(inbox), number |-> measured + 1,
                         unwritten |-> Fields]
       \/ /\ service' = [word |-> Head(inbox), number |-> 0, unwritten |-> {}]
          /\ UNCHANGED measured
    /\ UNCHANGED <<pnp, call, polls, outbox, message, history, buffer, hardwareReady, status>>

\* It writes one word of the response, into the driver's buffer if the address
\* of the request is the address of that buffer still, or again.
FirmwareWrites ==
    /\ \E field \in service.unwritten :
          /\ service' = [service EXCEPT !.unwritten = @ \ {field}]
          /\ message' =
                IF service.word # buffer THEN message
                ELSE IF field = "value" THEN [message EXCEPT !.value = service.number]
                ELSE [message EXCEPT ![field] = TRUE]
          /\ overtaken' = \/ overtaken
                          \/ /\ service.word = buffer /\ field = "value"
                             /\ call \in {"maximum", "taking"}
    /\ UNCHANGED <<pnp, call, polls, mailbox, measured, asked, buffer, hardwareReady, status>>

\* The response is complete and its word is queued.
FirmwareAnswers ==
    /\ service # Idle
    /\ service.unwritten = {}
    /\ Len(outbox) < Depth
    /\ outbox' = Append(outbox, service.word)
    /\ service' = Idle
    /\ UNCHANGED <<pnp, call, polls, inbox, measured, message, history, buffer,
                   hardwareReady, status>>

\* UEFI's runtime clock services post requests and read responses.
OtherPosts ==
    /\ Len(inbox) < Depth
    /\ inbox' = Append(inbox, Other)
    /\ UNCHANGED <<pnp, call, polls, outbox, firmware, message, history, buffer,
                   hardwareReady, status>>

OtherReads ==
    /\ outbox # <<>>
    /\ outbox' = Tail(outbox)
    /\ UNCHANGED <<pnp, call, polls, inbox, firmware, message, history, buffer,
                   hardwareReady, status>>

Power == \/ PrepareHardware \/ PrepareHardwareFails \/ D0Entry \/ LeaveD0
         \/ D0Exit \/ ReleaseHardware

Firmware == FirmwareTakes \/ FirmwareWrites \/ FirmwareAnswers

Next == TempReadTemperature \/ Power \/ IoDeviceControl \/ Firmware
        \/ OtherPosts \/ OtherReads

Spec == Init /\ [][Next]_vars

\* The driver's loops go on; nothing is assumed of the firmware.
FairSpec == Spec /\ WF_vars(TempReadTemperature)

-----------------------------------------------------------------------------
(* Properties *)

\* What the driver reports as valid comes from the hardware it has, and from a
\* response that was complete: it is never the zero of the cleared buffer, though
\* message[6] is fetched again after its checks.  It is in range too, unless the
\* firmware answered another request of the driver's between check and fetch.
\* (Nobody reads the context during a call: the lock is held.)
ValidIsMeasured ==
    temperatureValid =>
        /\ hardwareReady /\ buffer # NoBuffer
        /\ lastTemperature \in 1 .. measured
        /\ failures = 0
        /\ \/ call # "none" \/ overtaken
           \/ ~ BelowMinimum(lastTemperature) /\ ~ AboveMaximum(lastTemperature)

ReadSucceeds == call # "none" /\ call' = "none" /\ temperatureValid'

\* A call that succeeds reports the newest measurement there was when it began
\* or a newer one, even when it takes the late answer to an earlier call's
\* request for its own.
AnswersAreFresh == [][ReadSucceeds => lastTemperature' >= asked]_vars

\* No measurement is reported by two calls.
NoAnswerTwice == [][ReadSucceeds => lastTemperature' > lastTemperature]_vars

\* The call always returns, whatever the firmware and the other user do.
NeverWaitsForever == call # "none" ~> call = "none"

=============================================================================
