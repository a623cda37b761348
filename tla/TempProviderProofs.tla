------------------------- MODULE TempProviderProofs -------------------------
(***************************************************************************)
(* Proofs about TempProvider, for every number of buffers, polls, queued   *)
(* words, measurements and failures.                                       *)
(***************************************************************************)
EXTENDS TempProvider, TLAPS

\* The lock and the power-managed queue keep calls inside D0.
CallInv ==
    /\ call # "none" => hardwareReady /\ pnp \in {"Entering", "D0", "Leaving"}
    /\ call = "reading" => polls < PollCount
    /\ hardwareReady => buffer # NoBuffer
    /\ temperatureValid => hardwareReady /\ lastTemperature # 0 /\ failures = 0

\* The firmware writes one answer at a time, each of a later measurement than
\* everything before it.
AnswerInv ==
    /\ asked <= measured /\ message.value <= measured /\ lastTemperature <= measured
    /\ service.unwritten # {} => service.number = measured
    /\ "value" \in service.unwritten =>
          service.number > message.value /\ service.number > lastTemperature

\* During a call the buffer holds the zero of the request, or an answer that
\* no call has reported, measured no earlier than the newest at its beginning.
BufferInv ==
    call # "none" /\ message.value # 0 =>
        message.value >= asked /\ message.value > lastTemperature

\* What the checks have shown of message[6] stays true until it is taken, but for
\* the range, which a later answer may be out of.
CheckInv ==
    /\ call \in {"maximum", "taking"} => message.value # 0
    /\ call = "maximum" => overtaken \/ ~ BelowMinimum(message.value)
    /\ call = "taking" =>
          overtaken \/ (~ BelowMinimum(message.value) /\ ~ AboveMaximum(message.value))
    /\ call = "none" /\ temperatureValid =>
          overtaken \/ (~ BelowMinimum(lastTemperature) /\ ~ AboveMaximum(lastTemperature))

TempInv == TypeOK /\ CallInv /\ AnswerInv /\ BufferInv /\ CheckInv

LEMMA TailTypes ==
    ASSUME NEW q \in Seq(Words), Len(q) <= Depth, q # <<>>
    PROVE  Tail(q) \in Seq(Words) /\ Len(Tail(q)) <= Depth /\ Head(q) \in Words
<1>1. Len(q) \in Nat /\ Len(q) # 0 /\ Len(Tail(q)) = Len(q) - 1
  OBVIOUS
<1>2. QED
  BY <1>1, TempAssumption

LEMMA AppendTypes ==
    ASSUME NEW q \in Seq(Words), NEW w \in Words, Len(q) < Depth
    PROVE  Append(q, w) \in Seq(Words) /\ Len(Append(q, w)) <= Depth
BY TempAssumption

LEMMA Apart ==
    /\ \A b \in Buffers : b # NoBuffer /\ b # Other
    /\ Idle \in Services /\ Idle.unwritten = {} /\ Idle.number = 0
    /\ Cleared \in Messages /\ Cleared.value = 0
BY TempAssumption DEF Idle, Services, Cleared, Messages

\* The fields of a message and of a service.
LEMMA FieldTypes ==
    ASSUME TypeOK
    PROVE  /\ message.value \in 0 .. MaxMeasurements
           /\ service.number \in 0 .. MaxMeasurements
           /\ service.unwritten \subseteq Fields
           /\ service.word \in Words \union {NoBuffer}
           /\ measured \in Nat /\ asked \in Nat /\ lastTemperature \in Nat
           /\ message.value \in Nat /\ service.number \in Nat
<1>1. 0 .. MaxMeasurements \subseteq Nat
  BY TempAssumption
<1>2. message.value \in 0 .. MaxMeasurements
  BY DEF TypeOK, Messages
<1>3. /\ service.number \in 0 .. MaxMeasurements
      /\ service.unwritten \subseteq Fields /\ service.word \in Words \union {NoBuffer}
  BY TempAssumption DEF TypeOK, Services, Idle
<1>4. QED
  BY <1>1, <1>2, <1>3 DEF TypeOK

LEMMA FailTypes ==
    ASSUME TypeOK, Fail
    PROVE  /\ temperatureValid' = FALSE /\ lastTemperature' = lastTemperature
           /\ failures' \in 0 .. MaxFailures
BY TempAssumption DEF TypeOK, Fail, FailureCount

LEMMA Begins == Init => TempInv
<1> SUFFICES ASSUME Init PROVE TempInv
  OBVIOUS
<1>1. 0 \in 0 .. PollCount /\ 0 \in 0 .. MaxMeasurements /\ 0 \in 0 .. MaxFailures
  BY TempAssumption
<1>2. <<>> \in Seq(Words) /\ Len(<<>>) <= Depth
  BY TempAssumption
<1>3. TypeOK
  BY <1>1, <1>2, Apart DEF Init, TypeOK, PnpStates, Calls
<1>4. QED
  BY <1>3, Apart DEF Init, TempInv, CallInv, AnswerInv, BufferInv, CheckInv

LEMMA ReadBeginsKeeps ==
    ASSUME TempInv, call = "none", ReadBegins,
           hardwareReady' \in BOOLEAN, hardwareReady' => buffer # NoBuffer,
           temperatureValid => hardwareReady', pnp' \in PnpStates,
           hardwareReady' => pnp' \in {"Entering", "D0", "Leaving"},
           UNCHANGED <<mailbox, firmware, buffer>>
    PROVE  TempInv'
<1>1. UNCHANGED <<inbox, outbox, service, measured, buffer>> /\ TypeOK
  BY DEF mailbox, firmware, TempInv
<1>2. CASE hardwareReady' /\ buffer # NoBuffer
  <2>1. /\ call' = "draining" /\ message' = Cleared /\ asked' = measured
        /\ overtaken' = FALSE
        /\ UNCHANGED <<polls, temperatureValid, lastTemperature, failures>>
    BY <1>2 DEF ReadBegins, ClearedMessage, status
  <2>2. TypeOK'
    BY <1>1, <2>1, Apart DEF TypeOK, Calls
  <2>3. CallInv'
    BY <1>1, <1>2, <2>1 DEF TempInv, CallInv
  <2>4. AnswerInv'
    BY <1>1, <2>1, Apart, FieldTypes DEF TempInv, AnswerInv
  <2>5. QED
    BY <2>1, <2>2, <2>3, <2>4, Apart DEF TempInv, BufferInv, CheckInv
<1>3. CASE ~ (hardwareReady' /\ buffer # NoBuffer)
  <2>1. Fail /\ UNCHANGED <<call, message, asked, overtaken, polls>>
    BY <1>3 DEF ReadBegins, history
  <2>2. /\ temperatureValid' = FALSE /\ lastTemperature' = lastTemperature
        /\ failures' \in 0 .. MaxFailures
    BY <1>1, <2>1, FailTypes
  <2>3. TypeOK'
    BY <1>1, <2>1, <2>2 DEF TypeOK
  <2>4. QED
    BY <1>1, <1>3, <2>1, <2>2, <2>3 DEF TempInv, CallInv, AnswerInv, BufferInv, CheckInv
<1>4. QED
  BY <1>2, <1>3

\* The end of a call.
LEMMA ReadReturnsKeeps ==
    ASSUME TempInv, call # "none", ReadReturns, Fail \/ (Succeed /\ call = "taking"),
           UNCHANGED <<mailbox, firmware, message, history, buffer, hardwareReady>>
    PROVE  TempInv'
<1>1. /\ call' = "none" /\ polls' = 0 /\ pnp' = (IF pnp = "Entering" THEN "D0" ELSE pnp)
      /\ UNCHANGED <<inbox, outbox, service, measured, message, asked, overtaken, buffer,
                     hardwareReady>>
      /\ TypeOK
  BY DEF ReadReturns, mailbox, firmware, history, TempInv
<1>2. pnp' \in PnpStates /\ 0 \in 0 .. PollCount
  BY <1>1, TempAssumption DEF TypeOK, PnpStates
<1>3. CASE Fail
  <2>1. /\ temperatureValid' = FALSE /\ lastTemperature' = lastTemperature
        /\ failures' \in 0 .. MaxFailures
    BY <1>1, <1>3, FailTypes
  <2>2. TypeOK'
    BY <1>1, <1>2, <2>1 DEF TypeOK, Calls
  <2>3. QED
    BY <1>1, <2>1, <2>2 DEF TempInv, CallInv, AnswerInv, BufferInv, CheckInv
<1>4. CASE Succeed /\ call = "taking"
  <2>1. /\ temperatureValid' = TRUE /\ lastTemperature' = message.value /\ failures' = 0
        /\ message.value # 0
    BY <1>4 DEF Succeed, TempInv, CheckInv
  <2>2. TypeOK'
    BY <1>1, <1>2, <2>1, FieldTypes, TempAssumption DEF TypeOK, Calls
  <2>3. CheckInv'
    BY <1>1, <1>4, <2>1 DEF TempInv, CheckInv, BelowMinimum, AboveMaximum
  <2>4. QED
    BY <1>1, <2>1, <2>2, <2>3 DEF TempInv, CallInv, AnswerInv, BufferInv
<1>5. QED
  BY <1>3, <1>4

\* A word taken from the mailbox, or none.
LEMMA DequeuedTypes ==
    ASSUME TypeOK
    PROVE  Dequeued \in Seq(Words) /\ Len(Dequeued) <= Depth
BY TailTypes DEF Dequeued, TypeOK

\* A step of the call that leaves the buffer and the result alone.
LEMMA PassKeeps ==
    ASSUME TempInv, call # "none",
           call' \in {"draining", "posting", "polling", "reading", "code", "tag", "minimum"},
           polls' \in 0 .. PollCount, call' = "reading" => polls' < PollCount,
           inbox' \in Seq(Words), Len(inbox') <= Depth,
           outbox' \in Seq(Words), Len(outbox') <= Depth,
           UNCHANGED <<pnp, firmware, message, history, buffer, hardwareReady, status>>
    PROVE  TempInv'
<1>1. UNCHANGED <<pnp, service, measured, message, asked, overtaken, buffer, hardwareReady,
                  temperatureValid, lastTemperature, failures>>
  BY DEF firmware, history, status
<1>2. TypeOK'
  BY <1>1 DEF TempInv, TypeOK, Calls, Checks
<1>3. QED
  BY <1>1, <1>2 DEF TempInv, CallInv, AnswerInv, BufferInv, CheckInv

LEMMA ReadKeeps == ASSUME TempInv, TempReadTemperature PROVE TempInv'
<1>1. /\ TypeOK /\ inbox \in Seq(Words) /\ Len(inbox) <= Depth
      /\ outbox \in Seq(Words) /\ Len(outbox) <= Depth
      /\ polls \in 0 .. PollCount /\ 0 \in 0 .. PollCount
      /\ polls < PollCount => polls + 1 \in 0 .. PollCount
  BY TempAssumption DEF TempInv, TypeOK
<1>2. CASE Drain
  <2>1. outbox' \in {outbox, Dequeued}
    BY <1>2 DEF Drain, Dequeued
  <2>2. QED
    BY <1>1, <1>2, <2>1, DequeuedTypes, PassKeeps DEF Drain
<1>3. CASE Post
  <2>1. buffer \in Words
    BY <1>1, <1>3 DEF Post, TempInv, CallInv, TypeOK, Words
  <2>2. inbox' \in Seq(Words) /\ Len(inbox') <= Depth
    BY <1>1, <1>3, <2>1, AppendTypes DEF Post
  <2>3. QED
    BY <1>1, <1>3, <2>2, PassKeeps DEF Post
<1>4. CASE PollStatus
  BY <1>1, <1>4, PassKeeps DEF PollStatus, mailbox
<1>5. CASE PollMisses
  <2>1. polls < PollCount
    BY <1>5 DEF PollMisses, TempInv, CallInv
  <2>2. QED
    BY <1>1, <1>5, <2>1, DequeuedTypes, PassKeeps DEF PollMisses
<1>6. CASE PollHits
  BY <1>1, <1>6, DequeuedTypes, PassKeeps DEF PollHits
<1>7. CASE CheckPasses
  <2>1. /\ call \in Checks /\ Passes /\ call' = NextFetch[call]
        /\ UNCHANGED <<pnp, polls, inbox, outbox, service, measured, message, asked, overtaken,
                       buffer, hardwareReady, temperatureValid, lastTemperature, failures>>
    BY <1>7 DEF CheckPasses, mailbox, firmware, history, status
  <2>2. \/ call = "code" /\ call' = "tag"
        \/ call = "tag" /\ call' = "minimum"
        \/ call = "minimum" /\ call' = "maximum"
        \/ call = "maximum" /\ call' = "taking"
    BY <2>1 DEF Checks, NextFetch
  <2>3. TypeOK'
    BY <1>1, <2>1, <2>2 DEF TypeOK, Calls, Checks
  <2>4. CheckInv'
    BY <2>1, <2>2 DEF TempInv, CheckInv, Passes, BelowMinimum, AboveMaximum
  <2>5. QED
    BY <2>1, <2>2, <2>3, <2>4 DEF TempInv, CallInv, AnswerInv, BufferInv
<1>8. CASE CheckFails
  BY <1>8, ReadReturnsKeeps DEF CheckFails, Checks
<1>9. CASE Take
  BY <1>9, ReadReturnsKeeps DEF Take
<1>10. CASE ReadGivesUp
  BY <1>10, ReadReturnsKeeps DEF ReadGivesUp
<1>11. QED
  BY <1>2, <1>3, <1>4, <1>5, <1>6, <1>7, <1>8, <1>9, <1>10 DEF TempReadTemperature

-----------------------------------------------------------------------------
(* Power, requests, the firmware and the other user *)

LEMMA PowerKeeps == ASSUME TempInv, Power \/ IoDeviceControl PROVE TempInv'
<1>1. TypeOK
  BY DEF TempInv
<1>2. CASE PrepareHardware
  <2>1. /\ pnp = "NoHardware" /\ pnp' = "Prepared" /\ buffer' \in Buffers
        /\ lastTemperature' = 0 /\ failures' = 0
        /\ temperatureValid' = FALSE /\ hardwareReady' = FALSE
        /\ UNCHANGED <<call, polls, inbox, outbox, service, measured, message, asked, overtaken>>
    BY <1>2 DEF PrepareHardware, mailbox, firmware, history
  <2>2. TypeOK'
    <3>1. 0 \in 0 .. MaxMeasurements /\ 0 \in 0 .. MaxFailures
      BY TempAssumption
    <3>2. QED
      BY <1>1, <2>1, <3>1 DEF TypeOK, PnpStates
  <2>3. call = "none"
    BY <2>1 DEF TempInv, CallInv
  <2>4. AnswerInv'
    BY <1>1, <2>1, FieldTypes DEF TempInv, AnswerInv
  <2>5. QED
    BY <2>1, <2>2, <2>3, <2>4 DEF TempInv, CallInv, BufferInv, CheckInv
<1>3. CASE PrepareHardwareFails
  <2>1. /\ pnp = "NoHardware" /\ pnp' = "Failed"
        /\ UNCHANGED <<call, polls, inbox, outbox, service, measured, message, asked, overtaken,
                       buffer, hardwareReady, temperatureValid, lastTemperature, failures>>
    BY <1>3 DEF PrepareHardwareFails, mailbox, firmware, history, status
  <2>2. TypeOK'
    BY <1>1, <2>1 DEF TypeOK, PnpStates
  <2>3. QED
    BY <2>1, <2>2 DEF TempInv, CallInv, AnswerInv, BufferInv, CheckInv
<1>4. CASE D0Entry
  <2>1. /\ pnp \in {"Prepared", "Dx"} /\ call = "none" /\ ReadBegins
        /\ hardwareReady' = (buffer # NoBuffer)
        /\ pnp' = IF buffer # NoBuffer THEN "Entering" ELSE "Failed"
        /\ UNCHANGED <<mailbox, firmware, buffer>>
    BY <1>4 DEF D0Entry
  <2>2. pnp' \in PnpStates /\ hardwareReady' \in BOOLEAN
    BY <2>1 DEF PnpStates
  <2>3. temperatureValid => hardwareReady'
    BY <2>1 DEF TempInv, CallInv
  <2>4. hardwareReady' => pnp' \in {"Entering", "D0", "Leaving"}
    BY <2>1
  <2>5. QED
    BY <2>1, <2>2, <2>3, <2>4, ReadBeginsKeeps
<1>5. CASE LeaveD0
  <2>1. /\ pnp' = "Leaving"
        /\ UNCHANGED <<call, polls, inbox, outbox, service, measured, message, asked, overtaken,
                       buffer, hardwareReady, temperatureValid, lastTemperature, failures>>
    BY <1>5 DEF LeaveD0, mailbox, firmware, history, status
  <2>2. TypeOK'
    BY <1>1, <2>1 DEF TypeOK, PnpStates
  <2>3. QED
    BY <2>1, <2>2 DEF TempInv, CallInv, AnswerInv, BufferInv, CheckInv
<1>6. CASE D0Exit \/ ReleaseHardware
  <2>1. /\ call = "none" /\ pnp' \in {"Dx", "NoHardware"}
        /\ hardwareReady' = FALSE /\ temperatureValid' = FALSE
        /\ buffer' \in {buffer, NoBuffer}
        /\ UNCHANGED <<call, polls, inbox, outbox, service, measured, message, asked, overtaken,
                       lastTemperature, failures>>
    BY <1>6 DEF D0Exit, ReleaseHardware, mailbox, firmware, history
  <2>2. TypeOK'
    BY <1>1, <2>1 DEF TypeOK, PnpStates
  <2>3. QED
    BY <2>1, <2>2 DEF TempInv, CallInv, AnswerInv, BufferInv, CheckInv
<1>7. CASE IoDeviceControl
  <2>1. /\ pnp = "D0" /\ call = "none" /\ ReadBegins
        /\ UNCHANGED <<hardwareReady, pnp, mailbox, firmware, buffer>>
    BY <1>7 DEF IoDeviceControl
  <2>2. hardwareReady' \in BOOLEAN /\ pnp' \in PnpStates
    BY <1>1, <2>1 DEF TypeOK
  <2>3. QED
    BY <2>1, <2>2, ReadBeginsKeeps DEF TempInv, CallInv
<1>8. QED
  BY <1>2, <1>3, <1>4, <1>5, <1>6, <1>7 DEF Power

LEMMA FirmwareKeeps == ASSUME TempInv, Firmware PROVE TempInv'
<1>1. TypeOK
  BY DEF TempInv
<1>2. CASE FirmwareTakes
  <2>1. UNCHANGED <<pnp, call, polls, outbox, message, asked, overtaken, buffer, hardwareReady,
                    temperatureValid, lastTemperature, failures>>
    BY <1>2 DEF FirmwareTakes, history, status
  <2>2. inbox' \in Seq(Words) /\ Len(inbox') <= Depth /\ Head(inbox) \in Words
    BY <1>1, <1>2, TailTypes DEF FirmwareTakes, TypeOK
  <2>3. /\ service' \in Services /\ measured' \in 0 .. MaxMeasurements
        /\ measured <= measured'
        /\ service'.unwritten # {} =>
              service'.number = measured' /\ measured' = measured + 1
    <3>1. CASE /\ measured < MaxMeasurements /\ measured' = measured + 1
               /\ service' = [word |-> Head(inbox), number |-> measured + 1,
                              unwritten |-> Fields]
      <4>1. measured + 1 \in 0 .. MaxMeasurements
        BY <1>1, <3>1, TempAssumption DEF TypeOK
      <4>2. QED
        BY <1>1, <2>2, <3>1, <4>1, FieldTypes DEF Services
    <3>2. CASE /\ service' = [word |-> Head(inbox), number |-> 0, unwritten |-> {}]
               /\ measured' = measured
      <4>1. 0 \in 0 .. MaxMeasurements
        BY TempAssumption
      <4>2. QED
        BY <1>1, <2>2, <3>2, <4>1, FieldTypes DEF Services, TypeOK
    <3>3. QED
      BY <1>2, <3>1, <3>2 DEF FirmwareTakes
  <2>4. TypeOK'
    BY <1>1, <2>1, <2>2, <2>3 DEF TypeOK
  <2>5. measured' \in Nat
    BY <2>3, TempAssumption
  <2>6. AnswerInv'
    BY <1>1, <2>1, <2>3, <2>5, FieldTypes DEF TempInv, AnswerInv
  <2>7. QED
    BY <2>1, <2>4, <2>6 DEF TempInv, CallInv, BufferInv, CheckInv
<1>3. CASE FirmwareWrites
  <2>1. PICK field \in service.unwritten :
           /\ service' = [service EXCEPT !.unwritten = @ \ {field}]
           /\ message' =
                 IF service.word # buffer THEN message
                 ELSE IF field = "value" THEN [message EXCEPT !.value = service.number]
                 ELSE [message EXCEPT ![field] = TRUE]
           /\ overtaken' = \/ overtaken
                           \/ /\ service.word = buffer /\ field = "value"
                              /\ call \in {"maximum", "taking"}
    BY <1>3 DEF FirmwareWrites
  <2>2. UNCHANGED <<pnp, call, polls, inbox, outbox, measured, asked, buffer, hardwareReady,
                    temperatureValid, lastTemperature, failures>>
    BY <1>3 DEF FirmwareWrites, mailbox, status
  <2>3. service \in [word : Words, number : 0 .. MaxMeasurements, unwritten : SUBSET Fields]
    BY <1>1, <2>1, Apart DEF TypeOK, Services
  <2>4. /\ service' \in Services /\ service'.number = service.number
        /\ service'.unwritten = service.unwritten \ {field}
    BY <2>1, <2>3 DEF Services
  <2>5. field \in Fields /\ service.number = measured
    BY <2>1, <2>3 DEF TempInv, AnswerInv
  <2>6. /\ message' \in Messages
        /\ \/ message'.value = message.value
           \/ /\ field = "value" /\ service.word = buffer
              /\ message'.value = service.number
    BY <1>1, <2>1, <2>3, <2>5 DEF TypeOK, Messages, Fields
  <2>7. TypeOK'
    BY <1>1, <2>1, <2>2, <2>4, <2>6 DEF TypeOK
  <2>8. AnswerInv'
    <3>1. field = "value" => "value" \notin service'.unwritten
      BY <2>4
    <3>2. message'.value <= measured
      BY <1>1, <2>5, <2>6, FieldTypes DEF TempInv, AnswerInv
    <3>3. "value" \in service'.unwritten => message'.value = message.value
      BY <2>6, <3>1
    <3>4. QED
      BY <2>2, <2>4, <3>2, <3>3 DEF TempInv, AnswerInv
  <2>9. BufferInv'
    BY <1>1, <2>1, <2>2, <2>5, <2>6, FieldTypes DEF TempInv, AnswerInv, BufferInv
  <2>10. QED
    <3>1. field = "value" => service.number # 0
      BY <1>1, <2>1, FieldTypes DEF TempInv, AnswerInv
    <3>2. CheckInv'
      BY <2>1, <2>2, <2>6, <3>1 DEF TempInv, CheckInv, BelowMinimum, AboveMaximum
    <3>3. QED
      BY <2>2, <2>7, <2>8, <2>9, <3>2 DEF TempInv, CallInv
<1>4. CASE FirmwareAnswers
  <2>1. /\ service' = Idle /\ outbox' = Append(outbox, service.word) /\ Len(outbox) < Depth
        /\ UNCHANGED <<pnp, call, polls, inbox, measured, message, asked, overtaken,
                       buffer, hardwareReady, temperatureValid, lastTemperature, failures>>
    BY <1>4 DEF FirmwareAnswers, history, status
  <2>2. service.word \in Words
    BY <1>1, <1>4 DEF FirmwareAnswers, TypeOK, Services
  <2>3. outbox' \in Seq(Words) /\ Len(outbox') <= Depth
    BY <1>1, <2>1, <2>2, AppendTypes DEF TypeOK
  <2>4. TypeOK'
    BY <1>1, <2>1, <2>3, Apart DEF TypeOK
  <2>5. QED
    BY <2>1, <2>4, Apart DEF TempInv, CallInv, AnswerInv, BufferInv, CheckInv
<1>5. QED
  BY <1>2, <1>3, <1>4 DEF Firmware

LEMMA OtherKeeps == ASSUME TempInv, OtherPosts \/ OtherReads PROVE TempInv'
<1>1. /\ inbox' \in Seq(Words) /\ Len(inbox') <= Depth
      /\ outbox' \in Seq(Words) /\ Len(outbox') <= Depth
  BY TailTypes, AppendTypes DEF OtherPosts, OtherReads, TempInv, TypeOK, Words
<1>2. UNCHANGED <<pnp, call, polls, service, measured, message, asked, overtaken, buffer,
                  hardwareReady, temperatureValid, lastTemperature, failures>>
  BY DEF OtherPosts, OtherReads, firmware, history, status
<1>3. TypeOK'
  BY <1>1, <1>2 DEF TempInv, TypeOK
<1>4. QED
  BY <1>2, <1>3 DEF TempInv, CallInv, AnswerInv, BufferInv, CheckInv

LEMMA TempStep == TempInv /\ [Next]_vars => TempInv'
<1> SUFFICES ASSUME TempInv, [Next]_vars PROVE TempInv'
  OBVIOUS
<1>1. CASE UNCHANGED vars
  BY <1>1 DEF vars, mailbox, firmware, history, status, TempInv, TypeOK, CallInv, AnswerInv,
     BufferInv, CheckInv
<1>2. QED
  BY <1>1, ReadKeeps, PowerKeeps, FirmwareKeeps, OtherKeeps DEF Next

LEMMA TempAlways == Spec => []TempInv
BY Begins, TempStep, PTL DEF Spec

-----------------------------------------------------------------------------

\* Everything has its type: neither a loop nor the failure counter runs past its
\* limit.
THEOREM TempTypes == Spec => []TypeOK
<1>1. TempInv => TypeOK
  BY DEF TempInv
<1>2. QED
  BY <1>1, TempAlways, PTL

\* A valid temperature was measured by the firmware, and is in range unless a
\* later answer overtook the range check.
THEOREM MeasuredHolds == Spec => []ValidIsMeasured
<1>1. TempInv => ValidIsMeasured
  BY FieldTypes DEF TempInv, CallInv, AnswerInv, CheckInv, ValidIsMeasured
<1>2. QED
  BY <1>1, TempAlways, PTL

\* A step that ends a call with a temperature.
LEMMA Success ==
    ASSUME TempInv, Next, ReadSucceeds
    PROVE  call # "none" /\ lastTemperature' = message.value /\ message.value # 0
<1>1. call # "none" /\ call' = "none" /\ temperatureValid'
  BY DEF ReadSucceeds
<1>2. CASE Take
  BY <1>1, <1>2 DEF Take, Succeed, TempInv, CheckInv
<1>3. CASE CheckFails \/ ReadGivesUp
  BY <1>1, <1>3 DEF CheckFails, ReadGivesUp, Fail
<1>4. CASE Drain \/ Post \/ PollStatus \/ PollMisses \/ PollHits \/ CheckPasses
  BY <1>1, <1>4 DEF Drain, Post, PollStatus, PollMisses, PollHits, CheckPasses, Checks, NextFetch
<1>5. CASE Power \/ IoDeviceControl
  BY <1>1, <1>5 DEF Power, IoDeviceControl, PrepareHardware, PrepareHardwareFails, D0Entry,
     LeaveD0, D0Exit, ReleaseHardware
<1>6. CASE Firmware \/ OtherPosts \/ OtherReads
  BY <1>1, <1>6 DEF Firmware, FirmwareTakes, FirmwareWrites, FirmwareAnswers, OtherPosts,
     OtherReads
<1>7. QED
  BY <1>2, <1>3, <1>4, <1>5, <1>6 DEF Next, TempReadTemperature

\* No late answer passes for a new measurement.
THEOREM FreshHolds == Spec => AnswersAreFresh
<1>1. TempInv /\ [Next]_vars => [ReadSucceeds => lastTemperature' >= asked]_vars
  BY Success DEF TempInv, BufferInv
<1>2. QED
  BY <1>1, TempAlways, PTL DEF Spec, AnswersAreFresh

\* No measurement is reported twice.
THEOREM OnceHolds == Spec => NoAnswerTwice
<1>1. TempInv /\ [Next]_vars => [ReadSucceeds => lastTemperature' > lastTemperature]_vars
  BY Success DEF TempInv, BufferInv
<1>2. QED
  BY <1>1, TempAlways, PTL DEF Spec, NoAnswerTwice

=============================================================================
