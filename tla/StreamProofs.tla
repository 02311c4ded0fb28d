---------------------------- MODULE StreamProofs ----------------------------
(***************************************************************************)
(* Proofs about StreamVideo for every number of units, and about           *)
(* StreamSession and StreamAudio for every number of sessions, any formats *)
(* and any limit of the queue.                                             *)
(***************************************************************************)
EXTENDS StreamVideo, StreamAudio, SequenceTheorems, TLAPS

USE DEF depacketizerVars, decoderVars, bufferVars, renderVars

\* What a unit is.
LEMMA Units ==
    /\ \A u \in Unit : u.number \in 1 .. MaxUnits /\ u.idr \in BOOLEAN
    /\ NoUnit \notin Unit /\ NoUnit.number = 0 /\ NoUnit.idr = FALSE
BY UnitsAssumption DEF Unit, NoUnit

\* The invariant of the video path holds at first.
LEMMA InitInv == VideoInit => VideoInv
<1> SUFFICES ASSUME VideoInit PROVE VideoInv
  OBVIOUS
<1> USE UnitsAssumption DEF VideoInit
<1>1. queue \in Seq(Unit) /\ Len(queue) = 0
  BY EmptySeq
<1>2. VideoTypeOK
  <2>1. content \in [Buffer -> Frame] /\ 0 \in Frame /\ back \in Buffer /\ latest \in Buffer
          /\ front \in Buffer
    BY DEF Buffer, Frame
  <2> QED
    BY <1>1, <2>1, Zenon DEF VideoTypeOK
<1>3. QueueInv
  BY <1>1 DEF QueueInv, Ending
<1>4. DecoderInv
  BY DEF DecoderInv, Holding, Base
<1>5. PhaseInv
  BY DEF PhaseInv
<1>6. BufferInv
  BY DEF BufferInv, Newest, Buffer
<1> QED
  BY <1>2, <1>3, <1>4, <1>5, <1>6 DEF VideoInv

\* Every step keeps the invariant of the video path.
LEMMA StepInv == VideoInv /\ [VideoNext]_videoVars => VideoInv'
<1> SUFFICES ASSUME VideoInv, [VideoNext]_videoVars
             PROVE  VideoInv'
  OBVIOUS
<1> USE UnitsAssumption
<1>a. /\ received \in Nat /\ reference \in Nat /\ Base \in Nat
      /\ unit.number \in Nat /\ unit.idr \in BOOLEAN
      /\ Holding => unit \in Unit
  <2>1. unit.number \in Nat /\ unit.idr \in BOOLEAN
    <3>1. unit \in Unit \/ unit = NoUnit
      BY DEF VideoInv, VideoTypeOK
    <3>2. CASE unit \in Unit
      BY <3>2, Units
    <3>3. CASE unit = NoUnit
      <4>1. unit.number \in Nat
        BY <3>3, Units
      <4>2. unit.idr \in BOOLEAN
        BY <3>3, Units, Zenon
      <4> QED
        BY <4>1, <4>2
    <3> QED
      BY <3>1, <3>2, <3>3
  <2> QED
    BY <2>1, Units DEF VideoInv, VideoTypeOK, DecoderInv, Base, Frame
<1>b. /\ queue \in Seq(Unit) /\ Len(queue) \in Nat
      /\ \A i \in 1 .. Len(queue) : /\ queue[i] \in Unit /\ queue[i].number \in Nat
                                   /\ queue[i].idr \in BOOLEAN
  BY Units, LenProperties, ElementOfSeq DEF VideoInv, VideoTypeOK
<1>c. \A i \in 1 .. Len(queue) + 1 : Prev(i) \in Nat
  BY <1>a, <1>b DEF Prev
<1>d. ASSUME queue' = queue, Base' = Base
      PROVE  \A i : Prev(i)' = Prev(i)
  BY <1>d DEF Prev
<1>e. ASSUME queue # <<>>
      PROVE  /\ 1 \in 1 .. Len(queue) /\ Head(queue) = queue[1]
             /\ Tail(queue) \in Seq(Unit) /\ Len(Tail(queue)) = Len(queue) - 1
             /\ \A i \in 1 .. Len(queue) - 1 : Tail(queue)[i] = queue[i + 1]
  BY <1>b, <1>e, HeadTailProperties, EmptySeq, LenProperties
\* Taking the first unit, and emptying the queue.
<1>f. ASSUME queue # <<>>, queue' = Tail(queue), Base' = queue[1].number, ~ Ending,
             received' = received, waitingIdr' = waitingIdr
      PROVE  QueueInv'
  <2>1. ASSUME NEW i \in 1 .. Len(queue)
        PROVE  Prev(i)' = Prev(i + 1)
    <3>1. CASE i = 1
      BY <1>f, <3>1 DEF Prev
    <3>2. CASE i # 1
      <4>1. i - 1 \in 1 .. Len(queue) - 1 /\ (i - 1) + 1 = i /\ (i + 1) - 1 = i /\ i + 1 # 1
        BY <1>b, <3>2
      <4> QED
        BY <1>e, <1>f, <3>2, <4>1 DEF Prev
    <3> QED
      BY <3>1, <3>2
  <2>2. Len(queue') + 1 = Len(queue) /\ Len(queue) \in 1 .. Len(queue)
    BY <1>b, <1>e, <1>f
  <2>3. ASSUME NEW i \in 1 .. Len(queue')
        PROVE  /\ queue'[i] = queue[i + 1] /\ i + 1 \in 1 .. Len(queue)
               /\ Prev(i)' = Prev(i + 1)
    <3>1. i \in 1 .. Len(queue) - 1 /\ i \in 1 .. Len(queue) /\ i + 1 \in 1 .. Len(queue)
      BY <1>b, <2>2
    <3> QED
      BY <1>e, <1>f, <2>1, <3>1
  <2>4. \A i \in 1 .. Len(queue') : Prev(i)' < queue'[i].number /\ queue'[i].number <= received'
    BY <1>f, <2>3 DEF VideoInv, QueueInv
  <2>5. \A i \in 1 .. Len(queue') : Follows(queue'[i], Prev(i)')
    BY <1>f, <2>3 DEF VideoInv, QueueInv
  <2>6. ~ waitingIdr' => received' = Prev(Len(queue) + 1)'
    <3>1. ASSUME NEW n, n = Len(queue)
          PROVE  ~ waitingIdr' => received' = Prev(n)'
      BY <1>f, <2>1, <2>2, <3>1 DEF VideoInv, QueueInv
    <3> QED
      BY <2>2, <3>1 DEF Prev
  <2> QED
    BY <2>4, <2>5, <2>6 DEF QueueInv, Follows
<1>g. ASSUME queue' = <<>>, waitingIdr'
      PROVE  QueueInv' /\ queue' \in Seq(Unit)
  BY <1>g, EmptySeq DEF QueueInv
<1>h. ASSUME UNCHANGED <<queue, waitingIdr, received>>, Base' = Base, Ending' = Ending
      PROVE  QueueInv'
  BY <1>b, <1>d, <1>h DEF VideoInv, QueueInv, Follows
<1>1. CASE \E idr \in BOOLEAN : Receive(idr)
  <2>a. PICK idr \in BOOLEAN : Receive(idr)
    BY <1>1
  <2> DEFINE u == [number |-> received', idr |-> idr]
  <2>b. received' = received + 1 /\ received' \in 1 .. MaxUnits
    BY <1>a, <2>a DEF Receive
  <2>c. u \in Unit /\ u.number = received + 1 /\ u.idr = idr
    BY <2>b DEF Unit
  <2>d. \/ waitingIdr' /\ queue' = queue
        \/ ~ waitingIdr' /\ queue' = Append(queue, u) /\ (waitingIdr => u.idr)
    BY <2>a, <2>c DEF Receive, VideoInv, VideoTypeOK
  <2>e. Base' = Base /\ Ending' = Ending /\ Holding' = Holding
    BY <2>a DEF Receive, Base, Ending, Holding
  <2> HIDE DEF u
  <2>1. VideoTypeOK'
    <3>1. queue' \in Seq(Unit)
      BY <1>b, <2>c, <2>d, AppendProperties
    <3>2. waitingIdr' \in BOOLEAN /\ received' \in Frame
      BY <2>a, <2>b DEF Receive, Frame, VideoInv, VideoTypeOK
    <3> QED
      BY <3>1, <3>2, <2>a DEF Receive, VideoInv, VideoTypeOK
  <2>2. QueueInv'
    <3>1. CASE queue' = queue /\ waitingIdr'
      BY <3>1, <1>a, <1>b, <1>c, <1>d, <2>b, <2>e DEF VideoInv, QueueInv, Follows
    <3>2. CASE ~ waitingIdr' /\ queue' = Append(queue, u) /\ (waitingIdr => u.idr)
      <4>1. /\ Len(queue') = Len(queue) + 1 /\ queue'[Len(queue) + 1] = u
            /\ \A i \in 1 .. Len(queue) : queue'[i] = queue[i]
        BY <1>b, <2>c, <3>2, AppendProperties
      <4>a. ASSUME NEW i \in 1 .. Len(queue) + 1
            PROVE  Prev(i)' = Prev(i)
        <5>1. i = 1 \/ i - 1 \in 1 .. Len(queue)
          BY <1>b
        <5> QED
          BY <2>e, <4>1, <5>1 DEF Prev
      <4>2. \A i \in 1 .. Len(queue) + 1 : Prev(i)' = Prev(i)
        BY <4>a
      <4>3. Prev(Len(queue) + 1) <= received
        BY <1>a, <1>b DEF VideoInv, QueueInv, DecoderInv, Prev
      <4>4. ~ Ending => Follows(u, Prev(Len(queue) + 1))
        BY <2>c, <3>2 DEF VideoInv, QueueInv, Follows
      <4>5. \A i \in 1 .. Len(queue') : Prev(i)' < queue'[i].number /\ queue'[i].number <= received'
        <5>1. ASSUME NEW i \in 1 .. Len(queue)
              PROVE  Prev(i)' < queue'[i].number /\ queue'[i].number <= received'
          <6>1. Prev(i) < queue[i].number /\ queue[i].number <= received
            BY DEF VideoInv, QueueInv
          <6>2. queue'[i] = queue[i] /\ Prev(i)' = Prev(i) /\ queue[i].number \in Nat
            BY <1>b, <4>1, <4>2
          <6> QED
            BY <1>a, <2>b, <6>1, <6>2
        <5>2. ASSUME NEW i \in Nat, i = Len(queue) + 1
              PROVE  Prev(i)' < queue'[i].number /\ queue'[i].number <= received'
          <6>1. i \in 1 .. Len(queue) + 1
            BY <1>b, <5>2
          <6>2. Prev(i)' = Prev(i) /\ Prev(i) \in Nat /\ Prev(i) <= received /\ queue'[i] = u
            BY <1>c, <4>1, <4>2, <4>3, <5>2, <6>1
          <6> QED
            BY <1>a, <2>b, <2>c, <6>2
        <5>3. ASSUME NEW i \in 1 .. Len(queue')
              PROVE  Prev(i)' < queue'[i].number /\ queue'[i].number <= received'
          <6>1. i \in Nat /\ (i \in 1 .. Len(queue) \/ i = Len(queue) + 1)
            BY <1>b, <4>1
          <6> QED
            BY <5>1, <5>2, <6>1
        <5> QED
          BY <5>3
      <4>6. ~ Ending => \A i \in 1 .. Len(queue') : Follows(queue'[i], Prev(i)')
        BY <1>b, <4>1, <4>2, <4>4 DEF VideoInv, QueueInv
      <4>7. received' = Prev(Len(queue) + 1)'
        <5>1. (Len(queue') + 1) - 1 = Len(queue) + 1 /\ Len(queue') + 1 # 1
          BY <1>b, <4>1
        <5> QED
          BY <2>b, <2>c, <4>1, <5>1 DEF Prev
      <4> QED
        BY <2>e, <4>5, <4>6, <4>7 DEF QueueInv, Follows
    <3> QED
      BY <2>d, <3>1, <3>2
  <2>3. DecoderInv'
    <3>1. UNCHANGED <<unit, handed, decoder, dropped, reference>>
      BY <2>a DEF Receive
    <3> QED
      BY <1>a, <2>b, <2>e, <3>1 DEF VideoInv, DecoderInv, Follows
  <2>4. PhaseInv'
    BY <1>1, Units DEF Receive, VideoInv, VideoTypeOK, PhaseInv
  <2>5. BufferInv'
    BY <1>1, Units DEF Receive, VideoInv, VideoTypeOK, BufferInv, Newest, DecoderInv, Holding, Base, Buffer, Frame,
       PhaseInv
  <2> QED
    BY <2>1, <2>2, <2>3, <2>4, <2>5 DEF VideoInv
<1>2. CASE Lose
  <2>1. VideoTypeOK'
    BY <1>2, Units DEF Lose, VideoInv, VideoTypeOK, Buffer, Frame
  <2>a. /\ Base' = Base /\ Ending' = Ending /\ Holding' = Holding
        /\ received' = received + 1 /\ waitingIdr' /\ queue' = queue
    BY <1>2 DEF Lose, Base, Ending, Holding
  <2>2. QueueInv'
    BY <2>a, <1>a, <1>b, <1>c, <1>d DEF VideoInv, QueueInv, Follows
  <2>3. DecoderInv'
    <3>1. UNCHANGED <<unit, handed, decoder, dropped, reference>>
      BY <1>2 DEF Lose
    <3> QED
      BY <1>a, <2>a, <3>1 DEF VideoInv, DecoderInv, Follows
  <2>4. PhaseInv'
    BY <1>2, Units DEF Lose, VideoInv, VideoTypeOK, PhaseInv
  <2>5. BufferInv'
    BY <1>2, Units DEF Lose, VideoInv, VideoTypeOK, BufferInv, Newest, DecoderInv, Holding, Base, Buffer, Frame,
       PhaseInv
  <2> QED
    BY <2>1, <2>2, <2>3, <2>4, <2>5 DEF VideoInv
<1>3. CASE CheckStop
  <2>1. VideoTypeOK'
    BY <1>3, Units DEF CheckStop, VideoInv, VideoTypeOK, Buffer, Frame
  <2>2. QueueInv'
    BY <1>3, Units DEF CheckStop, VideoInv, VideoTypeOK, QueueInv, Ending, Prev, Base, Holding, Follows, DecoderInv
  <2>3. DecoderInv'
    BY <1>3, Units DEF CheckStop, VideoInv, VideoTypeOK, DecoderInv, Base, Holding, Follows
  <2>4. PhaseInv'
    BY <1>3, Units DEF CheckStop, VideoInv, VideoTypeOK, PhaseInv
  <2>5. BufferInv'
    BY <1>3, Units DEF CheckStop, VideoInv, VideoTypeOK, BufferInv, Newest, DecoderInv, Holding, Base, Buffer, Frame,
       PhaseInv
  <2> QED
    BY <2>1, <2>2, <2>3, <2>4, <2>5 DEF VideoInv
<1>4. CASE Wait
  <2>1. CASE woken
    <3>1. /\ decoder = "wait" /\ decoder' = "ended" /\ woken' = FALSE /\ dropped' = FALSE
          /\ UNCHANGED <<phase, queue, received, waitingIdr, handed, unit, stop, reference,
                         bufferVars, renderVars>>
      BY <1>4, <2>1 DEF Wait
    <3>2. Base' = Base /\ Ending' /\ ~ Holding /\ ~ Holding'
      BY <3>1 DEF Base, Ending, Holding
    <3>3. QueueInv'
      BY <1>b, <1>d, <3>1, <3>2 DEF VideoInv, QueueInv
    <3>4. DecoderInv'
      BY <3>1, <3>2 DEF VideoInv, DecoderInv
    <3> QED
      BY <3>1, <3>3, <3>4 DEF VideoInv, VideoTypeOK, PhaseInv, BufferInv, Newest
  <2>2. CASE ~ woken
    <3>1. /\ decoder = "wait" /\ decoder' = "got" /\ queue # <<>>
          /\ unit' = queue[1] /\ queue' = Tail(queue)
          /\ handed' = handed \cup {unit'.number}
          /\ dropped' = FALSE
          /\ UNCHANGED <<phase, received, waitingIdr, woken, stop, reference, bufferVars, renderVars>>
      BY <1>4, <1>e, <2>2 DEF Wait
    <3>2. /\ unit' \in Unit /\ Base' = queue[1].number /\ Base = reference
          /\ ~ Ending /\ ~ Holding /\ Holding'
      BY <1>b, <1>e, <3>1 DEF Base, Ending, Holding
    <3>3. Prev(1) = reference /\ reference < unit'.number /\ unit'.number <= received
            /\ Follows(unit', reference)
      BY <1>e, <3>1, <3>2 DEF VideoInv, QueueInv, Prev
    <3>4. handed' = {unit'.number} /\ unit' # NoUnit
      BY <3>1, <3>2, Units DEF VideoInv, DecoderInv
    <3>5. VideoTypeOK'
      <4>1. handed' \subseteq 1 .. MaxUnits
        BY <3>2, <3>4, Units
      <4> QED
        BY <1>e, <3>1, <3>2, <4>1 DEF VideoInv, VideoTypeOK
    <3>6. QueueInv'
      BY <1>f, <3>1, <3>2
    <3>7. DecoderInv'
      BY <3>1, <3>2, <3>3, <3>4 DEF VideoInv, DecoderInv, Follows
    <3> QED
      BY <3>1, <3>5, <3>6, <3>7 DEF VideoInv, PhaseInv, BufferInv, Newest
  <2> QED
    BY <2>1, <2>2
<1>5. CASE Got
  <2>1. VideoTypeOK'
    BY <1>5, Units DEF Got, Complete, GiveBack, VideoInv, VideoTypeOK, Buffer, Frame
  <2>2. QueueInv'
    <3>1. /\ decoder = "got" /\ UNCHANGED <<queue, waitingIdr, received, stop, reference>>
          /\ \/ ~ stop /\ decoder' = "poll" /\ unit' = unit
             \/ stop /\ decoder' = "check"
      BY <1>5 DEF Got, Complete, GiveBack
    <3>2. CASE ~ stop /\ decoder' = "poll" /\ unit' = unit
      BY <1>h, <3>1, <3>2 DEF Base, Ending, Holding
    <3>3. CASE stop /\ decoder' = "check"
      <4>1. Ending' /\ Base' = reference /\ reference < Base
        BY <3>1, <3>3 DEF Ending, Base, Holding, VideoInv, DecoderInv
      <4>2. \A i \in 1 .. Len(queue) : Prev(i)' <= Prev(i) /\ Prev(i)' \in Nat
        BY <1>a, <1>b, <3>1, <4>1 DEF Prev
      <4> QED
        BY <1>a, <1>b, <1>c, <3>1, <4>1, <4>2 DEF VideoInv, QueueInv
    <3> QED
      BY <3>1, <3>2, <3>3
  <2>3. DecoderInv'
    <3>1. CASE stop
      BY <1>5, <1>a, <3>1, Units DEF Got, Complete, GiveBack, VideoInv, DecoderInv, Base, Holding
    <3>2. CASE ~ stop
      BY <1>5, <1>a, <3>2 DEF Got, VideoInv, DecoderInv, Base, Holding, Follows
    <3> QED
      BY <3>1, <3>2
  <2>4. PhaseInv'
    BY <1>5, Units DEF Got, Complete, GiveBack, VideoInv, VideoTypeOK, PhaseInv
  <2>5. BufferInv'
    BY <1>5, Units DEF Got, Complete, GiveBack, VideoInv, VideoTypeOK, BufferInv, Newest, DecoderInv, Holding, Base,
       Buffer, Frame, PhaseInv
  <2> QED
    BY <2>1, <2>2, <2>3, <2>4, <2>5 DEF VideoInv
<1>6. CASE DropForNewer
  <2>1. /\ decoder = "poll" /\ queue # <<>>
        /\ unit' = queue[1] /\ queue' = Tail(queue)
        /\ handed' = (handed \ {unit.number}) \cup {unit'.number}
        /\ dropped' = TRUE
        /\ UNCHANGED <<phase, received, waitingIdr, woken, decoder, stop, reference,
                       bufferVars, renderVars>>
    BY <1>6, <1>e DEF DropForNewer
  <2>2. /\ unit' \in Unit /\ Base' = queue[1].number /\ Base = unit.number
        /\ ~ Ending /\ Holding /\ Holding'
    BY <1>b, <1>e, <2>1 DEF Base, Ending, Holding
  <2>3. unit.number < unit'.number /\ unit'.number <= received /\ reference < unit.number
    BY <1>e, <2>1, <2>2 DEF VideoInv, QueueInv, DecoderInv, Prev
  <2>4. handed' = {unit'.number} /\ unit' # NoUnit
    BY <2>1, <2>2, Units DEF VideoInv, DecoderInv
  <2>5. VideoTypeOK'
    <3>1. handed' \subseteq 1 .. MaxUnits
      BY <2>2, <2>4, Units
    <3> QED
      BY <1>e, <2>1, <2>2, <3>1 DEF VideoInv, VideoTypeOK
  <2>6. QueueInv'
    BY <1>f, <2>1, <2>2
  <2>7. DecoderInv'
    <3>1. reference < unit'.number /\ unit'.number \in Nat
      BY <1>a, <1>b, <1>e, <2>1, <2>3
    <3> QED
      BY <2>1, <2>2, <2>3, <2>4, <3>1 DEF VideoInv, DecoderInv
  <2> QED
    BY <2>1, <2>5, <2>6, <2>7 DEF VideoInv, PhaseInv, BufferInv, Newest
<1>7. CASE Prepare
  <2>1. VideoTypeOK'
    BY <1>7, Units DEF Prepare, Complete, GiveBack, VideoInv, VideoTypeOK, Buffer, Frame
  <2>2. QueueInv'
    BY <1>7, Units DEF Prepare, Complete, GiveBack, VideoInv, VideoTypeOK, QueueInv, Ending, Prev, Base, Holding,
       Follows, DecoderInv
  <2>3. DecoderInv'
    <3>1. CASE dropped /\ ~ unit.idr
      BY <1>7, <1>a, <3>1, Units DEF Prepare, Complete, GiveBack, VideoInv, DecoderInv, Base, Holding
    <3>2. CASE ~ (dropped /\ ~ unit.idr)
      BY <1>7, <1>a, <3>2 DEF Prepare, VideoInv, DecoderInv, Base, Holding, Follows
    <3> QED
      BY <3>1, <3>2
  <2>4. PhaseInv'
    BY <1>7, Units DEF Prepare, Complete, GiveBack, VideoInv, VideoTypeOK, PhaseInv
  <2>5. BufferInv'
    BY <1>7, Units DEF Prepare, Complete, GiveBack, VideoInv, VideoTypeOK, BufferInv, Newest, DecoderInv, Holding,
       Base, Buffer, Frame, PhaseInv
  <2> QED
    BY <2>1, <2>2, <2>3, <2>4, <2>5 DEF VideoInv
<1>8. CASE Decode
  <2>1. /\ decoder = "decode" /\ Holding /\ ~ Ending
        /\ UNCHANGED <<phase, received, woken, stop, dropped, bufferVars, renderVars>>
    BY <1>8 DEF Decode, Holding, Ending
  <2>2. /\ unit \in Unit /\ unit # NoUnit /\ Base = unit.number
        /\ handed = {unit.number} /\ reference < unit.number /\ unit.number \in Frame
        /\ Follows(unit, reference)
    BY <1>a, <2>1, Units DEF VideoInv, DecoderInv, Base, Frame
  <2>3. CASE Complete(TRUE) /\ UNCHANGED reference
    <3>1. /\ decoder' = "check" /\ ~ Holding' /\ unit' = NoUnit /\ Base' = reference
          /\ handed' = {} /\ queue' = <<>> /\ waitingIdr' /\ UNCHANGED reference
      BY <2>2, <2>3 DEF Complete, GiveBack, Holding, Base
    <3>2. QueueInv' /\ VideoTypeOK'
      BY <1>g, <2>1, <3>1 DEF VideoInv, VideoTypeOK
    <3>3. DecoderInv'
      BY <1>a, <2>1, <2>2, <3>1 DEF VideoInv, DecoderInv
    <3> QED
      BY <2>1, <3>1, <3>2, <3>3 DEF VideoInv, PhaseInv, BufferInv, Newest
  <2>4. CASE reference' = unit.number /\ UNCHANGED <<queue, waitingIdr>>
               /\ \/ decoder' = "check" /\ unit' = NoUnit /\ handed' = {}
                  \/ decoder' = "copy" /\ UNCHANGED <<unit, handed>>
    <3>2. Base' = unit.number /\ Base' = Base
      BY <2>2, <2>4 DEF Base, Holding
    <3>3. QueueInv'
      BY <1>b, <1>d, <2>1, <2>4, <3>2 DEF VideoInv, QueueInv, Follows
    <3>4. DecoderInv'
      BY <1>a, <2>1, <2>2, <2>4, <3>2 DEF VideoInv, DecoderInv, Holding
    <3>5. VideoTypeOK'
      BY <2>1, <2>2, <2>4 DEF VideoInv, VideoTypeOK
    <3>6. BufferInv' /\ PhaseInv'
      <4>1. Newest = reference /\ Newest <= Newest' /\ Newest' \in Int
        BY <1>a, <2>1, <2>2, <2>4 DEF Newest
      <4>2. content[latest] \in Nat /\ content[front] \in Nat /\ version \in Nat
        BY DEF VideoInv, VideoTypeOK, Frame
      <4> QED
        BY <1>a, <2>1, <2>4, <4>1, <4>2 DEF VideoInv, BufferInv, PhaseInv
    <3> QED
      BY <3>3, <3>4, <3>5, <3>6 DEF VideoInv
  <2> QED
    BY <1>8, <2>2, <2>3, <2>4 DEF Decode, Complete, GiveBack
<1>9. CASE Copy
  <2>1. VideoTypeOK'
    BY <1>9, Units DEF Copy, VideoInv, VideoTypeOK, Buffer, Frame
  <2>2. QueueInv'
    BY <1>9, Units DEF Copy, VideoInv, VideoTypeOK, QueueInv, Ending, Prev, Base, Holding, Follows, DecoderInv
  <2>3. DecoderInv'
    BY <1>9, Units DEF Copy, VideoInv, VideoTypeOK, DecoderInv, Base, Holding, Follows
  <2>4. PhaseInv'
    BY <1>9, Units DEF Copy, VideoInv, VideoTypeOK, PhaseInv
  <2>5. BufferInv'
    BY <1>9, Units DEF Copy, VideoInv, VideoTypeOK, BufferInv, Newest, DecoderInv, Holding, Base, Buffer, Frame,
       PhaseInv
  <2> QED
    BY <2>1, <2>2, <2>3, <2>4, <2>5 DEF VideoInv
<1>10. CASE Swap
  <2>1. VideoTypeOK'
    <3>1. version + 1 \in Frame
      BY <1>10, <1>a DEF Swap, VideoInv, VideoTypeOK, Frame, BufferInv, Newest
    <3> QED
      BY <1>10, <3>1 DEF Swap, VideoInv, VideoTypeOK
  <2>2. QueueInv'
    BY <1>10, Units DEF Swap, VideoInv, VideoTypeOK, QueueInv, Ending, Prev, Base, Holding, Follows, DecoderInv
  <2>3. DecoderInv'
    BY <1>10, Units DEF Swap, VideoInv, VideoTypeOK, DecoderInv, Base, Holding, Follows
  <2>4. PhaseInv'
    BY <1>10, Units DEF Swap, VideoInv, VideoTypeOK, PhaseInv
  <2>5. BufferInv'
    <3>1. /\ back' = latest /\ latest' = back /\ content' = content /\ version' = version + 1
          /\ decoder = "swap" /\ decoder' = "mark"
          /\ UNCHANGED <<phase, reference, front, rendered, shown>>
      BY <1>10 DEF Swap
    <3>2. Newest = reference - 1 /\ Newest' = reference
      BY <3>1 DEF Newest
    <3>3. /\ front \in Buffer /\ latest \in Buffer /\ back \in Buffer
          /\ content \in [Buffer -> Nat] /\ version \in Nat /\ rendered \in Nat /\ shown \in Nat
      BY DEF VideoInv, VideoTypeOK, Frame
    <3> QED
      BY <1>a, <3>1, <3>2, <3>3 DEF VideoInv, BufferInv
  <2> QED
    BY <2>1, <2>2, <2>3, <2>4, <2>5 DEF VideoInv
<1>11. CASE Mark
  <2>1. VideoTypeOK'
    <3>1. PICK needIdr \in BOOLEAN : Complete(needIdr)
      BY <1>11 DEF Mark
    <3>2. queue' \in Seq(Unit) /\ waitingIdr' \in BOOLEAN /\ handed' \subseteq 1 .. MaxUnits
      <4>1. CASE needIdr
        <5>1. queue' = <<>> /\ waitingIdr' = TRUE /\ handed' = handed \ {unit.number}
          BY <3>1, <4>1, Zenon DEF Complete, GiveBack
        <5>2. handed' \subseteq 1 .. MaxUnits
          BY <5>1 DEF VideoInv, VideoTypeOK
        <5>3. queue' \in Seq(Unit) /\ waitingIdr' \in BOOLEAN
          BY <5>1
        <5> QED BY <5>2, <5>3
      <4>2. CASE ~ needIdr
        BY <3>1, <4>2, Units DEF Complete, GiveBack, VideoInv, VideoTypeOK
      <4> QED BY <4>1, <4>2
    <3>3. unit' = NoUnit /\ decoder' = "check" /\ hasFrame' = TRUE
      BY <1>11, <3>1, Zenon DEF Mark, Complete
    <3> QED
      BY <1>11, <3>2, <3>3 DEF Mark, VideoInv, VideoTypeOK
  <2>2. QueueInv'
    BY <1>11, Units DEF Mark, Complete, GiveBack, VideoInv, VideoTypeOK, QueueInv, Ending, Prev, Base, Holding,
       Follows, DecoderInv
  <2>3. DecoderInv'
    BY <1>11, Units DEF Mark, Complete, GiveBack, VideoInv, VideoTypeOK, DecoderInv, Base, Holding, Follows
  <2>4. PhaseInv'
    BY <1>11, Units DEF Mark, Complete, GiveBack, VideoInv, VideoTypeOK, PhaseInv
  <2>5. BufferInv'
    BY <1>11, Units DEF Mark, Complete, GiveBack, VideoInv, VideoTypeOK, BufferInv, Newest, DecoderInv, Holding,
       Base, Buffer, Frame, PhaseInv
  <2> QED
    BY <2>1, <2>2, <2>3, <2>4, <2>5 DEF VideoInv
<1>12. CASE Look
  <2>1. VideoTypeOK'
    BY <1>12, Units DEF Look, VideoInv, VideoTypeOK, Buffer, Frame
  <2>2. QueueInv'
    BY <1>12, Units DEF Look, VideoInv, VideoTypeOK, QueueInv, Ending, Prev, Base, Holding, Follows, DecoderInv
  <2>3. DecoderInv'
    BY <1>12, Units DEF Look, VideoInv, VideoTypeOK, DecoderInv, Base, Holding, Follows
  <2>4. PhaseInv'
    BY <1>12, Units DEF Look, VideoInv, VideoTypeOK, PhaseInv
  <2>5. BufferInv'
    BY <1>12, Units DEF Look, VideoInv, VideoTypeOK, BufferInv, Newest, DecoderInv, Holding, Base, Buffer, Frame,
       PhaseInv
  <2> QED
    BY <2>1, <2>2, <2>3, <2>4, <2>5 DEF VideoInv
<1>13. CASE Take
  <2>1. VideoTypeOK'
    BY <1>13, Units DEF Take, HasUnrendered, VideoInv, VideoTypeOK, Buffer, Frame
  <2>2. QueueInv'
    BY <1>13, Units DEF Take, HasUnrendered, VideoInv, VideoTypeOK, QueueInv, Ending, Prev, Base, Holding, Follows,
       DecoderInv
  <2>3. DecoderInv'
    BY <1>13, Units DEF Take, HasUnrendered, VideoInv, VideoTypeOK, DecoderInv, Base, Holding, Follows
  <2>4. PhaseInv'
    BY <1>13, Units DEF Take, HasUnrendered, VideoInv, VideoTypeOK, PhaseInv
  <2>5. BufferInv'
    <3>1. Newest' = Newest /\ back' = back /\ content' = content /\ version' = version
      BY <1>13 DEF Take, Newest
    <3>2. /\ front \in Buffer /\ latest \in Buffer /\ back \in Buffer
          /\ content \in [Buffer -> Nat] /\ version \in Nat /\ rendered \in Nat /\ shown \in Nat
          /\ Newest \in Int /\ reference \in Nat
      BY <1>a DEF VideoInv, VideoTypeOK, Frame, Newest
    <3>3. CASE HasUnrendered /\ content[latest] # 0
      <4>1. front' = latest /\ latest' = front /\ rendered' = version
        BY <1>13, <3>3 DEF Take
      <4>2. phase' = phase /\ shown' = shown /\ decoder' = decoder /\ reference' = reference
        BY <1>13 DEF Take
      <4> QED
        BY <3>1, <3>2, <3>3, <4>1, <4>2 DEF VideoInv, BufferInv, HasUnrendered
    <3>4. CASE ~ (HasUnrendered /\ content[latest] # 0)
      <4>1. UNCHANGED <<front, latest, rendered, phase, shown, decoder, reference>>
        BY <1>13, <3>4 DEF Take
      <4> QED
        BY <3>1, <4>1 DEF VideoInv, BufferInv
    <3> QED
      BY <3>3, <3>4
  <2> QED
    BY <2>1, <2>2, <2>3, <2>4, <2>5 DEF VideoInv
<1>14. CASE Present
  <2>1. VideoTypeOK'
    BY <1>14, Units DEF Present, VideoInv, VideoTypeOK, Buffer, Frame
  <2>2. QueueInv'
    BY <1>14, Units DEF Present, VideoInv, VideoTypeOK, QueueInv, Ending, Prev, Base, Holding, Follows, DecoderInv
  <2>3. DecoderInv'
    BY <1>14, Units DEF Present, VideoInv, VideoTypeOK, DecoderInv, Base, Holding, Follows
  <2>4. PhaseInv'
    BY <1>14, Units DEF Present, VideoInv, VideoTypeOK, PhaseInv
  <2>5. BufferInv'
    BY <1>14, Units DEF Present, VideoInv, VideoTypeOK, BufferInv, Newest, DecoderInv, Holding, Base, Buffer, Frame,
       PhaseInv
  <2> QED
    BY <2>1, <2>2, <2>3, <2>4, <2>5 DEF VideoInv
<1>15. CASE Started
  <2>1. VideoTypeOK'
    BY <1>15, Units DEF Started, VideoInv, VideoTypeOK, Buffer, Frame
  <2>2. QueueInv'
    BY <1>15, Units DEF Started, VideoInv, VideoTypeOK, QueueInv, Ending, Prev, Base, Holding, Follows, DecoderInv
  <2>3. DecoderInv'
    BY <1>15, Units DEF Started, VideoInv, VideoTypeOK, DecoderInv, Base, Holding, Follows
  <2>4. PhaseInv'
    BY <1>15, Units DEF Started, VideoInv, VideoTypeOK, PhaseInv
  <2>5. BufferInv'
    BY <1>15, Units DEF Started, VideoInv, VideoTypeOK, BufferInv, Newest, DecoderInv, Holding, Base, Buffer, Frame,
       PhaseInv
  <2> QED
    BY <2>1, <2>2, <2>3, <2>4, <2>5 DEF VideoInv
<1>16. CASE StopDecoder
  <2>1. VideoTypeOK'
    BY <1>16, Units DEF StopDecoder, VideoInv, VideoTypeOK, Buffer, Frame
  <2>2. QueueInv'
    BY <1>16, Units DEF StopDecoder, VideoInv, VideoTypeOK, QueueInv, Ending, Prev, Base, Holding, Follows, DecoderInv
  <2>3. DecoderInv'
    BY <1>16, Units DEF StopDecoder, VideoInv, VideoTypeOK, DecoderInv, Base, Holding, Follows
  <2>4. PhaseInv'
    BY <1>16, Units DEF StopDecoder, VideoInv, VideoTypeOK, PhaseInv
  <2>5. BufferInv'
    BY <1>16, Units DEF StopDecoder, VideoInv, VideoTypeOK, BufferInv, Newest, DecoderInv, Holding, Base, Buffer,
       Frame, PhaseInv
  <2> QED
    BY <2>1, <2>2, <2>3, <2>4, <2>5 DEF VideoInv
<1>17. CASE Cleanup
  <2>1. VideoTypeOK'
    <3>1. content' \in [Buffer -> Frame] /\ 0 \in Frame
      BY <1>17 DEF Cleanup, Frame
    <3> QED
      BY <1>17, <3>1 DEF Cleanup, VideoInv, VideoTypeOK
  <2>2. QueueInv'
    BY <1>17, Units DEF Cleanup, VideoInv, VideoTypeOK, QueueInv, Ending, Prev, Base, Holding, Follows, DecoderInv
  <2>3. DecoderInv'
    BY <1>17, Units DEF Cleanup, VideoInv, VideoTypeOK, DecoderInv, Base, Holding, Follows
  <2>4. PhaseInv'
    BY <1>17, Units DEF Cleanup, VideoInv, VideoTypeOK, PhaseInv
  <2>5. BufferInv'
    BY <1>17, Units DEF Cleanup, VideoInv, VideoTypeOK, BufferInv, Newest, DecoderInv, Holding, Base, Buffer, Frame,
       PhaseInv
  <2> QED
    BY <2>1, <2>2, <2>3, <2>4, <2>5 DEF VideoInv
<1>18. CASE UNCHANGED videoVars
  BY <1>18 DEF videoVars, VideoInv, VideoTypeOK, QueueInv, Ending, Prev, Base, Holding, DecoderInv, PhaseInv,
               BufferInv, Newest
<1> QED
  BY <1>1, <1>2, <1>3, <1>4, <1>5, <1>6, <1>7, <1>8, <1>9, <1>10, <1>11, <1>12, <1>13, <1>14, <1>15, <1>16,
     <1>17, <1>18 DEF VideoNext, Depacketizer, DecoderThread, Renderer, Down

\* Units, decoder and buffers agree in every state, for any number of units.
THEOREM VideoCorrect == VideoSpec => []VideoInv
<1> QED
  BY InitInv, StepInv, PTL DEF VideoSpec

\* The video path keeps its types.
THEOREM TypeCorrect == VideoSpec => []VideoTypeOK
<1>1. VideoInv => VideoTypeOK
  BY DEF VideoInv
<1> QED
  BY <1>1, VideoCorrect, PTL

\* Every unit handed to the decoder is given back.
THEOREM NoUnitLeaks == VideoSpec => []UnitsGivenBack
<1>1. VideoInv => UnitsGivenBack
  BY DEF VideoInv, DecoderInv, UnitsGivenBack
<1> QED
  BY <1>1, VideoCorrect, PTL

\* No unit is decoded without the one it refers to.
THEOREM ReferencesAreThere == VideoSpec => []ReferencesHold
<1>1. VideoInv => ReferencesHold
  <2> SUFFICES ASSUME VideoInv, decoder = "decode", ~ unit.idr
               PROVE  reference = unit.number - 1
    BY DEF ReferencesHold
  <2>1. unit.number = reference + 1 /\ reference \in Nat
    BY DEF VideoInv, VideoTypeOK, DecoderInv, Follows, Frame
  <2> QED
    BY <2>1
<1> QED
  BY <1>1, VideoCorrect, PTL

\* The decoder never writes the buffer the renderer presents.
THEOREM BuffersAreApart == VideoSpec => []BuffersApart
<1>1. VideoInv => BuffersApart
  BY DEF VideoInv, BufferInv, BuffersApart
<1> QED
  BY <1>1, VideoCorrect, PTL

\* The version counters tell exactly whether a newer frame waits.
THEOREM VersionsTellNewer == VideoSpec => []UnrenderedIsNewer
<1>1. VideoInv => UnrenderedIsNewer
  BY DEF VideoInv, BufferInv, UnrenderedIsNewer, HasUnrendered
<1> QED
  BY <1>1, VideoCorrect, PTL

\* The screen never goes back to an older frame.
THEOREM ScreenGoesForward == VideoSpec => ShownForward
<1>1. VideoInv /\ [VideoNext]_videoVars => [phase # "down" => shown' >= shown]_videoVars
  <2> SUFFICES ASSUME VideoInv, VideoNext, phase # "down"
               PROVE  shown' >= shown
    BY DEF videoVars
  <2>1. shown \in Nat /\ content[front] \in Nat /\ shown <= content[front]
    BY DEF VideoInv, VideoTypeOK, BufferInv, Frame
  <2>2. shown' = shown \/ shown' = content[front]
    BY DEF VideoNext, Depacketizer, DecoderThread, Renderer, Down, videoVars, Receive, Lose, CheckStop, Wait,
           Got, DropForNewer, Prepare, Decode, Copy, Swap, Mark, Look, Take, Present, Started,
           StopDecoder, Cleanup
  <2> QED
    BY <2>1, <2>2
<1> QED
  BY <1>1, VideoCorrect, PTL DEF VideoSpec, ShownForward
-----------------------------------------------------------------------------
(* The session.                                                            *)

\* The invariant of a session holds at first.
LEMMA SessionInit ==
    Init => SessionInv
<1> SUFFICES ASSUME Init PROVE SessionInv
  OBVIOUS
<1> USE DEF Init
<1>1. TypeOK
  <2>1. session \in Session /\ registered \in Session /\ attempt \in 0 .. 2
    BY SessionsAssumption DEF Session
  <2> QED
    BY <2>1, Zenon DEF TypeOK, Failure
<1>2. MainInv
  BY DEF MainInv
<1>3. StartInv
  BY DEF StartInv, Waiting
<1>4. ConnectionInv
  BY DEF ConnectionInv, Live
<1>5. EndInv
  BY DEF EndInv
<1> QED
  BY <1>1, <1>2, <1>3, <1>4, <1>5 DEF SessionInv

\* Every step keeps the invariant of a session.
LEMMA SessionStep ==
    SessionInv /\ [Next]_vars => SessionInv'
<1> SUFFICES ASSUME SessionInv, [Next]_vars
             PROVE  SessionInv'
  OBVIOUS
<1> USE SessionsAssumption DEF SessionInv, TypeOK, MainInv, StartInv, ConnectionInv, EndInv, Session,
       Failure, Idle, Waiting, Live, HasConnection, StartCompleted, StreamEnds, threadVars,
       libraryVars, stateVars, setupVars
<1>1. CASE Starting
  <2>1. CASE LaunchFails
    BY <2>1 DEF LaunchFails, CloseAndReturn
  <2>2. CASE \E hasUrl \in BOOLEAN : Launch(hasUrl)
    <3>1. TypeOK'
      <4>1. session' \in Session /\ registered' \in Session /\ attempt' \in 0 .. 2
        BY <2>2 DEF Launch, Fresh
      <4> QED
        BY <2>2, <4>1, ZenonT(30) DEF Launch, Fresh
    <3>2. MainInv'
      BY <2>2 DEF Launch, Fresh
    <3>3. StartInv'
      BY <2>2 DEF Launch, Fresh
    <3>4. ConnectionInv'
      BY <2>2 DEF Launch, Fresh
    <3>5. EndInv'
      BY <2>2 DEF Launch, Fresh
    <3> QED
      BY <3>1, <3>2, <3>3, <3>4, <3>5
  <2>3. CASE CreateThread
    <3>1. TypeOK'
      BY <2>3 DEF CreateThread
    <3>2. MainInv'
      BY <2>3 DEF CreateThread
    <3>3. StartInv'
      BY <2>3 DEF CreateThread
    <3>4. ConnectionInv'
      BY <2>3 DEF CreateThread
    <3>5. EndInv'
      BY <2>3 DEF CreateThread
    <3> QED
      BY <3>1, <3>2, <3>3, <3>4, <3>5
  <2>4. CASE CreateThreadFails
    BY <2>4 DEF CreateThreadFails, CloseAndReturn
  <2>5. CASE StartingDone
    BY <2>5 DEF StartingDone
  <2>6. CASE Interrupt
    BY <2>6 DEF Interrupt
  <2>7. CASE Join
    BY <2>7 DEF Join
  <2>8. CASE Retry
    <3>1. TypeOK'
      BY <2>8 DEF Retry, ShouldRetry, Fresh
    <3>2. MainInv'
      BY <2>8 DEF Retry, ShouldRetry, Fresh
    <3>3. StartInv'
      BY <2>8 DEF Retry, ShouldRetry, Fresh
    <3>4. ConnectionInv'
      BY <2>8 DEF Retry, ShouldRetry, Fresh
    <3>5. EndInv'
      BY <2>8 DEF Retry, ShouldRetry, Fresh
    <3> QED
      BY <3>1, <3>2, <3>3, <3>4, <3>5
  <2>9. CASE GiveUp
    <3>1. TypeOK'
      <4>1. session' \in Session /\ registered' \in Session /\ attempt' \in 0 .. 2
        BY <2>9 DEF GiveUp, CloseAndReturn
      <4> QED
        BY <2>9, <4>1, ZenonT(30) DEF GiveUp, CloseAndReturn
    <3>2. MainInv'
      BY <2>9 DEF GiveUp, CloseAndReturn
    <3>3. StartInv'
      BY <2>9 DEF GiveUp, CloseAndReturn
    <3>4. ConnectionInv'
      BY <2>9 DEF GiveUp, CloseAndReturn
    <3>5. EndInv'
      BY <2>9 DEF GiveUp, CloseAndReturn
    <3> QED
      BY <3>1, <3>2, <3>3, <3>4, <3>5
  <2>10. CASE GoOn
    BY <2>10 DEF GoOn
  <2> QED
    BY <1>1, <2>1, <2>2, <2>3, <2>4, <2>5, <2>6, <2>7, <2>8, <2>9, <2>10 DEF Starting
<1>2. CASE Streaming
  <2>1. CASE CreateInputThread
    BY <2>1 DEF CreateInputThread
  <2>2. CASE LeaveLoop
    BY <2>2 DEF LeaveLoop
  <2>3. CASE JoinInput
    BY <2>3 DEF JoinInput
  <2>4. CASE Stop
    BY <2>4 DEF Stop
  <2>5. CASE Unregister
    BY <2>5 DEF Unregister
  <2>6. CASE Close
    BY <2>6 DEF Close, CloseAndReturn
  <2> QED
    BY <1>2, <2>1, <2>2, <2>3, <2>4, <2>5, <2>6 DEF Streaming
<1>3. CASE User
  <2>1. CASE Open
    BY <2>1 DEF Open
  <2>2. CASE StopWhileStarting
    BY <2>2 DEF StopWhileStarting
  <2>3. CASE StopByCombo
    BY <2>3 DEF StopByCombo
  <2> QED
    BY <1>3, <2>1, <2>2, <2>3 DEF User
<1>4. CASE StartThread
  <2>1. CASE RunStart
    BY <2>1 DEF RunStart
  <2>2. CASE \E stage \in Failure : StartFails(stage)
    <3>1. TypeOK'
      BY <2>2 DEF StartFails
    <3>2. MainInv'
      BY <2>2 DEF StartFails
    <3>3. StartInv'
      BY <2>2 DEF StartFails
    <3>4. ConnectionInv'
      BY <2>2 DEF StartFails
    <3>5. EndInv'
      BY <2>2 DEF StartFails
    <3> QED
      BY <3>1, <3>2, <3>3, <3>4, <3>5
  <2>3. CASE StartSucceeds
    BY <2>3 DEF StartSucceeds
  <2>4. CASE StartDone
    BY <2>4 DEF StartDone
  <2> QED
    BY <1>4, <2>1, <2>2, <2>3, <2>4 DEF StartThread
<1>5. CASE InputEnds
  BY <1>5 DEF InputEnds
<1>6. CASE Library
  <2>1. CASE ConnectionStarted
    BY <2>1 DEF ConnectionStarted
  <2>2. CASE ConnectionTerminated
    BY <2>2 DEF ConnectionTerminated
  <2> QED
    BY <1>6, <2>1, <2>2 DEF Library
<1>7. CASE UNCHANGED vars
  BY <1>7 DEF vars
<1> QED
  BY <1>1, <1>2, <1>3, <1>4, <1>5, <1>6, <1>7 DEF Next, Over

\* The main thread, the start and input threads, the connection and the flags
\* of the session agree in every state, for any number of sessions.
THEOREM SessionCorrect ==
    Spec => []SessionInv
<1> QED
  BY SessionInit, SessionStep, PTL DEF Spec

\* The variables of the session keep their types.
THEOREM SessionTypeCorrect ==
    Spec => []TypeOK
<1>1. SessionInv => TypeOK
  BY DEF SessionInv
<1> QED
  BY <1>1, SessionCorrect, PTL

\* Callbacks of the library reach the session that is running.
THEOREM CallbacksAreSafe ==
    Spec => []CallbacksReachSession
<1>1. SessionInv => CallbacksReachSession
  BY DEF SessionInv, ConnectionInv, CallbacksReachSession, Idle
<1> QED
  BY <1>1, SessionCorrect, PTL

\* Nothing is closed that a connection or a thread of the session uses.
THEOREM ResourcesAreHeld ==
    Spec => []ResourcesOutliveUse
<1>1. SessionInv => ResourcesOutliveUse
  BY DEF SessionInv, MainInv, StartInv, ConnectionInv, ResourcesOutliveUse,
     Idle, Waiting
<1> QED
  BY <1>1, SessionCorrect, PTL

\* The input thread runs only while the connection is open.
THEOREM InputIsSafe ==
    Spec => []InputNeedsConnection
<1>1. SessionInv => InputNeedsConnection
  BY DEF SessionInv, MainInv, ConnectionInv, InputNeedsConnection, Live,
     HasConnection
<1> QED
  BY <1>1, SessionCorrect, PTL

\* The main thread never waits for a start it has not interrupted.
THEOREM WaitIsBounded ==
    Spec => []WaitsForInterrupted
<1>1. SessionInv => WaitsForInterrupted
  BY DEF SessionInv, EndInv, WaitsForInterrupted
<1> QED
  BY <1>1, SessionCorrect, PTL

\* A stream never ends because of what an earlier attempt left behind.
THEOREM EndIsReal ==
    Spec => []EndsForAReason
<1>1. SessionInv => EndsForAReason
  BY DEF SessionInv, EndInv, ConnectionInv, EndsForAReason, StreamEnds,
     Live, HasConnection
<1> QED
  BY <1>1, SessionCorrect, PTL

\* The user's stop of a start is never followed by another attempt.
THEOREM StopHolds ==
    Spec => StopIsFinal
<1>1. SessionInv /\ [Next]_vars => [interrupted => attempt' <= attempt]_vars
  <2> SUFFICES ASSUME SessionInv, Next, interrupted
               PROVE  attempt' <= attempt
    BY DEF vars
  <2>1. attempt \in 0 .. 2 /\ ~ CreateThread
    BY DEF SessionInv, TypeOK, EndInv, MainInv, CreateThread, Idle
  <2>2. attempt' = attempt \/ attempt' = 0
    BY <2>1
       DEF Next, Starting, Streaming, User,
            StartThread, Library, Over, vars, setupVars,
           LaunchFails, Launch, CreateThreadFails, StartingDone, Interrupt,
           Join, Retry,
           GiveUp, GoOn, CreateInputThread, LeaveLoop, JoinInput,
           Stop, Unregister, Close,
           Open, StopWhileStarting, StopByCombo, RunStart, StartFails,
           StartSucceeds,
           StartDone, InputEnds, ConnectionStarted, ConnectionTerminated
  <2> QED
    BY <2>1, <2>2
<1> QED
  BY <1>1, SessionCorrect, PTL DEF Spec, StopIsFinal

-----------------------------------------------------------------------------
(* The audio path within the session.                                      *)

\* A step with audio is a step of the session.
LEMMA AudioSteps == [AudioNext]_allVars => [Next]_vars
BY DEF AudioNext, AudioThreads, OpenAudio, StartAudio, PlaySample,
   Plays, StopAudio, CloseAudio, ReadDevice,
       AskDevice, allVars

\* So the session keeps its invariant, and all that follows from it.
THEOREM AudioKeepsSession ==
    AudioSpec => []SessionInv
<1>1. AudioInit => SessionInv
  BY SessionInit DEF AudioInit
<1> QED
  BY <1>1, SessionStep, AudioSteps, PTL DEF AudioSpec

\* The invariant of the audio path holds at first.
LEMMA AudioInitInv ==
    AudioInit => AudioInv
<1> SUFFICES ASSUME AudioInit PROVE AudioInv
  OBVIOUS
<1>1. AudioTypeOK
  BY DEF AudioInit, AudioTypeOK
<1>2. 0 <= Limit + MaxSample
  BY AudioAssumption
<1> QED
  BY <1>1, <1>2 DEF AudioInit, AudioInv, DeviceInv

\* Every step keeps the invariant of the audio path.
LEMMA AudioStepInv ==
    AudioInv /\ [AudioNext]_allVars => AudioInv'
<1> SUFFICES ASSUME AudioInv, [AudioNext]_allVars PROVE AudioInv'
  OBVIOUS
<1> USE AudioAssumption DEF AudioInv, AudioTypeOK, DeviceInv, resampler, CleanUp, EmptyQueue
<1>1. CASE Next /\ AudioFollows
  <2>1. CASE LosesConnection
    BY <1>1, <2>1 DEF AudioFollows, LetGo, LosesConnection
  <2>2. CASE ~ LosesConnection /\ session' # session
    <3>3. NewBackend
      BY <1>1, <2>2 DEF AudioFollows
    <3>1. AudioTypeOK'
      BY <3>3, Zenon DEF NewBackend
    <3>2. DeviceInv'
      BY <1>1, <2>2 DEF AudioFollows, NewBackend, LosesConnection
    <3> QED BY <3>1, <3>2
  <2>3. CASE ~ LosesConnection /\ session' = session
    BY <1>1, <2>3 DEF AudioFollows, audioVars, LosesConnection
  <2> QED
    BY <2>1, <2>2, <2>3
<1>2. CASE OpenAudio
  <2>1. AudioTypeOK'
    BY <1>2 DEF OpenAudio, vars, libraryVars
  <2>2. DeviceInv'
    BY <1>2 DEF OpenAudio, vars, libraryVars
  <2> QED BY <2>1, <2>2
<1>3. CASE StartAudio
  <2>1. UNCHANGED <<enabled, connection, context, known, asked>>
    BY <1>3, Zenon DEF StartAudio, vars, libraryVars
  <2>2. stream' = "running" /\ stream = "ready" /\ connection # "down"
    BY <1>3 DEF StartAudio
  <2>3. ASSUME device = "closed" PROVE AudioInv'
    <3>1. UNCHANGED <<device, queued, held>>
      BY <1>3, <2>3, Zenon DEF StartAudio
    <3> QED BY <2>1, <2>2, <2>3, <3>1
  <2>4. ASSUME device # "closed" PROVE AudioInv'
    <3>1. device' = "playing" /\ queued' = 0 /\ held' \in BOOLEAN /\ ~ held'
      BY <1>3, <2>4, Zenon DEF StartAudio
    <3> QED BY <2>1, <2>2, <2>4, <3>1
  <2> QED BY <2>3, <2>4
<1>4. ASSUME NEW format \in Format, NEW length \in 0 .. MaxSample, PlaySample(format, length)
      PROVE  AudioInv'
  <2>1. context' \in Format \cup {"none", "raw"} /\ known' \in Format \cup {NoFormat}
    BY <1>4 DEF PlaySample, EnsureResampler
  <2>2. queued' \in Nat /\ queued' <= Limit + MaxSample
    BY <1>4 DEF PlaySample, QueuedAfter
  <2>3. held' \in BOOLEAN /\ (held' => device = "paused")
        /\ (queued' > 0 /\ device = "paused" => held')
    BY <1>4, <2>2 DEF PlaySample
  <2> QED
    BY <1>4, <2>1, <2>2, <2>3 DEF PlaySample, vars, libraryVars
<1>5. CASE Plays
  BY <1>5 DEF Plays, vars, libraryVars
<1>6. CASE ReadDevice \/ AskDevice
  <2>1. AudioTypeOK'
    BY <1>6 DEF ReadDevice, AskDevice, vars, libraryVars
  <2>2. DeviceInv'
    BY <1>6 DEF ReadDevice, AskDevice, vars, libraryVars
  <2> QED BY <2>1, <2>2
<1>8. CASE StopAudio
  <2>1. UNCHANGED <<enabled, connection, context, known, queued, asked>>
    BY <1>8, Zenon DEF StopAudio, vars, libraryVars
  <2>2. stream' = "stopped" /\ stream \in {"ready", "running"} /\ connection # "down"
    BY <1>8 DEF StopAudio, TakenDown
  <2>3. ASSUME device = "closed" PROVE AudioInv'
    <3>1. UNCHANGED <<device, held>>
      BY <1>8, <2>3, Zenon DEF StopAudio
    <3> QED BY <2>1, <2>2, <2>3, <3>1
  <2>4. ASSUME device # "closed" PROVE AudioInv'
    <3>1. device' = "paused" /\ (held' <=> queued > 0)
      BY <1>8, <2>4 DEF StopAudio
    <3>2. held' \in BOOLEAN
      BY <1>8, <2>4 DEF StopAudio
    <3> QED BY <2>1, <2>2, <2>4, <3>1, <3>2
  <2> QED BY <2>3, <2>4
<1>9. CASE CloseAudio
  <2>1. AudioTypeOK'
    BY <1>9 DEF CloseAudio, vars, libraryVars
  <2>2. DeviceInv'
    BY <1>9 DEF CloseAudio, vars, libraryVars
  <2> QED BY <2>1, <2>2
<1>7. CASE UNCHANGED allVars
  BY <1>7 DEF allVars, vars, libraryVars, audioVars
<1> QED
  BY <1>1, <1>2, <1>3, <1>4, <1>5, <1>6, <1>7, <1>8, <1>9 DEF AudioNext, AudioThreads

\* For any limit, samples and formats, the queue holds at most the limit and
\* one sample, of a connection that is there, while sound is on and the device
\* is open; and a device that plays has nothing in it from before it was
\* started or from before a pause.
THEOREM SoundIsCurrent ==
    AudioSpec => []SoundIsOfNow
<1>1. AudioInv => SoundIsOfNow
  BY DEF AudioInv, AudioTypeOK, DeviceInv, SoundIsOfNow
<1> QED
  BY <1>1, AudioInitInv, AudioStepInv, PTL DEF AudioSpec
=============================================================================
