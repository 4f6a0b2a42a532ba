-------------------------- MODULE ClientPumpsProofs --------------------------
(* Theorems about ClientPumps, for every capacity, number of frames and set *)
(* of messages.                                                             *)
EXTENDS ClientPumps, SequenceTheorems, TLAPS

(***************************************************************************)
(* The inductive invariant: where each frame and each message is.          *)
(***************************************************************************)

\* The frames that have left the inbox: forwarded, or held by the sender.
Taken == Len(forwarded) + (IF hand = 0 THEN 0 ELSE 1)

\* While the sender runs, frame n is the n-th of those forwarded, the one it
\* holds, those in the inbox and the one the reader holds, in this order.
InInv ==
    /\ reader = "put" => frames > 0
    /\ sender # "run" => hand = 0
    /\ sender = "run" =>
         /\ \A n \in 1 .. Len(forwarded) : forwarded[n] = n
         /\ hand # 0 => hand = Len(forwarded) + 1
         /\ \A n \in 1 .. Len(inbox) : inbox[n] = Taken + n
         /\ frames = Taken + Len(inbox) + (IF reader = "put" THEN 1 ELSE 0)

\* While the writer runs, the accepted messages are those on the wire, those
\* of the batch and those in the outbox, in this order.
OutInv ==
    /\ writer \in {"select", "batch"} => accepted = (wire \o batch) \o outbox
    /\ writer = "select" => batch = <<>>
    /\ writer = "batch" => batch # <<>> /\ queued <= Len(outbox)
    /\ writer = "drained" => wire = accepted /\ WriteClosed

IInv == TypeOK /\ InInv /\ OutInv

-----------------------------------------------------------------------------

\* A session starts with empty channels and no frame read.
LEMMA InitIInv == Init => IInv
<1>. SUFFICES ASSUME Init PROVE IInv
  OBVIOUS
<1>. USE PumpsAssumption DEF Init
<1>1. TypeOK
  BY DEF TypeOK, Frame
<1>2. InInv
  BY DEF InInv, Taken
<1>3. OutInv
  <2>1. (<<>> \o <<>>) \o <<>> = <<>>
    BY ConcatEmptySeq, EmptySeq
  <2>. QED
    BY <2>1 DEF OutInv
<1>. QED
  BY <1>1, <1>2, <1>3 DEF IInv

\* Every step keeps the types and the capacity of both channels.
LEMMA TypeStep == IInv /\ [Next]_vars => TypeOK'
<1>. SUFFICES ASSUME IInv, [Next]_vars PROVE TypeOK'
  OBVIOUS
<1>. USE PumpsAssumption DEF IInv, TypeOK, inVars, outVars, Frame
<1>1. CASE Reader
  <2>1. CASE ReadFrame
    BY <2>1 DEF ReadFrame
  <2>2. CASE ReaderPut
    BY <2>2 DEF ReaderPut, InInv
  <2>3. CASE ReaderPanic
    BY <2>3 DEF ReaderPanic
  <2>4. CASE ReadFails
    BY <2>4 DEF ReadFails
  <2>5. CASE ReadRefused
    BY <2>5 DEF ReadRefused
  <2>. QED
    BY <1>1, <2>1, <2>2, <2>3, <2>4, <2>5 DEF Reader
<1>2. CASE Closer \/ LoginCloses \/ PeerGone
  BY <1>2 DEF Closer, ReaderCloses, CloseWriteChannel, CloseReadChannel, CloseConn,
              LoginCloses, PeerGone
<1>3. CASE SenderTake
  <2>1. /\ Head(inbox) \in Frame /\ Tail(inbox) \in Seq(Frame)
        /\ Len(Tail(inbox)) = Len(inbox) - 1
    BY <1>3, HeadTailProperties DEF SenderTake
  <2>. QED
    BY <1>3, <2>1 DEF SenderTake
<1>4. CASE SenderSend
  BY <1>4 DEF SenderSend
<1>5. CASE SenderEnd
  BY <1>5 DEF SenderEnd
<1>6. ASSUME NEW m \in Posts, Poster(m) PROVE TypeOK'
  <2>1. CASE PostStart(m)
    BY <2>1 DEF PostStart
  <2>2. CASE PostPut(m)
    BY <2>2 DEF PostPut
  <2>3. CASE PostPanic(m)
    BY <2>3 DEF PostPanic
  <2>. QED
    BY <1>6, <2>1, <2>2, <2>3 DEF Poster
<1>7. CASE WriterTake \/ WriterTakeFails \/ WriterJoin
  <2>1. outbox # <<>>
    BY <1>7 DEF WriterTake, WriterTakeFails, WriterJoin, OutInv
  <2>2. /\ Head(outbox) \in Posts /\ Tail(outbox) \in Seq(Posts)
        /\ Len(Tail(outbox)) = Len(outbox) - 1 /\ Len(outbox) \in Nat \ {0}
    BY <2>1, HeadTailProperties
  <2>3. CASE WriterTake
    <3>1. <<Head(outbox)>> \in Seq(Posts) /\ Len(outbox) - 1 \in 0 .. BufSize
      BY <2>2
    <3>. QED
      BY <2>2, <2>3, <3>1 DEF WriterTake
  <2>4. CASE WriterTakeFails
    BY <2>2, <2>4 DEF WriterTakeFails
  <2>5. CASE WriterJoin
    <3>1. Append(batch, Head(outbox)) \in Seq(Posts)
      BY <2>2
    <3>. QED
      BY <2>2, <2>5, <3>1 DEF WriterJoin
  <2>. QED
    BY <1>7, <2>3, <2>4, <2>5
<1>8. CASE WriterFlush
  <2>1. wire \o batch \in Seq(Posts)
    BY ConcatProperties
  <2>. QED
    BY <1>8, <2>1 DEF WriterFlush
<1>9. CASE WriterFlushFails \/ PingFails \/ WriterEnd
  BY <1>9 DEF WriterFlushFails, PingFails, WriterEnd
<1>10. CASE UNCHANGED vars
  BY <1>10 DEF vars
<1>. QED
  BY <1>1, <1>2, <1>3, <1>4, <1>5, <1>6, <1>7, <1>8, <1>9, <1>10
     DEF Next, Sender, Writer

-----------------------------------------------------------------------------
(* InInv: the frames. *)

\* The inbound half is left alone, but for a reader that holds no frame.
LEMMA InSame ==
    ASSUME InInv, UNCHANGED <<frames, inbox, sender, hand, forwarded>>,
           reader' = "put" <=> reader = "put"
    PROVE  InInv'
BY DEF InInv, Taken

\* Every step of the reader and of the sender keeps the frames in order.
LEMMA InStep == IInv /\ [Next]_vars => InInv'
<1>. SUFFICES ASSUME IInv, [Next]_vars PROVE InInv'
  OBVIOUS
<1>1. /\ InInv /\ frames \in Nat /\ hand \in Nat
      /\ inbox \in Seq(Frame) /\ Len(inbox) \in Nat
      /\ forwarded \in Seq(Frame) /\ Len(forwarded) \in Nat
  BY LenProperties DEF IInv, TypeOK, Frame
<1>2. CASE ReadFrame
  <2>1. /\ reader = "read" /\ reader' = "put" /\ frames' = frames + 1
        /\ UNCHANGED <<inbox, sender, hand, forwarded>> /\ Taken' = Taken
    BY <1>2 DEF ReadFrame, Taken
  <2>2. Taken \in Nat
    BY <1>1 DEF Taken
  <2>. QED
    BY <1>1, <2>1, <2>2 DEF InInv
<1>3. CASE ReaderPut
  <2>1. /\ inbox' = Append(inbox, frames) /\ Len(inbox') = Len(inbox) + 1
        /\ \A n \in 1 .. Len(inbox) : inbox'[n] = inbox[n]
        /\ inbox'[Len(inbox) + 1] = frames
        /\ reader = "put" /\ reader' = "read"
        /\ UNCHANGED <<frames, sender, hand, forwarded>>
    BY <1>1, <1>3 DEF ReaderPut
  <2>2. CASE sender = "run"
    <3>1. frames = Taken + Len(inbox) + 1 /\ Taken \in Nat /\ Taken' = Taken
      BY <1>1, <2>1, <2>2 DEF InInv, Taken
    <3>2. ASSUME NEW n \in 1 .. Len(inbox') PROVE inbox'[n] = Taken' + n
      <4>1. CASE n = Len(inbox) + 1
        BY <1>1, <2>1, <3>1, <4>1
      <4>2. CASE n \in 1 .. Len(inbox)
        BY <1>1, <2>1, <2>2, <3>1, <4>2 DEF InInv
      <4>. QED
        BY <1>1, <2>1, <4>1, <4>2
    <3>. QED
      BY <1>1, <2>1, <3>1, <3>2 DEF InInv
  <2>. QED
    BY <1>1, <2>1, <2>2 DEF InInv
<1>4. CASE ReaderPanic \/ LoginCloses \/ PeerGone \/ Writer \/ \E m \in Posts : Poster(m)
  <2>1. UNCHANGED inVars
    BY <1>4 DEF ReaderPanic, LoginCloses, PeerGone, Writer, WriterTake, WriterTakeFails,
                WriterJoin, WriterFlush, WriterFlushFails, PingFails, WriterEnd,
                Poster, PostStart, PostPut, PostPanic
  <2>. QED
    BY <1>1, <2>1, InSame DEF inVars
<1>5. CASE ReadFails \/ ReadRefused \/ Closer
  <2>1. /\ UNCHANGED <<frames, inbox, sender, hand, forwarded>>
        /\ reader' = "put" <=> reader = "put"
    BY <1>5 DEF ReadFails, ReadRefused, Closer, ReaderCloses, CloseWriteChannel,
                CloseReadChannel, CloseConn, inVars
  <2>. QED
    BY <1>1, <2>1, InSame
<1>6. CASE SenderTake
  <2>1. /\ sender = "run" /\ hand = 0 /\ inbox # <<>> /\ inbox' = Tail(inbox)
        /\ UNCHANGED <<reader, frames, forwarded>>
    BY <1>6 DEF SenderTake
  <2>2. /\ Len(inbox) # 0 /\ Len(inbox') = Len(inbox) - 1
        /\ \A n \in 1 .. Len(inbox) - 1 : inbox'[n] = inbox[n + 1]
        /\ Head(inbox) = inbox[1]
    BY <1>1, <2>1, HeadTailProperties, EmptySeq
  <2>3. CASE Head(inbox) \in Malformed
    BY <1>1, <1>6, <2>3 DEF SenderTake, InInv
  <2>4. CASE Head(inbox) \notin Malformed
    <3>1. hand' = Head(inbox) /\ sender' = "run"
      BY <1>6, <2>1, <2>4 DEF SenderTake
    <3>2. Taken = Len(forwarded)
      BY <2>1 DEF Taken
    <3>3. hand' = Len(forwarded) + 1
      BY <1>1, <2>1, <2>2, <3>1, <3>2 DEF InInv
    <3>4. Taken' = Len(forwarded) + 1
      BY <1>1, <2>1, <3>3 DEF Taken
    <3>5. ASSUME NEW n \in 1 .. Len(inbox') PROVE inbox'[n] = Taken' + n
      <4>1. inbox'[n] = inbox[n + 1] /\ n + 1 \in 1 .. Len(inbox)
        BY <1>1, <2>2
      <4>2. \A i \in 1 .. Len(inbox) : inbox[i] = Taken + i
        BY <1>1, <2>1 DEF InInv
      <4>3. inbox[n + 1] = Taken + (n + 1) /\ n \in Nat
        BY <4>1, <4>2
      <4>. QED
        BY <1>1, <3>2, <3>4, <4>1, <4>3
    <3>6. frames = Len(forwarded) + Len(inbox) + (IF reader = "put" THEN 1 ELSE 0)
      BY <1>1, <2>1, <3>2 DEF InInv
    <3>. QED
      BY <1>1, <2>1, <2>2, <3>1, <3>3, <3>4, <3>5, <3>6 DEF InInv
  <2>. QED
    BY <2>3, <2>4
<1>7. CASE SenderSend
  <2>1. /\ sender = "run" /\ hand = Len(forwarded) + 1 /\ Taken = Len(forwarded) + 1
    BY <1>1, <1>7 DEF SenderSend, InInv, Taken
  <2>2. /\ forwarded' = Append(forwarded, hand) /\ hand' = 0
        /\ Len(forwarded') = Len(forwarded) + 1
        /\ \A n \in 1 .. Len(forwarded) : forwarded'[n] = forwarded[n]
        /\ forwarded'[Len(forwarded) + 1] = hand
        /\ UNCHANGED <<reader, frames, inbox, sender>>
    BY <1>1, <1>7 DEF SenderSend
  <2>3. ASSUME NEW n \in 1 .. Len(forwarded') PROVE forwarded'[n] = n
    <3>1. CASE n = Len(forwarded) + 1
      BY <2>1, <2>2, <3>1
    <3>2. CASE n \in 1 .. Len(forwarded)
      BY <1>1, <2>1, <2>2, <3>2 DEF InInv
    <3>. QED
      BY <1>1, <2>2, <3>1, <3>2
  <2>4. Taken' = Taken
    BY <1>1, <2>1, <2>2 DEF Taken
  <2>. QED
    BY <1>1, <2>1, <2>2, <2>3, <2>4 DEF InInv
<1>8. CASE SenderEnd
  BY <1>1, <1>8 DEF SenderEnd, InInv
<1>9. CASE UNCHANGED vars
  BY <1>1, <1>9, InSame DEF vars
<1>. QED
  BY <1>2, <1>3, <1>4, <1>5, <1>6, <1>7, <1>8, <1>9 DEF Next, Reader, Sender

-----------------------------------------------------------------------------
(* OutInv: the messages. *)

\* A channel that is not empty is its first message and the rest.
LEMMA FirstAndRest ==
    ASSUME NEW S, NEW s \in Seq(S), s # <<>>
    PROVE  s = <<Head(s)>> \o Tail(s)
<1>1. Len(s) \in Nat \ {0}
  BY EmptySeq
<1>2. SubSeq(s, 1, Len(s)) = <<s[1]>> \o SubSeq(s, 2, Len(s))
  BY <1>1, SubSeqRecursiveFirst
<1>. QED
  BY <1>2, SubSeqFull, TailIsSubSeq

\* The outbound half is left alone, and a closed channel stays closed.
LEMMA OutSame ==
    ASSUME OutInv, WriteClosed => WriteClosed',
           UNCHANGED <<accepted, outbox, writer, batch, queued, wire>>
    PROVE  OutInv'
BY DEF OutInv

\* No step opens WriteChannel again.
LEMMA StaysClosed == [Next]_vars /\ WriteClosed => WriteClosed'
BY DEF Next, vars, Reader, ReadFrame, ReaderPut, ReaderPanic, ReadFails, ReadRefused,
       Closer, ReaderCloses, CloseWriteChannel, CloseReadChannel, CloseConn,
       LoginCloses, PeerGone, Sender, SenderTake, SenderSend, SenderEnd, Writer,
       WriterTake, WriterTakeFails, WriterJoin, WriterFlush, WriterFlushFails,
       PingFails, WriterEnd, Poster, PostStart, PostPut, PostPanic, WriteClosed

\* Every step of the posters and of writePump keeps the messages in order.
LEMMA OutStep == IInv /\ [Next]_vars => OutInv'
<1>. SUFFICES ASSUME IInv, [Next]_vars PROVE OutInv'
  OBVIOUS
<1>1. /\ OutInv
      /\ WriteClosed => WriteClosed'
      /\ accepted \in Seq(Posts) /\ outbox \in Seq(Posts)
      /\ batch \in Seq(Posts) /\ wire \in Seq(Posts) /\ queued \in Nat
      /\ Len(outbox) \in Nat /\ wire \o batch \in Seq(Posts)
  BY StaysClosed, LenProperties, ConcatProperties, PumpsAssumption DEF IInv, TypeOK
<1>0. \A s, t, u \in Seq(Posts) : (s \o t) \o u = s \o (t \o u)
  BY ConcatAssociative
<1>2. CASE Reader \/ Closer \/ LoginCloses \/ PeerGone \/ Sender \/ UNCHANGED vars
  <2>1. UNCHANGED <<accepted, outbox, writer, batch, queued, wire>>
    BY <1>2 DEF Reader, ReadFrame, ReaderPut, ReaderPanic, ReadFails, ReadRefused,
                Closer, ReaderCloses, CloseWriteChannel, CloseReadChannel, CloseConn,
                LoginCloses, PeerGone, Sender, SenderTake, SenderSend, SenderEnd,
                vars, outVars
  <2>. QED
    BY <1>1, <2>1, OutSame
<1>3. ASSUME NEW m \in Posts, Poster(m) PROVE OutInv'
  <2>1. CASE PostStart(m) \/ PostPanic(m)
    <3>1. UNCHANGED <<accepted, outbox, writer, batch, queued, wire>>
      BY <2>1 DEF PostStart, PostPanic, outVars
    <3>. QED
      BY <1>1, <3>1, OutSame
  <2>2. CASE PostPut(m)
    <3>1. /\ accepted' = accepted \o <<m>> /\ outbox' = outbox \o <<m>>
          /\ Len(outbox') = Len(outbox) + 1 /\ <<m>> \in Seq(Posts)
      BY <1>1, <2>2, AppendIsConcat, AppendProperties DEF PostPut
    <3>2. ((wire \o batch) \o outbox) \o <<m>> = (wire \o batch) \o (outbox \o <<m>>)
      <4>1. wire \o batch \in Seq(Posts) /\ outbox \in Seq(Posts) /\ <<m>> \in Seq(Posts)
        BY <1>1, <3>1, Zenon
      <4>. QED
        BY <1>0, <4>1, Zenon
    <3>3. ~WriteClosed /\ UNCHANGED <<writer, batch, queued, wire>>
      BY <2>2 DEF PostPut
    <3>4. writer \in {"select", "batch"} => accepted' = (wire' \o batch') \o outbox'
      BY <1>1, <3>1, <3>2, <3>3, Zenon DEF OutInv
    <3>5. writer = "batch" => queued' <= Len(outbox')
      BY <1>1, <3>1, <3>3 DEF OutInv
    <3>. QED
      BY <1>1, <3>3, <3>4, <3>5 DEF OutInv
  <2>. QED
    BY <1>3, <2>1, <2>2 DEF Poster
<1>4. CASE WriterTake
  <2> DEFINE h == Head(outbox)
             t == Tail(outbox)
  <2>1. /\ batch = <<>> /\ accepted = (wire \o <<>>) \o outbox /\ outbox # <<>>
    BY <1>1, <1>4 DEF WriterTake, OutInv
  <2>2. h \in Posts /\ t \in Seq(Posts) /\ Len(t) = Len(outbox) - 1 /\ <<h>> \in Seq(Posts)
    BY <1>1, <2>1, HeadTailProperties
  <2>3. accepted = wire \o (<<h>> \o t)
    <3>1. wire \o <<>> = wire
      BY <1>1, ConcatEmptySeq, Zenon
    <3>2. outbox = <<h>> \o t
      BY <1>1, <2>1, FirstAndRest, Zenon
    <3>. QED
      BY <2>1, <3>1, <3>2, Zenon
  <2>4. accepted = (wire \o <<h>>) \o t
    <3>1. wire \in Seq(Posts) /\ <<h>> \in Seq(Posts) /\ t \in Seq(Posts)
      BY <1>1, <2>2
    <3>. HIDE DEF h, t
    <3>2. (wire \o <<h>>) \o t = wire \o (<<h>> \o t)
      BY <1>0, <3>1, Zenon
    <3>. QED
      BY <2>3, <3>2, Zenon
  <2>5. /\ accepted' = accepted /\ wire' = wire /\ batch' = <<h>> /\ outbox' = t
        /\ queued' = Len(outbox) - 1 /\ writer' = "batch"
    BY <1>4 DEF WriterTake
  <2>. QED
    BY <2>2, <2>4, <2>5 DEF OutInv
<1>5. CASE WriterJoin
  <2> DEFINE h == Head(outbox)
             t == Tail(outbox)
  <2>1. /\ accepted = (wire \o batch) \o outbox /\ queued <= Len(outbox) /\ queued > 0
    BY <1>1, <1>5 DEF WriterJoin, OutInv
  <2>2. outbox # <<>>
    BY <1>1, <2>1
  <2>3. h \in Posts /\ t \in Seq(Posts) /\ Len(t) = Len(outbox) - 1 /\ <<h>> \in Seq(Posts)
    BY <1>1, <2>2, HeadTailProperties
  <2>4. accepted = (wire \o batch) \o (<<h>> \o t)
    <3>1. outbox = <<h>> \o t
      BY <1>1, <2>2, FirstAndRest, Zenon
    <3>. QED
      BY <2>1, <3>1, Zenon
  <2>5. accepted = ((wire \o batch) \o <<h>>) \o t
    <3>1. wire \o batch \in Seq(Posts) /\ <<h>> \in Seq(Posts) /\ t \in Seq(Posts)
      BY <1>1, <2>3, Zenon
    <3>. HIDE DEF h, t
    <3>2. ((wire \o batch) \o <<h>>) \o t = (wire \o batch) \o (<<h>> \o t)
      BY <1>0, <3>1, Zenon
    <3>. QED
      BY <2>4, <3>2, Zenon
  <2>6. (wire \o batch) \o <<h>> = wire \o (batch \o <<h>>)
    <3>1. wire \in Seq(Posts) /\ batch \in Seq(Posts) /\ <<h>> \in Seq(Posts)
      BY <1>1, <2>3, Zenon
    <3>. HIDE DEF h
    <3>. QED
      BY <1>0, <3>1, Zenon
  <2>7. batch' = batch \o <<h>> /\ batch' # <<>>
    BY <1>1, <1>5, <2>3, AppendIsConcat, AppendProperties DEF WriterJoin
  <2>8. /\ accepted' = accepted /\ wire' = wire /\ outbox' = t
        /\ queued' = queued - 1 /\ writer' = "batch"
    BY <1>5 DEF WriterJoin
  <2>9. accepted' = (wire' \o batch') \o outbox'
    BY <2>5, <2>6, <2>7, <2>8, Zenon
  <2>10. queued' <= Len(outbox')
    BY <1>1, <2>1, <2>3, <2>8
  <2>. QED
    BY <2>7, <2>8, <2>9, <2>10 DEF OutInv
<1>6. CASE WriterFlush
  <2>1. accepted = (wire \o batch) \o outbox
    BY <1>1, <1>6 DEF WriterFlush, OutInv
  <2>2. (wire \o batch) \o <<>> = wire \o batch
    BY <1>1, ConcatEmptySeq
  <2>. QED
    BY <1>6, <2>1, <2>2 DEF WriterFlush, OutInv
<1>7. CASE WriterTakeFails \/ WriterFlushFails \/ PingFails
  BY <1>7 DEF WriterTakeFails, WriterFlushFails, PingFails, OutInv
<1>8. CASE WriterEnd
  <2>1. batch = <<>> /\ outbox = <<>> /\ accepted = (wire \o <<>>) \o <<>>
    BY <1>1, <1>8 DEF WriterEnd, OutInv
  <2>2. accepted = wire
    BY <1>1, <2>1, ConcatEmptySeq
  <2>. QED
    BY <1>1, <1>8, <2>2 DEF WriterEnd, OutInv
<1>. QED
  BY <1>2, <1>3, <1>4, <1>5, <1>6, <1>7, <1>8 DEF Next, Writer

-----------------------------------------------------------------------------
(* The theorems. *)

\* The invariant that carries all of them.
THEOREM Inductive == Spec => []IInv
<1>1. IInv /\ [Next]_vars => IInv'
  BY TypeStep, InStep, OutStep DEF IInv
<1>. QED
  BY InitIInv, <1>1, PTL DEF Spec

\* Both channels stay within their capacity and every variable keeps its
\* type, for every capacity, number of frames and set of messages.
THEOREM TypeCorrect == Spec => []TypeOK
<1>1. IInv => TypeOK
  BY DEF IInv
<1>. QED
  BY Inductive, <1>1, PTL

\* client.go:133-137: a writePump that leaves because its channel was closed
\* has written everything the channel had accepted.
THEOREM Drained == Spec => []ClosedAfterDrain
<1>1. IInv => ClosedAfterDrain
  BY DEF IInv, OutInv, ClosedAfterDrain
<1>. QED
  BY Inductive, <1>1, PTL

-----------------------------------------------------------------------------
(* The session implements a pipe in each direction. *)

\* The frames read so far, as a sequence of length frames.
LEMMA FramesRead ==
    ASSUME NEW k \in Nat, k <= MaxFrames
    PROVE  /\ [n \in 1 .. k |-> n] \in Seq(Frame)
           /\ Len([n \in 1 .. k |-> n]) = k
           /\ \A i \in 1 .. k : [n \in 1 .. k |-> n][i] = i
<1>1. [n \in 1 .. k |-> n] \in [1 .. k -> Frame]
  BY PumpsAssumption DEF Frame
<1>2. [n \in 1 .. k |-> n] \in Seq(Frame)
  BY <1>1, SeqDef
<1>3. DOMAIN [n \in 1 .. k |-> n] = 1 .. k
  OBVIOUS
<1>. QED
  BY <1>2, <1>3, LenProperties

\* The first m elements of a sequence.
LEMMA Prefix ==
    ASSUME NEW S, NEW s \in Seq(S), NEW m \in Nat, m <= Len(s)
    PROVE  /\ SubSeq(s, 1, m) \in Seq(S)
           /\ Len(SubSeq(s, 1, m)) = m
           /\ \A i \in 1 .. m : SubSeq(s, 1, m)[i] = s[i]
<1>1. \A i \in 1 .. m : s[i] \in S
  BY LenProperties, ElementOfSeq
<1>. QED
  BY <1>1, SubSeqProperties

\* A step of the session is a step of the inbound pipe or leaves it alone.
LEMMA InboundStep ==
    IInv /\ IInv' /\ [Next]_vars
      => [Inbound!Accept \/ Inbound!Emit \/ Inbound!Stop]_(Inbound!pipeVars)
<1>. SUFFICES ASSUME IInv, IInv', [Next]_vars
     PROVE  [Inbound!Accept \/ Inbound!Emit \/ Inbound!Stop]_(Inbound!pipeVars)
  OBVIOUS
<1> DEFINE in(k) == [n \in 1 .. k |-> n]
<1>1. /\ InInv /\ InInv' /\ frames \in Nat /\ frames <= MaxFrames
      /\ frames' \in Nat /\ frames' <= MaxFrames
      /\ forwarded \in Seq(Frame) /\ forwarded' \in Seq(Frame)
      /\ inbox \in Seq(Frame) /\ Len(inbox) \in Nat
      /\ Len(forwarded) \in Nat /\ Len(forwarded') \in Nat
  BY LenProperties, PumpsAssumption DEF IInv, TypeOK
<1>2. CASE ReadFrame
  <2>1. frames' = frames + 1 /\ UNCHANGED <<forwarded, sender>> /\ frames + 1 \in Frame
    BY <1>1, <1>2, PumpsAssumption DEF ReadFrame, Frame
  <2>2. /\ Append(in(frames), frames + 1) \in Seq(Frame)
        /\ Len(Append(in(frames), frames + 1)) = frames + 1
        /\ \A i \in 1 .. frames : Append(in(frames), frames + 1)[i] = i
        /\ Append(in(frames), frames + 1)[frames + 1] = frames + 1
    BY <1>1, <2>1, FramesRead, AppendProperties
  <2>3. \A i \in 1 .. frames + 1 : Append(in(frames), frames + 1)[i] = i
    BY <1>1, <2>2
  <2>4. in(frames + 1) = Append(in(frames), frames + 1)
    BY <1>1, <2>1, <2>2, <2>3, FramesRead, SeqEqual
  <2>5. Inbound!Accept
    BY <2>1, <2>4 DEF Inbound!Accept
  <2>. QED
    BY <2>5
<1>3. CASE SenderSend
  <2>1. /\ sender = "run" /\ hand = Len(forwarded) + 1
        /\ Len(forwarded) + 1 <= frames
        /\ Len(forwarded') = Len(forwarded) + 1
        /\ UNCHANGED <<frames, sender>>
    BY <1>1, <1>3 DEF SenderSend, InInv, Taken
  <2>2. \A i \in 1 .. Len(forwarded) + 1 : forwarded'[i] = i
    BY <1>1, <2>1 DEF InInv
  <2> DEFINE m == Len(forwarded) + 1
  <2>3. in(frames) \in Seq(Frame) /\ Len(in(frames)) = frames
    BY <1>1, FramesRead
  <2>4. /\ SubSeq(in(frames), 1, m) \in Seq(Frame)
        /\ Len(SubSeq(in(frames), 1, m)) = m
        /\ \A i \in 1 .. m : SubSeq(in(frames), 1, m)[i] = in(frames)[i]
    <3>. m \in Nat /\ m <= frames
      BY <1>1, <2>1
    <3>. HIDE DEF m, in
    <3>. QED
      BY <2>3, Prefix
  <2>5. \A i \in 1 .. m : SubSeq(in(frames), 1, m)[i] = i
    BY <1>1, <2>1, <2>4
  <2>6. forwarded' = SubSeq(in(frames), 1, m)
    BY <1>1, <2>1, <2>2, <2>4, <2>5, SeqEqual
  <2>7. m \in Len(forwarded) + 1 .. Len(in(frames))
    BY <1>1, <2>1, FramesRead
  <2>8. Inbound!Emit
    BY <2>1, <2>6, <2>7 DEF Inbound!Emit
  <2>. QED
    BY <2>8
<1>4. CASE SenderTake \/ SenderEnd
  <2>1. sender = "run" /\ UNCHANGED <<frames, forwarded>>
    BY <1>4 DEF SenderTake, SenderEnd
  <2>2. CASE sender' = "run"
    BY <2>1, <2>2 DEF Inbound!pipeVars
  <2>3. CASE sender' # "run"
    <3>1. Inbound!Stop
      BY <2>1, <2>3 DEF Inbound!Stop
    <3>. QED
      BY <3>1
  <2>. QED
    BY <2>2, <2>3
<1>5. CASE ReaderPut \/ ReaderPanic \/ ReadFails \/ ReadRefused \/ Closer
           \/ LoginCloses \/ PeerGone \/ Writer \/ (\E m \in Posts : Poster(m))
           \/ UNCHANGED vars
  <2>1. UNCHANGED <<frames, forwarded, sender>>
    BY <1>5 DEF ReaderPut, ReaderPanic, ReadFails, ReadRefused, Closer, ReaderCloses,
                CloseWriteChannel, CloseReadChannel, CloseConn, LoginCloses, PeerGone,
                Writer, WriterTake, WriterTakeFails, WriterJoin, WriterFlush,
                WriterFlushFails, PingFails, WriterEnd, Poster, PostStart, PostPut,
                PostPanic, inVars, vars
  <2>. QED
    BY <2>1 DEF Inbound!pipeVars
<1>. QED
  BY <1>2, <1>3, <1>4, <1>5 DEF Next, Reader, Sender

\* A step of the session is a step of the outbound pipe or leaves it alone.
LEMMA OutboundStep ==
    IInv /\ [Next]_vars
      => [Outbound!Accept \/ Outbound!Emit \/ Outbound!Stop]_(Outbound!pipeVars)
<1>. SUFFICES ASSUME IInv, [Next]_vars
     PROVE  [Outbound!Accept \/ Outbound!Emit \/ Outbound!Stop]_(Outbound!pipeVars)
  OBVIOUS
<1>1. /\ OutInv
      /\ accepted \in Seq(Posts) /\ outbox \in Seq(Posts)
      /\ batch \in Seq(Posts) /\ wire \in Seq(Posts)
      /\ writer \in {"select", "batch", "drained", "failed"}
  BY DEF IInv, TypeOK
<1>2. ASSUME NEW m \in Posts, PostPut(m)
      PROVE  [Outbound!Accept \/ Outbound!Emit \/ Outbound!Stop]_(Outbound!pipeVars)
  <2>1. Outbound!Accept
    BY <1>2 DEF PostPut, Outbound!Accept
  <2>. QED
    BY <2>1
<1>3. CASE WriterFlush
  <2>1. /\ accepted = (wire \o batch) \o outbox /\ batch # <<>>
        /\ writer = "batch" /\ writer' = "select"
        /\ wire' = wire \o batch /\ accepted' = accepted
    BY <1>1, <1>3 DEF WriterFlush, OutInv
  <2> DEFINE n == Len(wire \o batch)
  <2>2. /\ wire \o batch \in Seq(Posts) /\ n \in Nat
        /\ Len(wire) \in Nat /\ Len(outbox) \in Nat
        /\ n \in Len(wire) + 1 .. Len(accepted) /\ n \in 1 .. n
    <3>1. /\ wire \o batch \in Seq(Posts)
          /\ Len(wire \o batch) = Len(wire) + Len(batch)
      BY <1>1, ConcatProperties
    <3>2. Len(batch) \in Nat \ {0} /\ Len(wire) \in Nat /\ Len(outbox) \in Nat
      BY <1>1, <2>1, EmptySeq, LenProperties
    <3>3. Len(accepted) = Len(wire \o batch) + Len(outbox)
      BY <1>1, <2>1, <3>1, ConcatProperties
    <3>. QED
      BY <3>1, <3>2, <3>3
  <2>3. SubSeq((wire \o batch) \o outbox, 1, n) = SubSeq(wire \o batch, 1, n)
    <3>1. \A s, t \in Seq(Posts) : \A j, k \in 1 .. Len(s) :
             SubSeq(s \o t, j, k) = SubSeq(s, j, k)
      BY SubSeqOfConcat1
    <3>2. 1 \in 1 .. n
      BY <2>2
    <3>. QED
      BY <1>1, <2>2, <3>1, <3>2, Zenon
  <2>4. SubSeq(wire \o batch, 1, n) = wire \o batch
    BY <2>2, SubSeqFull
  <2>5. wire' = SubSeq(accepted, 1, n)
    BY <2>1, <2>3, <2>4, Zenon
  <2>6. Outbound!Emit
    BY <2>1, <2>2, <2>5 DEF Outbound!Emit
  <2>. QED
    BY <2>6
<1>4. CASE WriterTakeFails \/ WriterFlushFails \/ PingFails \/ WriterEnd
  <2>1. Outbound!Stop
    BY <1>4 DEF WriterTakeFails, WriterFlushFails, PingFails, WriterEnd, Outbound!Stop
  <2>. QED
    BY <2>1
<1>5. CASE WriterTake \/ WriterJoin
  BY <1>5 DEF WriterTake, WriterJoin, Outbound!pipeVars
<1>6. CASE Reader \/ Closer \/ LoginCloses \/ PeerGone \/ Sender \/ UNCHANGED vars
  <2>1. UNCHANGED <<accepted, wire, writer>>
    BY <1>6 DEF Reader, ReadFrame, ReaderPut, ReaderPanic, ReadFails, ReadRefused,
                Closer, ReaderCloses, CloseWriteChannel, CloseReadChannel, CloseConn,
                LoginCloses, PeerGone, Sender, SenderTake, SenderSend, SenderEnd,
                outVars, vars
  <2>. QED
    BY <2>1 DEF Outbound!pipeVars
<1>7. ASSUME NEW m \in Posts, PostStart(m) \/ PostPanic(m)
      PROVE  UNCHANGED Outbound!pipeVars
  BY <1>7 DEF PostStart, PostPanic, outVars, Outbound!pipeVars
<1>. QED
  BY <1>2, <1>3, <1>4, <1>5, <1>6, <1>7 DEF Next, Writer, Poster

\* Frames reach the hub in the order they were read, none twice, none skipped,
\* up to the first that does not parse: the inbound half implements Pipe.
THEOREM ImplementsInbound == Spec => InboundPipe
<1>1. Init => Inbound!PipeInit
  <2>1. [n \in 1 .. 0 |-> n] = <<>>
    BY FramesRead, PumpsAssumption, EmptySeq
  <2>. QED
    BY <2>1 DEF Init, Inbound!PipeInit
<1>. QED
  BY <1>1, Inductive, InboundStep, PTL DEF Spec, InboundPipe, Inbound!Spec

\* Messages reach the socket in the order WriteChannel accepted them, none
\* twice, none skipped, until writePump leaves: the outbound half implements
\* Pipe.
THEOREM ImplementsOutbound == Spec => OutboundPipe
<1>1. Init => Outbound!PipeInit
  BY DEF Init, Outbound!PipeInit
<1>. QED
  BY <1>1, Inductive, OutboundStep, PTL DEF Spec, OutboundPipe, Outbound!Spec

-----------------------------------------------------------------------------
(* What becomes of every frame, also after a frame that does not parse. *)

\* The frames that have left the inbox: forwarded, held or refused by the sender.
Dealt == Len(forwarded) + (IF hand # 0 \/ sender = "malformed" THEN 1 ELSE 0)

\* Every frame read is in one place, in order, whether the sender runs or not.
FrameInv ==
    /\ \A n \in 1 .. Len(forwarded) : forwarded[n] = n /\ n \notin Malformed
    /\ hand # 0 => hand = Len(forwarded) + 1 /\ hand \notin Malformed
    /\ \A n \in 1 .. Len(inbox) : inbox[n] = Dealt + n
    /\ frames = Dealt + Len(inbox) + (IF reader = "put" THEN 1 ELSE 0)
    /\ sender = "malformed" => Len(forwarded) + 1 \in Malformed
    /\ sender = "done" => inbox = <<>> /\ ReadClosed
    /\ writer = "failed" => conn = "closed"

\* The hub got the frames before the first that does not parse, in order and
\* nothing else; a sender that gave up did so at that frame.
ForwardedUpToMalformed ==
    /\ \A n \in 1 .. Len(forwarded) : forwarded[n] = n /\ n \notin Malformed
    /\ sender = "malformed" => Len(forwarded) + 1 \in Malformed \cap (1 .. frames)

\* A sender that ended because its channel was closed has forwarded every frame
\* read, but for the one the reader may still hold.
ForwardedAfterDrain ==
    sender = "done" =>
        Len(forwarded) = frames - (IF reader = "put" THEN 1 ELSE 0)

\* A reader that waits at a full channel waits for a sender that has a frame to
\* take or to send, unless a frame read before did not parse.
BlockedReaderServed ==
    reader = "put" /\ Len(inbox) = BufSize /\ ~ReadClosed =>
        \/ sender = "run"
        \/ sender = "malformed" /\ \E n \in 1 .. frames : n \in Malformed

\* A goroutine of the hub that waits at a full WriteChannel waits for a
\* writePump that runs, unless the connection is gone.
BlockedPostServed ==
    \A m \in Posts :
        post[m] = "put" /\ Len(outbox) = BufSize /\ ~WriteClosed =>
            writer \in {"select", "batch"} \/ conn = "closed"

\* The frames stay where they are; a closed channel stays closed, a lost
\* connection stays lost.
LEMMA FrameSame ==
    ASSUME FrameInv, UNCHANGED <<frames, inbox, sender, hand, forwarded>>,
           reader' = "put" <=> reader = "put",
           ReadClosed => ReadClosed', writer' = "failed" => conn' = "closed"
    PROVE  FrameInv'
BY DEF FrameInv, Dealt

\* No step opens ReadChannel again.
LEMMA ReadStaysClosed == [Next]_vars /\ ReadClosed => ReadClosed'
BY DEF Next, vars, Reader, ReadFrame, ReaderPut, ReaderPanic, ReadFails, ReadRefused,
       Closer, ReaderCloses, CloseWriteChannel, CloseReadChannel, CloseConn,
       LoginCloses, PeerGone, Sender, SenderTake, SenderSend, SenderEnd, Writer,
       WriterTake, WriterTakeFails, WriterJoin, WriterFlush, WriterFlushFails,
       PingFails, WriterEnd, Poster, PostStart, PostPut, PostPanic, ReadClosed

\* writePump fails only once the connection is gone, which stays so.
LEMMA FailedWriter ==
    [Next]_vars /\ (writer = "failed" => conn = "closed")
      => (writer' = "failed" => conn' = "closed")
BY DEF Next, vars, Reader, ReadFrame, ReaderPut, ReaderPanic, ReadFails, ReadRefused,
       Closer, ReaderCloses, CloseWriteChannel, CloseReadChannel, CloseConn,
       LoginCloses, PeerGone, Sender, SenderTake, SenderSend, SenderEnd, Writer,
       WriterTake, WriterTakeFails, WriterJoin, WriterFlush, WriterFlushFails,
       PingFails, WriterEnd, Poster, PostStart, PostPut, PostPanic, inVars, outVars

\* Every step of the reader and of the sender keeps every frame in its place.
LEMMA FrameStep == IInv /\ FrameInv /\ [Next]_vars => FrameInv'
<1>. SUFFICES ASSUME IInv, FrameInv, [Next]_vars PROVE FrameInv'
  OBVIOUS
<1>1. /\ FrameInv /\ InInv /\ frames \in Nat /\ hand \in Nat
      /\ inbox \in Seq(Frame) /\ Len(inbox) \in Nat
      /\ forwarded \in Seq(Frame) /\ Len(forwarded) \in Nat
      /\ Dealt \in Nat
      /\ ReadClosed => ReadClosed'
      /\ writer' = "failed" => conn' = "closed"
      /\ sender \in {"run", "malformed", "done"}
  <2>1. /\ frames \in Nat /\ hand \in Nat /\ inbox \in Seq(Frame) /\ forwarded \in Seq(Frame)
        /\ sender \in {"run", "malformed", "done"} /\ InInv
    BY DEF IInv, TypeOK
  <2>2. Len(inbox) \in Nat /\ Len(forwarded) \in Nat
    BY <2>1, LenProperties
  <2>3. Dealt \in Nat
    BY <2>2 DEF Dealt
  <2>4. writer' = "failed" => conn' = "closed"
    BY FailedWriter DEF FrameInv
  <2>. QED
    BY <2>1, <2>2, <2>3, <2>4, ReadStaysClosed
<1>2. CASE ReadFrame
  <2>1. /\ reader = "read" /\ reader' = "put" /\ frames' = frames + 1
        /\ UNCHANGED <<inbox, sender, hand, forwarded>> /\ Dealt' = Dealt
    BY <1>2 DEF ReadFrame, Dealt
  <2>. QED
    BY <1>1, <2>1 DEF FrameInv
<1>3. CASE ReaderPut
  <2>1. /\ inbox' = Append(inbox, frames) /\ Len(inbox') = Len(inbox) + 1
        /\ \A n \in 1 .. Len(inbox) : inbox'[n] = inbox[n]
        /\ inbox'[Len(inbox) + 1] = frames
        /\ reader = "put" /\ reader' = "read" /\ ~ReadClosed
        /\ UNCHANGED <<frames, sender, hand, forwarded>>
    BY <1>1, <1>3 DEF ReaderPut
  <2>2. frames = Dealt + Len(inbox) + 1 /\ Dealt' = Dealt
    BY <1>1, <2>1 DEF FrameInv, Dealt
  <2>3. ASSUME NEW n \in 1 .. Len(inbox') PROVE inbox'[n] = Dealt' + n
    <3>1. CASE n = Len(inbox) + 1
      BY <1>1, <2>1, <2>2, <3>1
    <3>2. CASE n \in 1 .. Len(inbox)
      BY <1>1, <2>1, <2>2, <3>2 DEF FrameInv
    <3>. QED
      BY <1>1, <2>1, <3>1, <3>2
  <2>. QED
    BY <1>1, <2>1, <2>2, <2>3 DEF FrameInv
<1>4. CASE ReaderPanic \/ LoginCloses \/ PeerGone \/ Writer \/ \E m \in Posts : Poster(m)
  <2>1. UNCHANGED inVars
    BY <1>4 DEF ReaderPanic, LoginCloses, PeerGone, Writer, WriterTake, WriterTakeFails,
                WriterJoin, WriterFlush, WriterFlushFails, PingFails, WriterEnd,
                Poster, PostStart, PostPut, PostPanic
  <2>. QED
    BY <1>1, <2>1, FrameSame DEF inVars
<1>5. CASE ReadFails \/ ReadRefused \/ Closer
  <2>1. /\ UNCHANGED <<frames, inbox, sender, hand, forwarded>>
        /\ reader' = "put" <=> reader = "put"
    BY <1>5 DEF ReadFails, ReadRefused, Closer, ReaderCloses, CloseWriteChannel,
                CloseReadChannel, CloseConn, inVars
  <2>. QED
    BY <1>1, <2>1, FrameSame
<1>6. CASE SenderTake
  <2>1. /\ sender = "run" /\ hand = 0 /\ inbox # <<>> /\ inbox' = Tail(inbox)
        /\ UNCHANGED <<reader, frames, forwarded>>
    BY <1>6 DEF SenderTake
  <2>2. /\ Len(inbox) # 0 /\ Len(inbox') = Len(inbox) - 1
        /\ \A n \in 1 .. Len(inbox) - 1 : inbox'[n] = inbox[n + 1]
        /\ Head(inbox) = inbox[1]
    BY <1>1, <2>1, HeadTailProperties, EmptySeq
  <2>3. Dealt = Len(forwarded) /\ Head(inbox) = Len(forwarded) + 1
    BY <1>1, <2>1, <2>2 DEF FrameInv, Dealt
  <2>4. /\ sender' # "done" /\ (sender' = "malformed" => Len(forwarded) + 1 \in Malformed)
        /\ hand' # 0 => hand' = Len(forwarded) + 1 /\ hand' \notin Malformed
        /\ Dealt' = Len(forwarded) + 1
    BY <1>1, <1>6, <2>1, <2>3 DEF SenderTake, Dealt
  <2>5. ASSUME NEW n \in 1 .. Len(inbox') PROVE inbox'[n] = Dealt' + n
    <3>1. inbox'[n] = inbox[n + 1] /\ n + 1 \in 1 .. Len(inbox) /\ n \in Nat
      BY <1>1, <2>2
    <3>2. inbox[n + 1] = Dealt + (n + 1)
      BY <1>1, <3>1 DEF FrameInv
    <3>. QED
      BY <1>1, <2>3, <2>4, <3>1, <3>2
  <2>6. frames = Len(forwarded) + Len(inbox) + (IF reader = "put" THEN 1 ELSE 0)
    BY <1>1, <2>3 DEF FrameInv
  <2>7. frames' = Dealt' + Len(inbox') + (IF reader' = "put" THEN 1 ELSE 0)
    BY <1>1, <2>1, <2>2, <2>4, <2>6
  <2>. QED
    BY <1>1, <2>1, <2>4, <2>5, <2>7 DEF FrameInv
<1>7. CASE SenderSend
  <2>1. /\ sender = "run" /\ hand # 0 /\ hand = Len(forwarded) + 1 /\ hand \notin Malformed
        /\ Dealt = Len(forwarded) + 1
    BY <1>1, <1>7 DEF SenderSend, InInv, FrameInv, Dealt
  <2>2. /\ forwarded' = Append(forwarded, hand) /\ hand' = 0
        /\ Len(forwarded') = Len(forwarded) + 1
        /\ \A n \in 1 .. Len(forwarded) : forwarded'[n] = forwarded[n]
        /\ forwarded'[Len(forwarded) + 1] = hand
        /\ UNCHANGED <<reader, frames, inbox, sender>>
    BY <1>1, <1>7 DEF SenderSend
  <2>3. ASSUME NEW n \in 1 .. Len(forwarded') PROVE forwarded'[n] = n /\ n \notin Malformed
    <3>1. CASE n = Len(forwarded) + 1
      BY <2>1, <2>2, <3>1
    <3>2. CASE n \in 1 .. Len(forwarded)
      BY <1>1, <2>2, <3>2 DEF FrameInv
    <3>. QED
      BY <1>1, <2>2, <3>1, <3>2
  <2>4. Dealt' = Dealt
    BY <1>1, <2>1, <2>2 DEF Dealt
  <2>. QED
    BY <1>1, <2>1, <2>2, <2>3, <2>4 DEF FrameInv
<1>8. CASE SenderEnd
  <2>1. /\ sender = "run" /\ hand = 0 /\ inbox = <<>> /\ ReadClosed /\ sender' = "done"
        /\ UNCHANGED <<reader, frames, inbox, hand, forwarded>> /\ Dealt' = Dealt
    BY <1>8 DEF SenderEnd, Dealt
  <2>. QED
    BY <1>1, <2>1 DEF FrameInv
<1>9. CASE UNCHANGED vars
  BY <1>1, <1>9, FrameSame DEF vars
<1>. QED
  BY <1>2, <1>3, <1>4, <1>5, <1>6, <1>7, <1>8, <1>9 DEF Next, Reader, Sender

\* Every frame read is at one place in every reachable state.
THEOREM FramesInPlace == Spec => [](IInv /\ FrameInv)
<1>1. Init => FrameInv
  BY PumpsAssumption DEF Init, FrameInv, Dealt
<1>. QED
  BY Inductive, <1>1, FrameStep, PTL DEF Spec

\* A frame that does not parse is the first the hub does not get, and no later
\* one reaches it.
THEOREM UpToMalformed == Spec => []ForwardedUpToMalformed
<1>1. IInv /\ FrameInv => ForwardedUpToMalformed
  <2>. SUFFICES ASSUME IInv, FrameInv PROVE ForwardedUpToMalformed
    OBVIOUS
  <2>1. /\ Len(forwarded) \in Nat /\ Len(inbox) \in Nat
        /\ frames = Dealt + Len(inbox) + (IF reader = "put" THEN 1 ELSE 0)
    BY LenProperties DEF IInv, TypeOK, FrameInv
  <2>2. sender = "malformed" => Len(forwarded) + 1 \in 1 .. frames
    BY <2>1 DEF Dealt
  <2>. QED
    BY <2>2 DEF FrameInv, ForwardedUpToMalformed
<1>. QED
  BY FramesInPlace, <1>1, PTL

\* client.go:80-87 and 102-107: the other direction of ClosedAfterDrain.  A
\* sender that ends because ReadChannel was closed leaves no frame behind.
THEOREM InboundDrained == Spec => []ForwardedAfterDrain
<1>1. IInv /\ FrameInv => ForwardedAfterDrain
  <2>. SUFFICES ASSUME IInv, FrameInv, sender = "done"
                PROVE  Len(forwarded) = frames - (IF reader = "put" THEN 1 ELSE 0)
    BY DEF ForwardedAfterDrain
  <2>1. Len(forwarded) \in Nat /\ Len(inbox) = 0 /\ hand = 0
    BY LenProperties, EmptySeq DEF IInv, TypeOK, FrameInv, InInv
  <2>. QED
    BY <2>1 DEF FrameInv, Dealt
<1>. QED
  BY FramesInPlace, <1>1, PTL

\* While every frame parses, a reader at a full channel has a sender that takes
\* from it: only a frame that did not parse strands the reader.
THEOREM ReaderServed == Spec => []BlockedReaderServed
<1>1. IInv /\ FrameInv => BlockedReaderServed
  <2>. SUFFICES ASSUME IInv, FrameInv, ~ReadClosed, sender # "run"
                PROVE  sender = "malformed" /\ \E n \in 1 .. frames : n \in Malformed
    BY DEF BlockedReaderServed
  <2>1. sender = "malformed"
    BY DEF IInv, TypeOK, FrameInv
  <2>2. /\ Len(forwarded) \in Nat /\ Len(inbox) \in Nat /\ frames \in Nat
        /\ frames = Dealt + Len(inbox) + (IF reader = "put" THEN 1 ELSE 0)
    BY LenProperties DEF IInv, TypeOK, FrameInv
  <2>3. Len(forwarded) + 1 \in 1 .. frames /\ Len(forwarded) + 1 \in Malformed
    BY <2>1, <2>2 DEF Dealt, FrameInv
  <2>. QED
    BY <2>1, <2>3
<1>. QED
  BY FramesInPlace, <1>1, PTL

\* While the connection is there, a goroutine of the hub at a full WriteChannel
\* has a writePump that takes from it.
THEOREM PostServed == Spec => []BlockedPostServed
<1>1. IInv /\ FrameInv => BlockedPostServed
  BY DEF IInv, TypeOK, OutInv, FrameInv, BlockedPostServed
<1>. QED
  BY FramesInPlace, <1>1, PTL

=============================================================================
