---------------------------- MODULE ClientPumps ----------------------------
(***************************************************************************)
(* The pumps of one registered session and the two channels between them:  *)
(* Client.readPump -> ReadChannel -> Client.SendMessage -> the hub, and    *)
(* Hub.ReceiveMessage (one goroutine per message) -> WriteChannel ->       *)
(* Client.writePump -> the socket.  Client.ReceiveMessage, which ServeWs   *)
(* starts beside them, touches neither channel: it reads the server's      *)
(* queue and outlives the session (the consumer of MessageFlow).           *)
(*                                                                         *)
(* Client.Close is entered by the reader or by a later login; of the two   *)
(* the first gets past the handshake on ToOffline and closes the channels, *)
(* the other waits for ever (HubSessions).                                 *)
(***************************************************************************)
EXTENDS Naturals, Sequences

CONSTANTS BufSize,    \* capacity of a channel, bufSize
          MaxFrames,  \* bound: frames the peer sends
          Malformed,  \* the frames that are not a JSON message
          Posts       \* the messages the hub has for this client

ASSUME PumpsAssumption ==
    /\ BufSize \in Nat \ {0}
    /\ MaxFrames \in Nat
    /\ Malformed \subseteq 1 .. MaxFrames

VARIABLES conn,      \* "open", or "closed": reads and writes fail
          reader,    \* readPump
          frames,    \* the frames read so far; frame n is the number n
          inbox,     \* ReadChannel
          sender,    \* Client.SendMessage
          hand,      \* the frame the sender holds, or 0
          forwarded, \* what the sender gave to Hub.SendChannel
          post,      \* the hub's goroutine for a message
          accepted,  \* history: what was put into WriteChannel
          outbox,    \* WriteChannel
          writer,    \* writePump
          batch,     \* the websocket message being written
          queued,    \* how many more messages join it
          wire,      \* what the peer was sent
          closing,   \* how far the Close that got through has come
          up         \* the process runs

inVars    == <<reader, frames, inbox, sender, hand, forwarded>>
outVars   == <<post, accepted, outbox, writer, batch, queued, wire>>
vars == <<conn, reader, frames, inbox, sender, hand, forwarded, post, accepted,
          outbox, writer, batch, queued, wire, closing, up>>

Frame == 1 .. MaxFrames
WriteClosed == closing \in {"read", "conn", "done"}
ReadClosed  == closing \in {"conn", "done"}

TypeOK ==
    /\ conn \in {"open", "closed"}
    /\ reader \in {"read", "put", "close", "closing", "blocked", "done"}
    /\ frames \in 0 .. MaxFrames
    /\ inbox \in Seq(Frame) /\ Len(inbox) <= BufSize
    /\ sender \in {"run", "malformed", "done"}
    /\ hand \in 0 .. MaxFrames
    /\ forwarded \in Seq(Frame)
    /\ post \in [Posts -> {"new", "put", "done"}]
    /\ accepted \in Seq(Posts)
    /\ outbox \in Seq(Posts) /\ Len(outbox) <= BufSize
    /\ writer \in {"select", "batch", "drained", "failed"}
    /\ batch \in Seq(Posts)
    /\ queued \in 0 .. BufSize
    /\ wire \in Seq(Posts)
    /\ closing \in {"no", "write", "read", "conn", "done"}
    /\ up \in BOOLEAN

Init ==
    /\ conn = "open" /\ reader = "read" /\ frames = 0
    /\ inbox = <<>> /\ sender = "run" /\ hand = 0 /\ forwarded = <<>>
    /\ post = [m \in Posts |-> "new"] /\ accepted = <<>>
    /\ outbox = <<>> /\ writer = "select" /\ batch = <<>> /\ queued = 0
    /\ wire = <<>>
    /\ closing = "no" /\ up = TRUE

-----------------------------------------------------------------------------
(* Client.readPump.                                                         *)

ReadFrame ==
    /\ up /\ reader = "read" /\ conn = "open"
    /\ frames < MaxFrames
    /\ frames' = frames + 1
    /\ reader' = "put"
    /\ UNCHANGED <<conn, inbox, sender, hand, forwarded, outVars, closing, up>>

\* Mutant: the newest frame overtakes those that wait.
ReaderPutFirst ==
    /\ up /\ reader = "put" /\ ~ReadClosed
    /\ Len(inbox) < BufSize
    /\ inbox' = <<frames>> \o inbox
    /\ reader' = "read"
    /\ UNCHANGED <<conn, frames, sender, hand, forwarded, outVars, closing, up>>

ReaderPut ==
    /\ up /\ reader = "put" /\ ~ReadClosed
    /\ Len(inbox) < BufSize
    /\ inbox' = Append(inbox, frames)
    /\ reader' = "read"
    /\ UNCHANGED <<conn, frames, sender, hand, forwarded, outVars, closing, up>>

\* A send on a closed channel ends the process.
ReaderPanic ==
    /\ up /\ reader = "put" /\ ReadClosed
    /\ up' = FALSE
    /\ UNCHANGED <<conn, inVars, outVars, closing>>

\* Mutant: the reader returns without Close.
ReadFailsQuietly ==
    /\ up /\ reader = "read" /\ conn = "closed"
    /\ reader' = "done"
    /\ UNCHANGED <<conn, frames, inbox, sender, hand, forwarded, outVars, closing, up>>

\* ReadMessage fails: the connection is gone, or an oversized frame, a
\* protocol error or the read deadline ends it for the reader only.
ReadFails ==
    /\ up /\ reader = "read" /\ conn = "closed"
    /\ reader' = "close"
    /\ UNCHANGED <<conn, frames, inbox, sender, hand, forwarded, outVars, closing, up>>

ReadRefused ==
    /\ up /\ reader = "read" /\ conn = "open"
    /\ reader' = "close"
    /\ UNCHANGED <<conn, frames, inbox, sender, hand, forwarded, outVars, closing, up>>

PeerGone ==
    /\ conn = "open"
    /\ conn' = "closed"
    /\ UNCHANGED <<inVars, outVars, closing, up>>

-----------------------------------------------------------------------------
(* Client.Close past and before the handshake.                              *)

ReaderCloses ==
    /\ up /\ reader = "close"
    /\ IF closing = "no" THEN closing' = "write" /\ reader' = "closing"
                         ELSE reader' = "blocked" /\ UNCHANGED closing
    /\ UNCHANGED <<conn, frames, inbox, sender, hand, forwarded, outVars, up>>

LoginCloses ==
    /\ up /\ closing = "no"
    /\ closing' = "write"
    /\ UNCHANGED <<conn, inVars, outVars, up>>

CloseWriteChannel ==
    /\ up /\ closing = "write"
    /\ closing' = "read"
    /\ UNCHANGED <<conn, inVars, outVars, up>>

CloseReadChannel ==
    /\ up /\ closing = "read"
    /\ closing' = "conn"
    /\ UNCHANGED <<conn, inVars, outVars, up>>

CloseConn ==
    /\ up /\ closing = "conn"
    /\ closing' = "done"
    /\ conn' = "closed"
    /\ reader' = IF reader = "closing" THEN "done" ELSE reader
    /\ UNCHANGED <<frames, inbox, sender, hand, forwarded, outVars, up>>

-----------------------------------------------------------------------------
(* Client.SendMessage.                                                      *)

\* A frame that does not parse ends the goroutine for good.
SenderTake ==
    /\ up /\ sender = "run" /\ hand = 0 /\ inbox # <<>>
    /\ inbox' = Tail(inbox)
    /\ IF Head(inbox) \in Malformed
       THEN sender' = "malformed" /\ UNCHANGED hand
       ELSE hand' = Head(inbox) /\ UNCHANGED sender
    /\ UNCHANGED <<conn, reader, frames, forwarded, outVars, closing, up>>

\* Hub.Run takes the message; its select never waits for anybody.
SenderSend ==
    /\ up /\ hand # 0
    /\ forwarded' = Append(forwarded, hand)
    /\ hand' = 0
    /\ UNCHANGED <<conn, reader, frames, inbox, sender, outVars, closing, up>>

\* Mutant: a closed channel is logged and read again.
SenderSpins ==
    /\ up /\ sender = "run" /\ hand = 0 /\ inbox = <<>> /\ ReadClosed
    /\ UNCHANGED vars

\* The empty message of a closed channel does not parse either.
SenderEnd ==
    /\ up /\ sender = "run" /\ hand = 0 /\ inbox = <<>> /\ ReadClosed
    /\ sender' = "done"
    /\ UNCHANGED <<conn, reader, frames, inbox, hand, forwarded, outVars, closing, up>>

-----------------------------------------------------------------------------
(* Hub.ReceiveMessage's send to WriteChannel, from a goroutine per message. *)

PostStart(m) ==
    /\ up /\ post[m] = "new"
    /\ post' = [post EXCEPT ![m] = "put"]
    /\ UNCHANGED <<conn, inVars, accepted, outbox, writer, batch, queued, wire,
                   closing, up>>

\* Mutant: nothing bounds WriteChannel.
PostPutUnbounded(m) ==
    /\ up /\ post[m] = "put" /\ ~WriteClosed
    /\ outbox' = Append(outbox, m)
    /\ accepted' = Append(accepted, m)
    /\ post' = [post EXCEPT ![m] = "done"]
    /\ UNCHANGED <<conn, inVars, writer, batch, queued, wire, closing, up>>

PostPut(m) ==
    /\ up /\ post[m] = "put" /\ ~WriteClosed
    /\ Len(outbox) < BufSize
    /\ outbox' = Append(outbox, m)
    /\ accepted' = Append(accepted, m)
    /\ post' = [post EXCEPT ![m] = "done"]
    /\ UNCHANGED <<conn, inVars, writer, batch, queued, wire, closing, up>>

PostPanic(m) ==
    /\ up /\ post[m] = "put" /\ WriteClosed
    /\ up' = FALSE
    /\ UNCHANGED <<conn, inVars, outVars, closing>>

-----------------------------------------------------------------------------
(* Client.writePump.  It leaves by closing the connection.                  *)

WriterTake ==
    /\ up /\ writer = "select" /\ outbox # <<>>
    /\ outbox' = Tail(outbox)
    /\ batch' = <<Head(outbox)>>
    /\ queued' = Len(outbox) - 1
    /\ writer' = "batch"
    /\ UNCHANGED <<conn, inVars, post, accepted, wire, closing, up>>

\* NextWriter fails, which it does only after an earlier failure was seen:
\* the message that was taken is lost.
WriterTakeFails ==
    /\ up /\ writer = "select" /\ outbox # <<>>
    /\ conn = "closed"
    /\ outbox' = Tail(outbox)
    /\ writer' = "failed"
    /\ UNCHANGED <<conn, inVars, post, accepted, batch, queued, wire, closing, up>>

\* Mutant: a message that joins a batch stays in the channel.
WriterJoinCopy ==
    /\ up /\ writer = "batch" /\ queued > 0
    /\ batch' = Append(batch, Head(outbox))
    /\ queued' = queued - 1
    /\ UNCHANGED <<conn, inVars, post, accepted, outbox, writer, wire, closing, up>>

\* One of the messages that were queued when the batch was begun joins it.
WriterJoin ==
    /\ up /\ writer = "batch" /\ queued > 0
    /\ batch' = Append(batch, Head(outbox))
    /\ outbox' = Tail(outbox)
    /\ queued' = queued - 1
    /\ UNCHANGED <<conn, inVars, post, accepted, writer, wire, closing, up>>

WriterFlush ==
    /\ up /\ writer = "batch" /\ queued = 0
    /\ conn = "open"
    /\ wire' = wire \o batch
    /\ batch' = <<>>
    /\ writer' = "select"
    /\ UNCHANGED <<conn, inVars, post, accepted, outbox, queued, closing, up>>

WriterFlushFails ==
    /\ up /\ writer = "batch" /\ queued = 0
    /\ conn = "closed"
    /\ writer' = "failed"
    /\ UNCHANGED <<conn, inVars, post, accepted, outbox, batch, queued, wire,
                   closing, up>>

\* A ping cannot be written.
PingFails ==
    /\ up /\ writer = "select" /\ conn = "closed"
    /\ writer' = "failed"
    /\ UNCHANGED <<conn, inVars, post, accepted, outbox, batch, queued, wire,
                   closing, up>>

\* Mutant: writePump leaves as soon as its channel is closed.
WriterEndAtOnce ==
    /\ up /\ writer = "select" /\ WriteClosed
    /\ writer' = "drained"
    /\ conn' = "closed"
    /\ UNCHANGED <<inVars, post, accepted, outbox, batch, queued, wire, closing, up>>

\* WriteChannel is closed and empty: the hub closed the channel.
WriterEnd ==
    /\ up /\ writer = "select" /\ outbox = <<>> /\ WriteClosed
    /\ writer' = "drained"
    /\ conn' = "closed"
    /\ UNCHANGED <<inVars, post, accepted, outbox, batch, queued, wire, closing, up>>

-----------------------------------------------------------------------------
Reader == ReadFrame \/ ReaderPut \/ ReaderPanic \/ ReadFails \/ ReadRefused
Closer == ReaderCloses \/ CloseWriteChannel \/ CloseReadChannel \/ CloseConn
Sender == SenderTake \/ SenderSend \/ SenderEnd
Writer == WriterTake \/ WriterTakeFails \/ WriterJoin \/ WriterFlush
          \/ WriterFlushFails \/ PingFails \/ WriterEnd
Poster(m) == PostStart(m) \/ PostPut(m) \/ PostPanic(m)

Next == Reader \/ Closer \/ LoginCloses \/ PeerGone \/ Sender \/ Writer
        \/ \E m \in Posts : Poster(m)

Spec == Init /\ [][Next]_vars

\* Every goroutine that can step does.  The reader owes a step only when it
\* holds a frame or its connection is gone: the peer need not send.
Fairness ==
    /\ WF_vars(ReaderPut \/ ReaderPanic \/ ReadFails)
    /\ WF_vars(ReaderCloses)
    /\ WF_vars(CloseWriteChannel \/ CloseReadChannel \/ CloseConn)
    /\ WF_vars(Sender)
    /\ WF_vars(Writer)

FairSpec == Spec /\ Fairness

-----------------------------------------------------------------------------
(* What both directions promise.                                            *)

\* Frames reach the hub in the order they were read, none twice, none
\* skipped, up to the first that does not parse.
Inbound == INSTANCE Pipe WITH
    Message <- Frame, in <- [n \in 1 .. frames |-> n], out <- forwarded,
    stopped <- sender # "run"
InboundPipe == Inbound!Spec

\* Messages reach the socket in the order in which WriteChannel accepted
\* them, none twice, none skipped, until writePump leaves.
Outbound == INSTANCE Pipe WITH
    Message <- Posts, in <- accepted, out <- wire,
    stopped <- writer \in {"drained", "failed"}
OutboundPipe == Outbound!Spec

\* client.go:133-137: a writePump that leaves because its channel was
\* closed has written everything the channel had accepted.
ClosedAfterDrain == writer = "drained" => wire = accepted

\* client.go:168-175 and 133-137: after Close Client.SendMessage and writePump
\* end.  Nothing in Close reaches Client.ReceiveMessage, and a caller of Close
\* that came too late waits for ever: of these two it says nothing.
PumpsEnd ==
    (closing # "no") ~> (\/ ~up
                         \/ /\ writer \in {"drained", "failed"}
                            /\ sender # "run")

\* client.go:108-115: while frames parse, the end of the connection reaches
\* the reader, who closes the session.
ParsingSessionCloses ==
    (conn = "closed") ~> (~up \/ closing # "no" \/ sender = "malformed")

\* client.go:22-23 and 89: a connection that ends is noticed by its reader,
\* which goes through Close.
DisconnectCloses == (conn = "closed") ~> (~up \/ closing # "no")
=============================================================================
