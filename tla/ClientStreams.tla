---------------------------- MODULE ClientStreams ----------------------------
(***************************************************************************)
(* The loops of GrpcClient that open, read and reopen the streams of the   *)
(* graphical client, one thread each (frontend/src/grpc_client.cpp).       *)
(*                                                                         *)
(* Only the items of the message stream are told apart: they are numbered  *)
(* in the order the server published them.  The server may go away and come*)
(* back with an empty event bus, and an old one lacks the optional streams.*)
(***************************************************************************)
EXTENDS Naturals, FiniteSets

CONSTANTS Streams,       \* "messages" and others
          Optional,      \* the streams an old server lacks: audio and IQ
          Depth,         \* max_messages of the event bus
          PublishBound,  \* bound on the messages published
          BreakBound     \* bound on the streams or servers lost

ASSUME StreamsAssumption ==
  /\ "messages" \in Streams \ Optional /\ Optional \subseteq Streams
  /\ {Depth, PublishBound, BreakBound} \subseteq Nat

VARIABLES
  up,         \* the server runs
  lacks,      \* the streams it does not have
  published,  \* history: the number of messages
  base,       \* the first of them are no longer in the event bus
  handler,    \* the server's end of each stream, or how it ended
  cursor,     \* the last message written to the message stream
  link,       \* where each loop is
  supported,  \* audio_stream_supported_, iq_stream_supported_; others TRUE
  stopper,    \* streaming_, and the thread in StopStreaming
  received,   \* history: the messages emitted as signals
  breaks

serverSide  == <<up, lacks, published, base, breaks>>
clientSide  == <<link, supported, stopper, received>>
streamVars  == <<serverSide, handler, cursor, clientSide>>

streaming == stopper = "away"

StreamTypeOK ==
  /\ lacks \subseteq Optional /\ base <= published /\ cursor <= published
  /\ handler \in [Streams -> {"none", "open", "lost", "refused"}]
  /\ link \in [Streams -> {"top", "check", "reading", "finish", "pause", "exit"}]
  /\ supported \in [Streams -> BOOLEAN] /\ \A s \in Streams \ Optional : supported[s]
  /\ received \subseteq 1 .. published
  /\ stopper \in {"away", "joining", "returned"}
  /\ stopper = "returned" => \A s \in Streams : link[s] = "exit"

\* StartStreaming; the server may not run yet.
StreamInit ==
  /\ up \in BOOLEAN /\ lacks \in SUBSET Optional
  /\ published = 0 /\ base = 0 /\ cursor = 0
  /\ handler = [s \in Streams |-> "none"]
  /\ link = [s \in Streams |-> "top"] /\ supported = [s \in Streams |-> TRUE]
  /\ stopper = "away" /\ received = {} /\ breaks = 0

-----------------------------------------------------------------------------
(* The loops *)

At(s, here, there) == link[s] = here /\ link' = [link EXCEPT ![s] = there]

\* Mutant: only what is published from now on is wanted, as for audio and IQ.
MutantFirstMessage == published

\* The cursor 0 of StreamDecodedMessages: all that the event bus still has.
FirstMessage == base

\* while (streaming_.load() && audio_stream_supported_)
GoesOn(s) == streaming /\ supported[s]

\* The stream is opened; a server that is away or old ends it at once.
Open(s) ==
  /\ GoesOn(s)
  /\ At(s, "top", "check")
  /\ handler' = [handler EXCEPT ![s] = IF ~up THEN "lost" ELSE IF s \in lacks THEN "refused" ELSE "open"]
  /\ cursor' = IF s = "messages" THEN FirstMessage ELSE cursor
  /\ UNCHANGED <<serverSide, supported, stopper, received>>

Leave(s) ==
  /\ ~GoesOn(s)
  /\ At(s, "top", "exit")
  /\ UNCHANGED <<serverSide, handler, cursor, supported, stopper, received>>

\* while (streaming_.load() && reader->Read(...))
CheckFlag(s) ==
  /\ At(s, "check", IF streaming THEN "reading" ELSE "finish")
  /\ UNCHANGED <<serverSide, handler, cursor, supported, stopper, received>>

\* A message is read and emitted; one that was overwritten is not seen.
ReadMessage ==
  /\ At("messages", "reading", "check") /\ handler["messages"] = "open"
  /\ cursor' = IF cursor < base THEN base + 1 ELSE cursor + 1
  /\ cursor' <= published
  /\ received' = received \union {cursor'}
  /\ UNCHANGED <<serverSide, handler, supported, stopper>>

\* So is an item of another stream, but it is not followed here.
ReadOther(s) ==
  /\ s # "messages" /\ handler[s] = "open"
  /\ At(s, "reading", "check")
  /\ UNCHANGED <<serverSide, handler, cursor, supported, stopper, received>>

ReadEnds(s) ==
  /\ handler[s] # "open"
  /\ At(s, "reading", "finish")
  /\ UNCHANGED <<serverSide, handler, cursor, supported, stopper, received>>

\* UNIMPLEMENTED is taken as final, until the window is opened again.
GivenUp(s) == handler[s] = "refused" /\ s \in Optional

\* reader->Finish() waits for the server to end the stream.  After a stop
\* nothing is reported and nothing waited for.
Finish(s) ==
  /\ handler[s] # "open"
  /\ At(s, "finish", IF ~streaming THEN "top" ELSE IF GivenUp(s) THEN "exit" ELSE "pause")
  /\ supported' = [supported EXCEPT ![s] = @ /\ ~(streaming /\ GivenUp(s))]
  /\ UNCHANGED <<serverSide, handler, cursor, stopper, received>>

\* Mutant: the loop ends after an error.
MutantPauseEnds(s) ==
  /\ At(s, "pause", "exit")
  /\ UNCHANGED <<serverSide, handler, cursor, supported, stopper, received>>

\* Half a second, or one for the radar snapshots.
PauseEnds(s) ==
  /\ At(s, "pause", "top")
  /\ UNCHANGED <<serverSide, handler, cursor, supported, stopper, received>>

\* The window is closed.
StopStreaming ==
  /\ stopper = "away" /\ stopper' = "joining"
  /\ UNCHANGED <<serverSide, handler, cursor, link, supported, received>>

JoinThreads ==
  /\ stopper = "joining" /\ \A s \in Streams : link[s] = "exit"
  /\ stopper' = "returned"
  /\ UNCHANGED <<serverSide, handler, cursor, link, supported, received>>

Loop(s) == \/ Open(s) \/ Leave(s) \/ CheckFlag(s) \/ ReadOther(s) \/ ReadEnds(s)
           \/ Finish(s) \/ PauseEnds(s)
           \/ s = "messages" /\ ReadMessage

-----------------------------------------------------------------------------
(* The server *)

Publish ==
  /\ up /\ published < PublishBound
  /\ published' = published + 1
  /\ base' = IF published' > base + Depth THEN published' - Depth ELSE base
  /\ UNCHANGED <<up, lacks, breaks, handler, cursor, clientSide>>

\* The server goes away, with every stream of it.
ServerDown ==
  /\ up /\ breaks < BreakBound
  /\ up' = FALSE /\ breaks' = breaks + 1
  /\ handler' = [s \in Streams |-> IF handler[s] = "open" THEN "lost" ELSE handler[s]]
  /\ UNCHANGED <<lacks, published, base, cursor, clientSide>>

\* It comes back with an empty event bus, and perhaps with all streams.
ServerUp ==
  /\ ~up /\ up' = TRUE
  /\ base' = published /\ lacks' \in {lacks, {}}
  /\ UNCHANGED <<published, breaks, handler, cursor, clientSide>>

\* The connection of one stream breaks.
StreamBreaks(s) ==
  /\ handler[s] = "open" /\ breaks < BreakBound
  /\ breaks' = breaks + 1
  /\ handler' = [handler EXCEPT ![s] = "lost"]
  /\ UNCHANGED <<up, lacks, published, base, cursor, clientSide>>

-----------------------------------------------------------------------------

StreamNext ==
  \/ \E s \in Streams : Loop(s) \/ StreamBreaks(s)
  \/ StopStreaming \/ JoinThreads
  \/ Publish \/ ServerDown \/ ServerUp

\* The loops run on, and StopStreaming waits for nothing else.
StreamSpec ==
  /\ StreamInit /\ [][StreamNext]_streamVars
  /\ \A s \in Streams : WF_streamVars(Loop(s))
  /\ WF_streamVars(JoinThreads)

-----------------------------------------------------------------------------
(* Properties *)

\* A message stream that has come to the end of what was published has missed
\* nothing the event bus still has, however often it was broken off before.
NothingMissed ==
  (cursor = published /\ link["messages"] = "reading" /\ handler["messages"] = "open")
    => base + 1 .. published \subseteq received

\* A stream the server has is opened again after any break; closing the
\* window ends, if the server goes away for good.  While it stays, Finish()
\* waits for handlers that nobody cancels.
StreamsEndOrResume ==
  /\ \A s \in Streams : <>[](up /\ streaming /\ supported[s]) => []<>(handler[s] = "open")
  /\ <>[]~up => (stopper = "joining" ~> stopper = "returned")
=============================================================================
