----------------------------- MODULE OutputStream -----------------------------
(***************************************************************************)
(* How the output of a running tool gets into the status of its workspace: *)
(* WithOutputStream of pkg/runner/exec.go, streamOutput of                 *)
(* internal/controller/workspace.go, and the handlers that put the two     *)
(* together.                                                               *)
(*                                                                         *)
(* Six parties: the tool, which writes to two pipes; a reader per pipe;    *)
(* the action, which runs the tool and closes the pipes; the drain, which  *)
(* takes the output out of a bounded channel and patches the status; and   *)
(* the handler that waits for them all.  Output is counted in chunks, one  *)
(* for each Read that a Write needs.                                       *)
(***************************************************************************)
EXTENDS Naturals, Sequences

CONSTANTS
  Capacity,   \* places of the output channel
  Chunks,     \* bound: what the tool writes to each pipe
  MaxFaults,  \* bound: updates of the status that fail
  Cancels     \* TRUE: the context may be cancelled

ASSUME StreamAssumption ==
  /\ Capacity \in Nat \ {0} /\ Chunks \in Nat /\ MaxFaults \in Nat
  /\ Cancels \in BOOLEAN

Streams == {"out", "err"}

VARIABLES
  written,   \* chunks of each stream that the tool has written, or is writing
  pipe,      \* whether a Write waits for its reader
  closed,    \* whether the ends of the pipe are closed
  action,    \* the goroutine that runs the tool
  reader,    \* the goroutine that reads from each pipe
  body,      \* chunks in outBody and errBody
  mutex,     \* the streams whose reader holds cbMu
  message,   \* what each reader hands to the callback
  channel,   \* outputCh
  open,      \* whether it is open
  drain,     \* the goroutine of streamOutput
  output,    \* what it received last
  shown,     \* the output in the status
  failed,    \* whether the last update of it failed
  handler,   \* the caller
  cancelled, \* whether the context has ended
  faults     \* failed updates so far

toolVars == <<written, pipe>>
readerVars == <<reader, body, mutex, message>>
channelVars == <<channel, open>>
drainVars == <<drain, output, shown, failed, faults>>
vars == <<toolVars, closed, action, readerVars, channelVars, drainVars, handler, cancelled>>

-----------------------------------------------------------------------------

Amounts == [Streams -> 0 .. Chunks]
Nothing == [s \in Streams |-> 0]

Init ==
  /\ written = Nothing /\ pipe = [s \in Streams |-> FALSE]
  /\ closed = [s \in Streams |-> FALSE] /\ action = "tool"
  /\ reader = [s \in Streams |-> "read"] /\ body = Nothing
  /\ mutex = {} /\ message = [s \in Streams |-> Nothing]
  /\ channel = <<>> /\ open = TRUE
  /\ drain = "select" /\ output = Nothing /\ shown = Nothing /\ failed = FALSE
  /\ handler = "streaming" /\ cancelled = FALSE /\ faults = 0

-----------------------------------------------------------------------------
(* The tool and the action *)

\* A Write to a pipe lasts until what it writes is read.
ToolWrites(s) ==
  /\ action = "tool" /\ ~pipe[s] /\ written[s] < Chunks
  /\ written' = [written EXCEPT ![s] = @ + 1]
  /\ pipe' = [pipe EXCEPT ![s] = TRUE]
  /\ UNCHANGED <<closed, action, readerVars, channelVars, drainVars, handler, cancelled>>

\* The tool ends well, fails or is killed; none of its Writes is left waiting.
ToolEnds ==
  /\ action = "tool" /\ \A s \in Streams : ~pipe[s]
  /\ action' = "closeOut"
  /\ UNCHANGED <<toolVars, closed, readerVars, channelVars, drainVars, handler, cancelled>>

\* The ends of one pipe, then those of the other.
ClosePipe(s) ==
  /\ \/ s = "out" /\ action = "closeOut" /\ action' = "closeErr"
     \/ s = "err" /\ action = "closeErr" /\ action' = "done"
  /\ closed' = [closed EXCEPT ![s] = TRUE]
  /\ UNCHANGED <<toolVars, readerVars, channelVars, drainVars, handler, cancelled>>

-----------------------------------------------------------------------------
(* The readers *)

\* Read returns a chunk, and with its last chunk so does the Write.
Read(s) ==
  /\ reader[s] = "read" /\ pipe[s]
  /\ pipe' = [pipe EXCEPT ![s] = FALSE]
  /\ reader' = [reader EXCEPT ![s] = "chunk"]
  /\ UNCHANGED <<written, closed, action, body, mutex, message, channelVars, drainVars,
                 handler, cancelled>>

\* Read returns nothing and an error: the pipe is closed.
ReadEnd(s) ==
  /\ reader[s] = "read" /\ closed[s]
  /\ reader' = [reader EXCEPT ![s] = "end"]
  /\ UNCHANGED <<toolVars, closed, action, body, mutex, message, channelVars, drainVars,
                 handler, cancelled>>

Gathered(s) == IF reader[s] = "chunk" THEN [body EXCEPT ![s] = @ + 1] ELSE body

\* Faulty variant: the mutex covers the bodies, and not the callback.
GatherUnlocked(s) ==
  /\ reader[s] \in {"chunk", "end"} /\ mutex = {}
  /\ body' = Gathered(s)
  /\ message' = [message EXCEPT ![s] = body']
  /\ reader' = [reader EXCEPT ![s] = IF @ = "chunk" THEN "send" ELSE "sendLast"]
  /\ UNCHANGED <<toolVars, closed, action, mutex, channelVars, drainVars, handler, cancelled>>

\* cbMu.Lock, and the callback begins with both bodies as they are.
Gather(s) ==
  /\ reader[s] \in {"chunk", "end"} /\ mutex = {}
  /\ mutex' = {s}
  /\ body' = Gathered(s)
  /\ message' = [message EXCEPT ![s] = body']
  /\ reader' = [reader EXCEPT ![s] = IF @ = "chunk" THEN "send" ELSE "sendLast"]
  /\ UNCHANGED <<toolVars, closed, action, channelVars, drainVars, handler, cancelled>>

Sending(s) == reader[s] \in {"send", "sendLast"}

\* Faulty variant: the channel is taken to have a place.
SendAnyway(s) ==
  /\ Sending(s)
  /\ channel' = Append(channel, message[s])
  /\ mutex' = mutex \ {s}
  /\ reader' = [reader EXCEPT ![s] = IF @ = "send" THEN "read" ELSE "done"]
  /\ UNCHANGED <<toolVars, closed, action, body, message, open, drainVars, handler, cancelled>>

\* Faulty variant: the reader returns before it unlocks.
SendKeepsMutex(s) ==
  /\ Sending(s) /\ Len(channel) < Capacity
  /\ channel' = Append(channel, message[s])
  /\ mutex' = IF reader[s] = "send" THEN mutex \ {s} ELSE mutex
  /\ reader' = [reader EXCEPT ![s] = IF @ = "send" THEN "read" ELSE "done"]
  /\ UNCHANGED <<toolVars, closed, action, body, message, open, drainVars, handler, cancelled>>

\* The send waits for a place in the channel, under the mutex.
Send(s) ==
  /\ Sending(s) /\ Len(channel) < Capacity
  /\ channel' = Append(channel, message[s])
  /\ mutex' = mutex \ {s}
  /\ reader' = [reader EXCEPT ![s] = IF @ = "send" THEN "read" ELSE "done"]
  /\ UNCHANGED <<toolVars, closed, action, body, message, open, drainVars, handler, cancelled>>

-----------------------------------------------------------------------------
(* The handler *)

\* WithOutputStream returns, and the handler closes the channel.
CloseChannel ==
  /\ handler = "streaming" /\ action = "done" /\ \A s \in Streams : reader[s] = "done"
  /\ open' = FALSE
  /\ handler' = "waiting"
  /\ UNCHANGED <<toolVars, closed, action, readerVars, channel, drainVars, cancelled>>

Return ==
  /\ handler = "waiting" /\ drain = "done"
  /\ handler' = "returned"
  /\ UNCHANGED <<toolVars, closed, action, readerVars, channelVars, drainVars, cancelled>>

-----------------------------------------------------------------------------
(* The drain: a select over the channel, the context and a ticker *)

Receive ==
  /\ drain = "select" /\ channel # <<>>
  /\ output' = Head(channel) /\ channel' = Tail(channel)
  /\ UNCHANGED <<toolVars, closed, action, readerVars, open, drain, shown, failed, faults,
                 handler, cancelled>>

SeeClosed ==
  /\ drain = "select" /\ channel = <<>> /\ ~open
  /\ drain' = "lastUpdate"
  /\ UNCHANGED <<toolVars, closed, action, readerVars, channelVars, output, shown, failed,
                 faults, handler, cancelled>>

SeeCancelled ==
  /\ drain = "select" /\ cancelled
  /\ drain' = "lastUpdate"
  /\ UNCHANGED <<toolVars, closed, action, readerVars, channelVars, output, shown, failed,
                 faults, handler, cancelled>>

TickerFires ==
  /\ drain = "select"
  /\ drain' = "update"
  /\ UNCHANGED <<toolVars, closed, action, readerVars, channelVars, output, shown, failed,
                 faults, handler, cancelled>>

\* Faulty variant: nothing is updated on the way out.
UpdateOnTicksOnly ==
  /\ drain \in {"update", "lastUpdate"}
  /\ drain' = IF drain = "update" THEN "select" ELSE "done"
  /\ shown' = IF drain = "update" THEN output ELSE shown
  /\ UNCHANGED <<toolVars, closed, action, readerVars, channelVars, output, failed, faults,
                 handler, cancelled>>

\* updateOutput, on a tick or on the way out.
Update ==
  /\ drain \in {"update", "lastUpdate"}
  /\ drain' = IF drain = "update" THEN "select" ELSE "done"
  /\ shown' = output /\ failed' = FALSE
  /\ UNCHANGED <<toolVars, closed, action, readerVars, channelVars, output, faults,
                 handler, cancelled>>

\* Its error becomes an Errored phase, or is dropped.
UpdateFails ==
  /\ drain \in {"update", "lastUpdate"}
  /\ \/ cancelled /\ UNCHANGED faults
     \/ faults < MaxFaults /\ faults' = faults + 1
  /\ drain' = IF drain = "update" THEN "select" ELSE "done"
  /\ failed' = TRUE
  /\ UNCHANGED <<toolVars, closed, action, readerVars, channelVars, output, shown,
                 handler, cancelled>>

Cancel ==
  /\ Cancels /\ ~cancelled
  /\ cancelled' = TRUE
  /\ UNCHANGED <<toolVars, closed, action, readerVars, channelVars, drainVars, handler>>

-----------------------------------------------------------------------------

\* The drain is gone, and a reader has no place in the channel: for good.
Stuck == drain = "done" /\ Len(channel) = Capacity /\ \E s \in Streams : Sending(s)

Rest == (handler = "returned" \/ Stuck) /\ UNCHANGED vars

Tool == ToolEnds \/ \E s \in Streams : ToolWrites(s) \/ ClosePipe(s)
Reader(s) == Read(s) \/ ReadEnd(s) \/ Gather(s) \/ Send(s)
Handler == CloseChannel \/ Return
Drain == Receive \/ SeeClosed \/ SeeCancelled \/ TickerFires \/ Update \/ UpdateFails

Next ==
  \/ Tool \/ (\E s \in Streams : Reader(s)) \/ Handler \/ Drain
  \/ Cancel \/ Rest

Spec == Init /\ [][Next]_vars

\* Goroutines that can go on do, and a tool that can write ends some time.  A
\* select picks at random among what is ready, and a mutex that is free again
\* and again is had some time, whence SF.
Fairness ==
  /\ WF_vars(Tool) /\ WF_vars(Handler)
  /\ WF_vars(Update \/ UpdateFails) /\ SF_vars(Receive \/ SeeClosed \/ SeeCancelled)
  /\ \A s \in Streams : WF_vars(Read(s) \/ ReadEnd(s) \/ Send(s)) /\ SF_vars(Gather(s))

LiveSpec == Spec /\ Fairness

-----------------------------------------------------------------------------
(* Properties *)

TypeOK ==
  /\ written \in Amounts /\ body \in Amounts /\ output \in Amounts /\ shown \in Amounts
  /\ pipe \in [Streams -> BOOLEAN] /\ closed \in [Streams -> BOOLEAN]
  /\ action \in {"tool", "closeOut", "closeErr", "done"}
  /\ reader \in [Streams -> {"read", "chunk", "end", "send", "sendLast", "done"}]
  /\ mutex \in SUBSET Streams /\ message \in [Streams -> Amounts]
  /\ channel \in Seq(Amounts) /\ Len(channel) <= Capacity /\ open \in BOOLEAN
  /\ drain \in {"select", "update", "lastUpdate", "done"} /\ failed \in BOOLEAN
  /\ handler \in {"streaming", "waiting", "returned"}
  /\ cancelled \in BOOLEAN /\ faults \in 0 .. MaxFaults

\* When the handler goes on, the status shows all that the tool wrote to either
\* pipe, although the action closes the pipes as soon as the tool has ended,
\* whatever the readers still hold; unless the context ended or the last update
\* failed.  [WithOutputStream: ro.Close; streamOutput: the deferred updateOutput]
AllShown ==
  handler = "returned" /\ ~cancelled /\ ~failed => shown = written

\* The output that the status shows never gets shorter: the two readers' messages
\* reach the channel in the order in which the bodies grew.
\* [WithOutputStream: the callback under cbMu]
NeverShrinks == [][\A s \in Streams : shown'[s] >= shown[s]]_vars

\* Until the handler goes on, some party can, other than the ticker, unless the
\* context ended while the channel was about to be full: no ring of a reader that
\* waits for the mutex, a reader that waits for a place, the drain, and the tool.
\* [WithOutputStream and streamOutput]
SomeoneGoesOn ==
  \/ handler = "returned" \/ Stuck
  \/ action \in {"closeOut", "closeErr"}
  \/ action = "tool" /\ \A s \in Streams : ~pipe[s]
  \/ \E s \in Streams :
       \/ reader[s] = "read" /\ (pipe[s] \/ closed[s])
       \/ reader[s] \in {"chunk", "end"} /\ mutex = {}
       \/ Sending(s) /\ Len(channel) < Capacity
  \/ handler = "streaming" /\ action = "done" /\ \A s \in Streams : reader[s] = "done"
  \/ handler = "waiting" /\ drain = "done"
  \/ drain = "select" /\ (channel # <<>> \/ ~open \/ cancelled)
  \/ drain \in {"update", "lastUpdate"}

\* What the status shows is the beginning of what was written, more and more of
\* it, and all of it for good once the handler goes on; but for contexts that end
\* and updates that fail.  [WithOutputStream, streamOutput]
Log ==
  INSTANCE OutputLog
    WITH broken <- cancelled \/ failed, over <- handler = "returned"

ImplementsLog == Log!Spec

\* The handler gets on, whatever is cancelled or fails, unless the context ended
\* while the channel was about to be full.  [WithOutputStream: wg.Wait]
GetsOn == <>(handler = "returned" \/ Stuck)

=============================================================================
