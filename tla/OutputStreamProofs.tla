-------------------------- MODULE OutputStreamProofs --------------------------
(***************************************************************************)
(* Theorems about OutputStream, for every capacity of the channel, every   *)
(* amount of output and every number of failed updates; the last is that   *)
(* it implements OutputLog.                                                *)
(*                                                                         *)
(* Conserved follows a chunk from the tool to a body, Locked says who      *)
(* holds cbMu and what for, Ordered compares what the status shows, what   *)
(* the channel holds and what the readers have gathered, Ended says which  *)
(* parties are done before which, Drained that the drain returns with      *)
(* nothing left in the channel, unless the context has ended, and Closing  *)
(* in which order pipes and channel are closed.                            *)
(***************************************************************************)
EXTENDS OutputStream, TLAPS

\* What a stream has written has been gathered, or is with the reader or in the
\* pipe, one chunk each.
Conserved ==
  \A s \in Streams :
    written[s] = body[s] + (IF reader[s] = "chunk" THEN 1 ELSE 0)
                         + (IF pipe[s] THEN 1 ELSE 0)

\* cbMu is held by one reader, from when it has gathered until it has sent both
\* bodies as they still are.
Locked ==
  \A s \in Streams :
    /\ s \in mutex <=> Sending(s)
    /\ \A r \in mutex : s \in mutex => r = s
    /\ Sending(s) => message[s] = body

\* a is an earlier output than b, or the same.
Precedes(a, b) == \A s \in Streams : a[s] <= b[s]

Ordered ==
  /\ Precedes(shown, output) /\ Precedes(output, body)
  /\ \A i \in 1 .. Len(channel) :
       /\ Precedes(output, channel[i]) /\ Precedes(channel[i], body)
       /\ \A j \in i .. Len(channel) : Precedes(channel[i], channel[j])

\* The last output on its way to the status.
Latest == IF channel = <<>> THEN output ELSE channel[Len(channel)]

Ended ==
  /\ action # "tool" => \A s \in Streams : ~pipe[s]
  /\ \A s \in Streams : closed[s] => action # "tool"
  /\ \A s \in Streams : reader[s] \in {"end", "sendLast", "done"} => closed[s]

\* What the drain leaves to do when it returns.
Drained ==
  /\ drain \in {"lastUpdate", "done"} => cancelled \/ (channel = <<>> /\ ~open)
  /\ drain = "done" /\ ~failed => shown = output
  /\ handler = "returned" => drain = "done"
  /\ mutex = {} => Latest = body

-----------------------------------------------------------------------------
(* Type correctness *)

Inductive == TypeOK /\ Conserved

LEMMA Conservation == Spec => []Inductive
<1>1. Init => Inductive
  <2> SUFFICES ASSUME Init
               PROVE  Inductive
    OBVIOUS
  <2>1. Nothing \in Amounts
    BY StreamAssumption DEF Nothing, Amounts
  <2>2. TypeOK
    <3>1. channel \in Seq(Amounts) /\ Len(channel) <= Capacity
      BY StreamAssumption DEF Init
    <3>2. /\ pipe \in [Streams -> BOOLEAN] /\ closed \in [Streams -> BOOLEAN]
          /\ reader \in [Streams -> {"read", "chunk", "end", "send", "sendLast", "done"}]
          /\ mutex \in SUBSET Streams /\ message \in [Streams -> Amounts]
      BY <2>1 DEF Init
    <3>3. faults \in 0 .. MaxFaults
      BY StreamAssumption DEF Init
    <3>4. open \in BOOLEAN /\ failed \in BOOLEAN /\ cancelled \in BOOLEAN
      BY Zenon DEF Init
    <3> QED
      BY <2>1, <3>1, <3>2, <3>3, <3>4 DEF Init, TypeOK
  <2>3. Conserved
    BY StreamAssumption DEF Init, Conserved, Nothing
  <2> QED
    BY <2>2, <2>3 DEF Inductive
<1>2. Inductive /\ [Next]_vars => Inductive'
  <2> SUFFICES ASSUME Inductive, [Next]_vars
               PROVE  Inductive'
    OBVIOUS
  <2> USE StreamAssumption DEF Inductive
  <2>1. ASSUME NEW s \in Streams, ToolWrites(s)
        PROVE  Inductive'
    <3>1. written' \in Amounts /\ pipe' \in [Streams -> BOOLEAN]
      BY <2>1 DEF ToolWrites, TypeOK, Amounts
    <3>2. Conserved'
      <4>1. \A t \in Streams : written[t] \in Nat /\ body[t] \in Nat
        BY DEF TypeOK, Amounts
      <4> QED
        BY <2>1, <4>1 DEF ToolWrites, TypeOK, Conserved, Amounts, readerVars
    <3> QED
      BY <2>1, <3>1, <3>2 DEF ToolWrites, TypeOK, readerVars, channelVars, drainVars
  <2>2. CASE ToolEnds
    BY <2>2 DEF ToolEnds, TypeOK, Conserved, toolVars, readerVars, channelVars, drainVars
  <2>3. ASSUME NEW s \in Streams, ClosePipe(s)
        PROVE  Inductive'
    BY <2>3 DEF ClosePipe, TypeOK, Conserved, toolVars, readerVars, channelVars, drainVars
  <2>4. ASSUME NEW s \in Streams, Read(s)
        PROVE  Inductive'
    <3>1. \A t \in Streams : written[t] \in Nat /\ body[t] \in Nat
      BY DEF TypeOK, Amounts
    <3>2. Conserved'
      BY <2>4, <3>1 DEF Read, TypeOK, Conserved
    <3>3. /\ reader' \in [Streams -> {"read", "chunk", "end", "send", "sendLast", "done"}]
          /\ pipe' \in [Streams -> BOOLEAN]
      BY <2>4 DEF Read, TypeOK
    <3> QED
      BY <2>4, <3>2, <3>3 DEF Read, TypeOK, channelVars, drainVars
  <2>5. ASSUME NEW s \in Streams, ReadEnd(s)
        PROVE  Inductive'
    BY <2>5 DEF ReadEnd, TypeOK, Conserved, toolVars, channelVars, drainVars
  <2>6. ASSUME NEW s \in Streams, Gather(s)
        PROVE  Inductive'
    <3>1. \A t \in Streams : written[t] \in 0 .. Chunks /\ body[t] \in Nat
      BY DEF TypeOK, Amounts
    <3>2. body' = Gathered(s) /\ UNCHANGED toolVars
      BY <2>6 DEF Gather
    <3>3. body' \in Amounts
      <4>1. CASE reader[s] = "chunk"
        <5>1. body[s] + 1 <= written[s]
          BY <4>1, <3>1 DEF Conserved
        <5> QED
          BY <4>1, <5>1, <3>1, <3>2 DEF Gathered, Amounts, TypeOK
      <4>2. CASE reader[s] # "chunk"
        BY <4>2, <3>2 DEF Gathered, TypeOK
      <4> QED
        BY <4>1, <4>2
    <3>4. Conserved'
      BY <2>6, <3>1, <3>2 DEF Gather, Gathered, Conserved, TypeOK, Amounts, toolVars
    <3>5. /\ reader' \in [Streams -> {"read", "chunk", "end", "send", "sendLast", "done"}]
          /\ message' \in [Streams -> Amounts] /\ mutex' \in SUBSET Streams
      BY <2>6, <3>3 DEF Gather, TypeOK
    <3> QED
      BY <2>6, <3>3, <3>4, <3>5 DEF Gather, TypeOK, toolVars, channelVars, drainVars
  <2>7. ASSUME NEW s \in Streams, Send(s)
        PROVE  Inductive'
    <3>1. channel' \in Seq(Amounts) /\ Len(channel') <= Capacity
      BY <2>7 DEF Send, TypeOK
    <3>2. reader' \in [Streams -> {"read", "chunk", "end", "send", "sendLast", "done"}]
      BY <2>7 DEF Send, TypeOK
    <3>3. Conserved'
      BY <2>7 DEF Send, Sending, TypeOK, Conserved, toolVars
    <3> QED
      BY <2>7, <3>1, <3>2, <3>3 DEF Send, TypeOK, toolVars, drainVars
  <2>8. CASE CloseChannel
    BY <2>8 DEF CloseChannel, TypeOK, Conserved, toolVars, readerVars, drainVars
  <2>9. CASE Return
    BY <2>9 DEF Return, TypeOK, Conserved, toolVars, readerVars, channelVars, drainVars
  <2>10. CASE Receive
    <3>1. output' \in Amounts /\ channel' \in Seq(Amounts) /\ Len(channel') <= Capacity
      BY <2>10 DEF Receive, TypeOK
    <3> QED
      BY <2>10, <3>1 DEF Receive, TypeOK, Conserved, toolVars, readerVars
  <2>11. CASE SeeClosed \/ SeeCancelled \/ TickerFires
    BY <2>11 DEF SeeClosed, SeeCancelled, TickerFires, TypeOK, Conserved, toolVars,
         readerVars, channelVars
  <2>12. CASE Update
    BY <2>12 DEF Update, TypeOK, Conserved, toolVars, readerVars, channelVars
  <2>15. CASE UpdateFails
    <3>1. faults' \in 0 .. MaxFaults
      BY <2>15 DEF UpdateFails, TypeOK
    <3> QED
      BY <2>15, <3>1 DEF UpdateFails, TypeOK, Conserved, toolVars, readerVars, channelVars
  <2>13. CASE Cancel
    BY <2>13 DEF Cancel, TypeOK, Conserved, toolVars, readerVars, channelVars, drainVars
  <2>14. CASE UNCHANGED vars
    BY <2>14 DEF vars, TypeOK, Conserved, toolVars, readerVars, channelVars, drainVars
  <2> QED
    BY <2>1, <2>2, <2>3, <2>4, <2>5, <2>6, <2>7, <2>8, <2>9, <2>10, <2>11, <2>12, <2>13,
       <2>14, <2>15 DEF Next, Tool, Reader, Handler, Drain, Rest
<1> QED
  BY <1>1, <1>2, PTL DEF Spec

\* Every variable keeps its type, and the channel its bound: a sender waits for a
\* place.  [streamOutput: outputCh]
THEOREM TypeInvariant == Spec => []TypeOK
BY Conservation, PTL DEF Inductive

-----------------------------------------------------------------------------
(* The channel is closed after the readers *)

OpenForReaders == ~open => \A s \in Streams : reader[s] = "done"

\* The handler closes the channel when WithOutputStream has waited for both readers.
LEMMA ClosedAfterReaders == Spec => []OpenForReaders
<1>1. Init => OpenForReaders
  BY DEF Init, OpenForReaders
<1>2. TypeOK /\ OpenForReaders /\ [Next]_vars => OpenForReaders'
  <2> SUFFICES ASSUME TypeOK, OpenForReaders, [Next]_vars
               PROVE  OpenForReaders'
    OBVIOUS
  <2>1. ASSUME NEW s \in Streams, Reader(s)
        PROVE  OpenForReaders'
    <3>1. UNCHANGED open /\ reader[s] # "done"
      BY <2>1 DEF Reader, Read, ReadEnd, Gather, Send, Sending, channelVars
    <3> QED
      BY <3>1 DEF OpenForReaders
  <2>2. CASE CloseChannel
    BY <2>2 DEF CloseChannel, OpenForReaders, readerVars
  <2>3. CASE UNCHANGED <<open, reader>>
    BY <2>3 DEF OpenForReaders
  <2> QED
    BY <2>1, <2>2, <2>3 DEF Next, Tool, ToolWrites, ToolEnds, ClosePipe, Handler, Return, Drain,
       Receive, SeeClosed, SeeCancelled, TickerFires, Update, UpdateFails, Cancel, Rest, vars,
       readerVars, channelVars
<1> QED
  BY <1>1, <1>2, TypeInvariant, PTL DEF Spec

-----------------------------------------------------------------------------
(* The mutex *)

LEMMA LockedInit == Init => Locked
BY DEF Init, Locked, Sending

LEMMA LockedStep ==
  ASSUME TypeOK, Locked, [Next]_vars
  PROVE  Locked'
<1>1. ASSUME NEW s \in Streams, Read(s) \/ ReadEnd(s)
      PROVE  Locked'
  BY <1>1 DEF Read, ReadEnd, Locked, Sending, TypeOK
<1>2. ASSUME NEW s \in Streams, Gather(s)
      PROVE  Locked'
  <2>1. mutex = {} /\ mutex' = {s}
    BY <1>2 DEF Gather
  <2>2. \A t \in Streams : ~Sending(t)
    BY <2>1 DEF Locked
  <2>3. /\ \A t \in Streams : Sending(t)' <=> t = s
        /\ message'[s] = body'
    BY <1>2, <2>2 DEF Gather, Sending, TypeOK
  <2> QED
    BY <2>1, <2>3 DEF Locked
<1>3. ASSUME NEW s \in Streams, Send(s)
      PROVE  Locked'
  BY <1>3 DEF Send, Locked, Sending, TypeOK
<1>4. CASE UNCHANGED readerVars
  BY <1>4 DEF Locked, Sending, readerVars
<1> QED
  BY <1>1, <1>2, <1>3, <1>4 DEF Next, Tool, ToolWrites, ToolEnds, ClosePipe, Reader, Handler,
     CloseChannel, Return, Drain, Receive, SeeClosed, SeeCancelled, TickerFires, Update,
     UpdateFails, Cancel, Rest, vars

-----------------------------------------------------------------------------
(* The order of outputs *)

LEMMA PrecedesTransitive ==
  ASSUME NEW a \in Amounts, NEW b \in Amounts, NEW c \in Amounts,
         Precedes(a, b), Precedes(b, c)
  PROVE  Precedes(a, c)
BY StreamAssumption DEF Precedes, Amounts

LEMMA PrecedesReflexive ==
  ASSUME NEW a \in Amounts
  PROVE  Precedes(a, a)
BY StreamAssumption DEF Precedes, Amounts

\* A reader only adds to the bodies.
LEMMA BodyGrows ==
  ASSUME TypeOK, NEW s \in Streams, Gather(s)
  PROVE  Precedes(body, body')
<1>1. \A t \in Streams : body[t] \in Nat
  BY StreamAssumption DEF TypeOK, Amounts
<1> QED
  BY <1>1 DEF Gather, Gathered, Precedes, TypeOK, Amounts

LEMMA OrderedInit == Init => Ordered
<1> SUFFICES ASSUME Init
             PROVE  Ordered
  OBVIOUS
<1>1. Precedes(Nothing, Nothing)
  BY StreamAssumption, PrecedesReflexive DEF Nothing, Amounts
<1>2. 1 .. Len(channel) = {}
  BY DEF Init
<1> QED
  BY <1>1, <1>2 DEF Init, Ordered

LEMMA OrderedStep ==
  ASSUME TypeOK, TypeOK', Locked, Ordered, [Next]_vars
  PROVE  Ordered'
<1>t. /\ body \in Amounts /\ output \in Amounts /\ shown \in Amounts /\ channel \in Seq(Amounts)
      /\ body' \in Amounts /\ output' \in Amounts /\ shown' \in Amounts
  BY DEF TypeOK
<1>1. ASSUME NEW s \in Streams, Gather(s)
      PROVE  Ordered'
  <2>1. Precedes(body, body')
    BY <1>1, BodyGrows
  <2>2. UNCHANGED <<shown, output, channel>>
    BY <1>1 DEF Gather, channelVars, drainVars
  <2>3. \A i \in 1 .. Len(channel) : channel[i] \in Amounts
    BY <1>t
  <2>4. Precedes(output, body')
    BY <2>1, <1>t, PrecedesTransitive DEF Ordered
  <2>5. \A i \in 1 .. Len(channel) : Precedes(channel[i], body')
    BY <2>1, <2>3, <1>t, PrecedesTransitive DEF Ordered
  <2> QED
    BY <2>2, <2>4, <2>5 DEF Ordered
<1>2. ASSUME NEW s \in Streams, Send(s)
      PROVE  Ordered'
  <2>1. /\ channel' = Append(channel, body)
        /\ UNCHANGED <<shown, output, body>>
    BY <1>2 DEF Send, Locked, drainVars
  <2>2. Precedes(body, body)
    BY <1>t, PrecedesReflexive
  <2>3. /\ Len(channel') = Len(channel) + 1 /\ Len(channel) \in Nat
        /\ channel'[Len(channel) + 1] = body
        /\ \A i \in 1 .. Len(channel) : channel'[i] = channel[i]
    BY <2>1, <1>t
  <2>4. ASSUME NEW i \in 1 .. Len(channel')
        PROVE  /\ Precedes(output, channel'[i]) /\ Precedes(channel'[i], body)
               /\ \A j \in i .. Len(channel') : Precedes(channel'[i], channel'[j])
    <3>1. CASE i \in 1 .. Len(channel)
      <4>1. \A j \in i .. Len(channel') : j = Len(channel) + 1 \/ j \in i .. Len(channel)
        BY <2>3, <3>1
      <4> QED
        BY <2>3, <3>1, <4>1 DEF Ordered
    <3>2. CASE i = Len(channel) + 1
      <4>1. \A j \in i .. Len(channel') : j = i
        BY <2>3, <3>2
      <4> QED
        BY <2>2, <2>3, <3>2, <4>1 DEF Ordered
    <3> QED
      BY <2>3, <3>1, <3>2
  <2> QED
    BY <2>1, <2>4 DEF Ordered
<1>3. CASE Receive
  <2>1. /\ channel # <<>> /\ output' = Head(channel) /\ channel' = Tail(channel)
        /\ UNCHANGED <<shown, body>>
    BY <1>3 DEF Receive, readerVars
  <2>2. /\ Len(channel) \in Nat \ {0} /\ output' = channel[1]
        /\ Len(channel') = Len(channel) - 1
        /\ \A i \in 1 .. Len(channel') : channel'[i] = channel[i + 1]
    BY <2>1, <1>t
  <2>3. Precedes(shown, output')
    BY <2>1, <2>2, <1>t, PrecedesTransitive DEF Ordered
  <2>4. Precedes(output', body)
    BY <2>2 DEF Ordered
  <2>5. ASSUME NEW i \in 1 .. Len(channel')
        PROVE  /\ Precedes(output', channel'[i]) /\ Precedes(channel'[i], body)
               /\ \A j \in i .. Len(channel') : Precedes(channel'[i], channel'[j])
    <3>1. i + 1 \in 1 .. Len(channel) /\ channel'[i] = channel[i + 1]
      BY <2>2
    <3>2. \A j \in i .. Len(channel') :
            j + 1 \in (i + 1) .. Len(channel) /\ channel'[j] = channel[j + 1]
      BY <2>2
    <3>3. 1 \in 1 .. Len(channel) /\ i + 1 \in 1 .. Len(channel)
      BY <2>2
    <3> QED
      BY <2>2, <3>1, <3>2, <3>3 DEF Ordered
  <2> QED
    BY <2>1, <2>3, <2>4, <2>5 DEF Ordered
<1>4. CASE Update
  <2>1. shown' = output /\ UNCHANGED <<output, body, channel>>
    BY <1>4 DEF Update, readerVars, channelVars
  <2> QED
    BY <2>1, <1>t, PrecedesReflexive DEF Ordered
<1>5. CASE UNCHANGED <<shown, output, body, channel>>
  BY <1>5 DEF Ordered
<1> QED
  BY <1>1, <1>2, <1>3, <1>4, <1>5 DEF Next, Tool, ToolWrites, ToolEnds, ClosePipe, Reader, Read,
     ReadEnd, Handler, CloseChannel, Return, Drain, SeeClosed, SeeCancelled, TickerFires,
     UpdateFails, Cancel, Rest, vars, readerVars, channelVars, drainVars

LEMMA OrderInvariant == Spec => [](Locked /\ Ordered)
<1>1. Init => Locked /\ Ordered
  BY LockedInit, OrderedInit
<1>2. TypeOK /\ TypeOK' /\ Locked /\ Ordered /\ [Next]_vars => (Locked /\ Ordered)'
  BY LockedStep, OrderedStep
<1> QED
  BY <1>1, <1>2, TypeInvariant, PTL DEF Spec

\* The two readers' outputs reach the status in the order in which the bodies grew:
\* it never shows less than before.  [WithOutputStream: cbMu around cb]
THEOREM OutputGrows == Spec => NeverShrinks
<1>1. TypeOK /\ Ordered /\ [Next]_vars => [\A s \in Streams : shown'[s] >= shown[s]]_vars
  <2> SUFFICES ASSUME TypeOK, Ordered, [Next]_vars, shown' # shown
               PROVE  \A s \in Streams : shown'[s] >= shown[s]
    <3>1. ASSUME TypeOK, UNCHANGED shown
          PROVE  \A s \in Streams : shown'[s] >= shown[s]
      BY <3>1, StreamAssumption DEF TypeOK, Amounts
    <3> QED
      BY <3>1
  <2>1. shown' = output
    BY DEF Next, Tool, ToolWrites, ToolEnds, ClosePipe, Reader, Read, ReadEnd, Gather, Send,
       Handler, CloseChannel, Return, Drain, Receive, SeeClosed, SeeCancelled, TickerFires,
       Update, UpdateFails, Cancel, Rest, vars, drainVars
  <2> QED
    BY <2>1, StreamAssumption DEF Ordered, Precedes, TypeOK, Amounts
<1> QED
  BY <1>1, TypeInvariant, OrderInvariant, PTL DEF Spec, NeverShrinks

-----------------------------------------------------------------------------
(* The output is whole *)

LEMMA EndedInit == Init => Ended
BY DEF Init, Ended

LEMMA EndedStep ==
  ASSUME TypeOK, Ended, [Next]_vars
  PROVE  Ended'
<1>1. ASSUME NEW s \in Streams, ToolWrites(s)
      PROVE  Ended'
  BY <1>1 DEF ToolWrites, Ended, TypeOK, readerVars
<1>2. CASE ToolEnds
  BY <1>2 DEF ToolEnds, Ended, TypeOK, toolVars, readerVars
<1>3. ASSUME NEW s \in Streams, ClosePipe(s)
      PROVE  Ended'
  BY <1>3 DEF ClosePipe, Ended, TypeOK, toolVars, readerVars
<1>4. ASSUME NEW s \in Streams, Read(s) \/ ReadEnd(s)
      PROVE  Ended'
  BY <1>4 DEF Read, ReadEnd, Ended, TypeOK, toolVars
<1>5. ASSUME NEW s \in Streams, Gather(s) \/ Send(s)
      PROVE  Ended'
  BY <1>5 DEF Gather, Send, Sending, Ended, TypeOK, toolVars
<1>6. CASE UNCHANGED <<pipe, closed, action, reader>>
  BY <1>6 DEF Ended
<1> QED
  BY <1>1, <1>2, <1>3, <1>4, <1>5, <1>6 DEF Next, Tool, Reader, Handler, CloseChannel, Return,
     Drain, Receive, SeeClosed, SeeCancelled, TickerFires, Update, UpdateFails, Cancel, Rest,
     vars, toolVars, readerVars

LEMMA DrainedInit == Init => Drained
BY DEF Init, Drained, Latest

LEMMA DrainedStep ==
  ASSUME TypeOK, TypeOK', Locked, OpenForReaders, Drained, [Next]_vars
  PROVE  Drained'
<1>t. channel \in Seq(Amounts) /\ body \in Amounts
  BY DEF TypeOK
<1>1. ASSUME NEW s \in Streams, Gather(s)
      PROVE  Drained'
  BY <1>1 DEF Gather, Drained, Latest, channelVars, drainVars
<1>2. ASSUME NEW s \in Streams, Send(s)
      PROVE  Drained'
  <2>1. channel' = Append(channel, body) /\ UNCHANGED <<body, open, drainVars, handler, cancelled>>
    BY <1>2 DEF Send, Locked
  <2>2. Latest' = body
    <3>1. channel' # <<>> /\ channel'[Len(channel')] = body
      BY <2>1, <1>t
    <3> QED
      BY <3>1 DEF Latest
  <2>3. open
    BY <1>2 DEF Send, Sending, OpenForReaders
  <2> QED
    BY <2>1, <2>2, <2>3 DEF Drained, drainVars
<1>3. CASE Receive
  <2>1. Latest' = Latest
    <3>1. /\ channel # <<>> /\ output' = Head(channel) /\ channel' = Tail(channel)
      BY <1>3 DEF Receive
    <3>2. CASE Len(channel) = 1
      <4>1. channel' = <<>> /\ output' = channel[Len(channel)]
        BY <3>1, <3>2, <1>t
      <4> QED
        BY <3>1, <4>1 DEF Latest
    <3>3. CASE Len(channel) # 1
      <4>1. Len(channel') = Len(channel) - 1 /\ Len(channel') # 0
        BY <3>1, <3>3, <1>t
      <4>2. channel'[Len(channel')] = channel[Len(channel)]
        BY <3>1, <3>3, <4>1, <1>t
      <4>3. channel' # <<>>
        BY <4>1
      <4> QED
        BY <3>1, <4>2, <4>3 DEF Latest
    <3> QED
      BY <3>2, <3>3
  <2> QED
    BY <1>3, <2>1 DEF Receive, Drained, readerVars
<1>4. CASE SeeClosed \/ SeeCancelled \/ TickerFires
  BY <1>4 DEF SeeClosed, SeeCancelled, TickerFires, Drained, Latest, readerVars, channelVars
<1>5. CASE Update \/ UpdateFails
  BY <1>5 DEF Update, UpdateFails, Drained, Latest, readerVars, channelVars
<1>6. CASE CloseChannel
  BY <1>6 DEF CloseChannel, Drained, Latest, readerVars, drainVars
<1>7. CASE Return
  BY <1>7 DEF Return, Drained, Latest, readerVars, channelVars, drainVars
<1>8. CASE Cancel
  BY <1>8 DEF Cancel, Drained, Latest, readerVars, channelVars, drainVars
<1>9. CASE UNCHANGED <<body, mutex, channelVars, drainVars, handler, cancelled>>
  BY <1>9 DEF Drained, Latest, channelVars, drainVars
<1> QED
  BY <1>1, <1>2, <1>3, <1>4, <1>5, <1>6, <1>7, <1>8, <1>9 DEF Next, Tool, ToolWrites, ToolEnds,
     ClosePipe, Reader, Read, ReadEnd, Handler, Drain, Rest, vars, readerVars

\* When the handler goes on, the status shows all that the tool has written, unless
\* the context ended or the last update failed: closing the read ends of the pipes
\* loses nothing.  [WithOutputStream: ro.Close; streamOutput: the deferred update]
THEOREM OutputComplete == Spec => []AllShown
<1>1. Init => Ended /\ Drained
  BY EndedInit, DrainedInit
<1>2. TypeOK /\ TypeOK' /\ Locked /\ OpenForReaders /\ Ended /\ Drained /\ [Next]_vars
        => (Ended /\ Drained)'
  BY EndedStep, DrainedStep
<1>3. Inductive /\ Locked /\ OpenForReaders /\ Ended /\ Drained => AllShown
  <2> SUFFICES ASSUME Inductive, Locked, OpenForReaders, Ended, Drained,
                      handler = "returned", ~cancelled, ~failed
               PROVE  shown = written
    BY DEF AllShown
  <2>1. channel = <<>> /\ ~open /\ shown = output
    BY DEF Drained
  <2>2. \A s \in Streams : reader[s] = "done"
    BY <2>1 DEF OpenForReaders
  <2>3. mutex = {}
    BY <2>2 DEF Locked, Sending, Inductive, TypeOK
  <2>4. shown = body
    BY <2>1, <2>3 DEF Drained, Latest
  <2>5. \A s \in Streams : ~pipe[s]
    BY <2>2 DEF Ended
  <2>6. \A s \in Streams : written[s] = body[s]
    <3>1. \A s \in Streams : body[s] \in Nat
      BY StreamAssumption DEF Inductive, TypeOK, Amounts
    <3> QED
      BY <2>2, <2>5, <3>1 DEF Inductive, Conserved
  <2> QED
    BY <2>4, <2>6 DEF Inductive, TypeOK, Amounts
<1> QED
  BY <1>1, <1>2, <1>3, TypeInvariant, Conservation, OrderInvariant, ClosedAfterReaders, PTL
  DEF Spec

-----------------------------------------------------------------------------
(* Somebody can go on *)

\* The pipes are closed one after the other, then the channel, and then the handler
\* waits for the drain.
Closing ==
  /\ action \in {"closeErr", "done"} => closed["out"]
  /\ action = "done" => closed["err"]
  /\ handler # "streaming" => action = "done" /\ ~open
  /\ handler = "streaming" => open

LEMMA ClosingInit == Init => Closing
BY DEF Init, Closing

LEMMA ClosingStep ==
  ASSUME TypeOK, Closing, [Next]_vars
  PROVE  Closing'
<1>1. ASSUME NEW s \in Streams, ToolWrites(s)
      PROVE  Closing'
  BY <1>1 DEF ToolWrites, Closing, channelVars
<1>2. CASE ToolEnds
  BY <1>2 DEF ToolEnds, Closing, channelVars
<1>3. ASSUME NEW s \in Streams, ClosePipe(s)
      PROVE  Closing'
  BY <1>3 DEF ClosePipe, Closing, TypeOK, channelVars, Streams
<1>4. ASSUME NEW s \in Streams, Reader(s)
      PROVE  UNCHANGED <<action, closed, handler, open>>
  BY <1>4 DEF Reader, Read, ReadEnd, Gather, Send, channelVars
<1>5. CASE CloseChannel
  BY <1>5 DEF CloseChannel, Closing
<1>6. CASE Return
  BY <1>6 DEF Return, Closing, channelVars
<1>7. CASE UNCHANGED <<action, closed, handler, open>>
  BY <1>7 DEF Closing
<1> QED
  BY <1>1, <1>2, <1>3, <1>4, <1>5, <1>6, <1>7 DEF Next, Tool, Handler, Drain, Receive, SeeClosed,
     SeeCancelled, TickerFires, Update, UpdateFails, Cancel, Rest, vars, channelVars

\* All the invariants hold together.
Whole ==
  Inductive /\ Locked /\ Ordered /\ OpenForReaders /\ Ended /\ Drained /\ Closing

LEMMA WholeInvariant == Spec => []Whole
<1>1. Init => Ended /\ Drained /\ Closing
  BY EndedInit, DrainedInit, ClosingInit
<1>2. TypeOK /\ TypeOK' /\ Locked /\ OpenForReaders /\ Ended /\ Drained /\ Closing /\ [Next]_vars
        => (Ended /\ Drained /\ Closing)'
  BY EndedStep, DrainedStep, ClosingStep
<1> QED
  BY <1>1, <1>2, TypeInvariant, Conservation, OrderInvariant, ClosedAfterReaders, PTL
  DEF Spec, Whole

\* Readers, drain, action and handler never all wait for each other, whatever the
\* capacity of the channel: a reader that waits for a place holds the mutex, but
\* the drain needs no mutex, and ends only for a context that did.
\* [WithOutputStream and streamOutput]
THEOREM NoRing == Spec => []SomeoneGoesOn
<1>1. Whole => SomeoneGoesOn
  <2> SUFFICES ASSUME Whole, ~SomeoneGoesOn
               PROVE  FALSE
    OBVIOUS
  <2> USE DEF Whole, Inductive
  <2>1. /\ handler # "returned" /\ ~Stuck /\ action \in {"tool", "done"}
        /\ action = "tool" => \E s \in Streams : pipe[s]
        /\ \A s \in Streams : reader[s] = "read" => ~pipe[s] /\ ~closed[s]
        /\ \A s \in Streams : reader[s] \in {"chunk", "end"} => mutex # {}
        /\ \A s \in Streams : Sending(s) => ~(Len(channel) < Capacity)
        /\ action = "done" /\ handler = "streaming" => \E s \in Streams : reader[s] # "done"
        /\ handler = "waiting" => drain # "done"
        /\ drain = "select" => channel = <<>> /\ open /\ ~cancelled
        /\ drain \in {"select", "done"}
    BY DEF SomeoneGoesOn, TypeOK
  <2>2. \A s \in Streams : ~Sending(s)
    <3> SUFFICES ASSUME NEW s \in Streams, Sending(s)
                 PROVE  FALSE
      OBVIOUS
    <3>1. Len(channel) = Capacity
      BY <2>1, StreamAssumption DEF TypeOK
    <3>2. drain = "select"
      BY <2>1, <3>1 DEF Stuck
    <3>3. Len(channel) = 0
      BY <2>1, <3>2
    <3> QED
      BY <3>1, <3>3, StreamAssumption
  <2>3. mutex = {}
    BY <2>2 DEF Locked, TypeOK
  <2>4. \A s \in Streams : reader[s] \in {"read", "done"}
    BY <2>1, <2>2, <2>3 DEF Sending, TypeOK
  <2>5. handler = "streaming"
    BY <2>1 DEF Closing, TypeOK
  <2>6. CASE action = "tool"
    <3>1. PICK s \in Streams : pipe[s]
      BY <2>1, <2>6
    <3>2. reader[s] = "done"
      BY <2>1, <2>4, <3>1
    <3> QED
      BY <2>6, <3>2 DEF Ended
  <2>7. CASE action = "done"
    <3>1. PICK s \in Streams : reader[s] # "done"
      BY <2>1, <2>5, <2>7
    <3>2. closed[s]
      BY <2>7 DEF Closing, Streams
    <3> QED
      BY <2>1, <2>4, <3>1, <3>2
  <2> QED
    BY <2>1, <2>6, <2>7
<1> QED
  BY <1>1, WholeInvariant, PTL

-----------------------------------------------------------------------------
(* The refinement of OutputLog *)

\* An update shows more of what was written, and never too much.
LEMMA UpdateShows ==
  ASSUME Whole, Update
  PROVE  Log!Next
<1>1. /\ shown' = output /\ ~failed' /\ cancelled' = cancelled /\ handler # "returned"
      /\ handler' = handler /\ written' = written
  <2>1. handler = "returned" => drain = "done"
    BY DEF Whole, Drained
  <2> QED
    BY <2>1 DEF Update, toolVars
<1>2. output \in Amounts
  BY DEF Whole, Inductive, TypeOK
<1>3. \A s \in Streams : shown[s] <= output[s] /\ output[s] <= written[s]
  <2> TAKE s \in Streams
  <2>1. shown[s] <= output[s] /\ output[s] <= body[s]
    BY DEF Whole, Ordered, Precedes
  <2>2. body[s] \in Nat /\ written[s] \in Nat /\ output[s] \in Nat
    BY StreamAssumption DEF Whole, Inductive, TypeOK, Amounts
  <2>3. body[s] <= written[s]
    BY <2>2 DEF Whole, Inductive, Conserved
  <2> QED
    BY <2>1, <2>2, <2>3
<1>4. (cancelled \/ failed)' \in {cancelled \/ failed, FALSE}
  <2>1. CASE cancelled
    BY <1>1, <2>1
  <2>2. CASE ~cancelled
    BY <1>1, <2>2
  <2> QED
    BY <2>1, <2>2
<1>5. Log!Show(output)
  BY <1>1, <1>3, <1>4 DEF Log!Show
<1> QED
  BY <1>2, <1>5 DEF Log!Next

\* Every step of the six parties is one of OutputLog or a stutter.
LEMMA LogStep ==
  ASSUME Whole, AllShown', [Next]_vars
  PROVE  Log!Next \/ UNCHANGED Log!vars
<1>1. ASSUME NEW s \in Streams, ToolWrites(s)
      PROVE  Log!Next
  <2>1. handler # "returned"
    BY <1>1 DEF ToolWrites, Whole, Closing
  <2>2. Log!Write(s)
    BY <1>1, <2>1 DEF ToolWrites, drainVars, Log!Write
  <2> QED
    BY <2>2 DEF Log!Next
<1>2. CASE Update
  BY <1>2, UpdateShows
<1>3. CASE UpdateFails \/ Cancel
  <2>1. (cancelled \/ failed)' /\ UNCHANGED <<written, shown, handler>>
    BY <1>3 DEF UpdateFails, Cancel, toolVars, drainVars
  <2>2. Log!Break
    BY <2>1 DEF Log!Break
  <2> QED
    BY <2>2 DEF Log!Next
<1>4. CASE Return
  <2>1. handler' = "returned" /\ UNCHANGED <<written, shown, cancelled, failed>>
    BY <1>4 DEF Return, toolVars, drainVars
  <2>2. cancelled \/ failed \/ shown = written
    BY <2>1 DEF AllShown
  <2>3. Log!Finish
    BY <2>1, <2>2 DEF Log!Finish
  <2> QED
    BY <2>3 DEF Log!Next
<1>5. CASE UNCHANGED <<written, shown, cancelled, failed>> /\ (handler' = "returned" <=> handler = "returned")
  BY <1>5 DEF Log!vars
<1>6. ASSUME NEW s \in Streams, ClosePipe(s) \/ Reader(s)
      PROVE  UNCHANGED <<written, shown, cancelled, failed, handler>>
  BY <1>6 DEF ClosePipe, Reader, Read, ReadEnd, Gather, Send, toolVars, drainVars
<1>7. CASE CloseChannel
  BY <1>5, <1>7 DEF CloseChannel, toolVars, drainVars
<1> QED
  BY <1>1, <1>2, <1>3, <1>4, <1>5, <1>6, <1>7 DEF Next, Tool, ToolEnds, Handler, Drain, Receive,
     SeeClosed, SeeCancelled, TickerFires, Rest, vars, toolVars, drainVars

\* The pipes, the bounded channel and the ticker implement a log that grows and
\* ends complete, for every capacity, amount of output and number of failures.
\* [WithOutputStream, streamOutput]
THEOREM LogImplemented == Spec => ImplementsLog
<1>1. Init => Log!Init
  BY DEF Init, Log!Init, Nothing, Log!Nothing
<1>2. Whole /\ AllShown' /\ [Next]_vars => [Log!Next]_(Log!vars)
  BY LogStep
<1> QED
  BY <1>1, <1>2, WholeInvariant, OutputComplete, PTL DEF Spec, ImplementsLog, Log!Spec

=============================================================================
