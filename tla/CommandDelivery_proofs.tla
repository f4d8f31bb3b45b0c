------------------------ MODULE CommandDelivery_proofs ------------------------
(***************************************************************************)
(* Proofs about CommandDelivery, for any files and operations, sent by any *)
(* number of web threads, with and without SSL, however the file changes   *)
(* and whenever the connection ends.                                       *)
(***************************************************************************)
EXTENDS CommandDelivery, SequenceTheorems, TLAPS

-----------------------------------------------------------------------------
(* Types.                                                                  *)

\* An operation has no file to validate or to stream, and a file no text.
WellTyped ==
    /\ open \in BOOLEAN
    /\ file \in [exists : BOOLEAN, length : Lengths]
    /\ stage \in [Calls -> {"new", "skipped", "checked", "valid", "header", "written",
                            "streaming", "sent", "dataless"}]
    /\ \A r \in FileCalls : stage[r] # "written"
    /\ \A r \in Calls \ FileCalls : stage[r] \notin {"valid", "streaming", "sent", "dataless"}
    /\ declared \in [Calls -> Nat]
    /\ length \in [Calls -> Nat]
    /\ tasks \in Seq(Writes)
    /\ buffer \in Seq(Writes)
    /\ wire \in Seq(Calls \X {"header", "data", "part"})
    /\ future \in [Writes -> {"pending", "success", "failure"}]
    /\ mixed \subseteq Calls

LEMMA WriteTypes ==
    ASSUME NEW r \in Calls
    PROVE  /\ Header(r) \in Writes /\ Data(r) \in Writes /\ Header(r) # Data(r)
           /\ Header(r)[1] = r /\ Header(r)[2] = "header"
           /\ Data(r)[1] = r /\ Data(r)[2] = "data"
BY DEF Header, Data, Writes

\* A write is the header or the data of its call.
LEMMA WriteIs ==
    ASSUME NEW w \in Writes
    PROVE  /\ w[1] \in Calls
           /\ \/ w = Header(w[1]) /\ w[2] = "header"
              \/ w = Data(w[1]) /\ w[2] = "data"
           /\ w \in Calls \X {"header", "data", "part"}
BY DEF Header, Data, Writes

LEMMA TailFacts ==
    ASSUME NEW S, NEW s \in Seq(S), s # << >>
    PROVE  /\ Head(s) = s[1] /\ Head(s) \in S /\ 1 \in DOMAIN s
           /\ Tail(s) \in Seq(S) /\ Len(Tail(s)) = Len(s) - 1
           /\ DOMAIN s = 1 .. Len(s) /\ DOMAIN Tail(s) = 1 .. Len(s) - 1
           /\ Len(s) \in Nat /\ Len(s) > 0
           /\ \A i \in 1 .. Len(s) - 1 : Tail(s)[i] = s[i + 1]
OBVIOUS

LEMMA AppendFacts ==
    ASSUME NEW S, NEW s \in Seq(S), NEW e \in S
    PROVE  /\ Append(s, e) \in Seq(S) /\ Len(Append(s, e)) = Len(s) + 1
           /\ DOMAIN s = 1 .. Len(s) /\ DOMAIN Append(s, e) = 1 .. Len(s) + 1
           /\ Len(s) \in Nat
           /\ \A i \in 1 .. Len(s) : Append(s, e)[i] = s[i]
           /\ Append(s, e)[Len(s) + 1] = e
OBVIOUS

\* A write that reaches the channel.
LEMMA BufferedTyped ==
    ASSUME WellTyped, NEW w \in Writes, Buffered(w)
    PROVE  /\ buffer' \in Seq(Writes)
           /\ future' \in [Writes -> {"pending", "success", "failure"}]
<1>1. CASE open
  <2>1. buffer' = Append(buffer, w) /\ future' = future
    BY <1>1 DEF Buffered
  <2> QED  BY <2>1, AppendFacts DEF WellTyped
<1>2. CASE ~open
  BY <1>2 DEF WellTyped, Buffered
<1> QED  BY <1>1, <1>2

LEMMA TypedThread ==
    ASSUME WellTyped, NEW t \in WebThreads, WebThread(t)
    PROVE  WellTyped'
<1> USE FileCallsAssumption, LengthsAssumption DEF WellTyped, diskVars, netVars
<1> PICK r \in Calls : \/ Skip(t, r) \/ Check(t, r) \/ Validate(t, r) \/ ValidateFails(t, r)
                       \/ WriteHeader(t, r) \/ WriteText(t, r)
  BY DEF WebThread
<1>1. CASE Skip(t, r)
  BY <1>1 DEF Skip
<1>2. CASE Check(t, r)
  BY <1>2 DEF Check
<1>3. CASE Validate(t, r)
  BY <1>3 DEF Validate
<1>4. CASE ValidateFails(t, r)
  BY <1>4 DEF ValidateFails
<1>5. CASE WriteHeader(t, r)
  <2>1. LengthOf(r) \in Nat
    BY DEF LengthOf
  <2>2. tasks' \in Seq(Writes)
    <3>1. tasks' = Append(tasks, Header(r))
      BY <1>5 DEF WriteHeader, QueueHeader
    <3> QED  BY <3>1, WriteTypes, AppendFacts
  <2> QED  BY <1>5, <2>1, <2>2 DEF WriteHeader, QueueHeader
<1>6. CASE WriteText(t, r)
  <2>1. tasks' \in Seq(Writes)
    <3>1. tasks' = Append(tasks, Data(r))
      BY <1>6 DEF WriteText, QueueText
    <3> QED  BY <3>1, WriteTypes, AppendFacts
  <2> QED  BY <1>6, <2>1 DEF WriteText, QueueText
<1> QED  BY <1>1, <1>2, <1>3, <1>4, <1>5, <1>6

LEMMA TypedEventLoop ==
    ASSUME WellTyped, EventLoop
    PROVE  WellTyped'
<1> USE FileCallsAssumption, LengthsAssumption DEF WellTyped, diskVars, callVars, netVars
<1>1. CASE RunTask
  <2>1. Head(tasks) \in Writes /\ Tail(tasks) \in Seq(Writes)
    BY <1>1, TailFacts DEF RunTask
  <2>2. /\ buffer' \in Seq(Writes)
        /\ future' \in [Writes -> {"pending", "success", "failure"}]
    BY <1>1, <2>1, BufferedTyped DEF RunTask
  <2> QED  BY <1>1, <2>1, <2>2 DEF RunTask
<1>2. CASE Transmit
  <2>1. Head(buffer) \in Writes /\ Tail(buffer) \in Seq(Writes)
    BY <1>2, TailFacts DEF Transmit
  <2>2. Append(wire, Head(buffer)) \in Seq(Calls \X {"header", "data", "part"})
    BY <2>1, WriteIs, AppendFacts
  <2> QED  BY <1>2, <2>1, <2>2 DEF Transmit
<1>3. CASE TransmitPart
  <2>1. Head(buffer) \in Writes /\ Tail(buffer) \in Seq(Writes)
    BY <1>3, TailFacts DEF TransmitPart
  <2>2. <<Head(buffer)[1], "part">> \in Calls \X {"header", "data", "part"}
    BY <2>1, WriteIs
  <2>3. Append(wire, <<Head(buffer)[1], "part">>) \in Seq(Calls \X {"header", "data", "part"})
    BY <2>2, AppendFacts
  <2> QED  BY <1>3, <2>1, <2>3 DEF TransmitPart
<1>4. ASSUME NEW r \in Calls, HeaderListener(r) PROVE WellTyped'
  <2>1. Buffered(Data(r)) /\ Data(r) \in Writes
    BY <1>4, WriteTypes DEF HeaderListener, StreamFile
  <2>2. /\ buffer' \in Seq(Writes)
        /\ future' \in [Writes -> {"pending", "success", "failure"}]
    BY <2>1, BufferedTyped
  <2> QED  BY <1>4, <2>2 DEF HeaderListener, StreamFile
<1>5. ASSUME NEW r \in Calls, HeaderListenerThrows(r) PROVE WellTyped'
  BY <1>5 DEF HeaderListenerThrows
<1>6. ASSUME NEW r \in Calls, DataListener(r) PROVE WellTyped'
  BY <1>6 DEF DataListener, Report
<1> QED  BY <1>1, <1>2, <1>3, <1>4, <1>5, <1>6 DEF EventLoop

LEMMA TypedSurroundings ==
    ASSUME WellTyped, Close \/ FileChanges \/ UNCHANGED vars
    PROVE  WellTyped'
<1> USE DEF WellTyped, diskVars, callVars, netVars
<1>1. CASE Close
  BY <1>1, EmptySeq DEF Close
<1>2. CASE FileChanges
  BY <1>2 DEF FileChanges
<1>3. CASE UNCHANGED vars
  BY <1>3 DEF vars
<1> QED  BY <1>1, <1>2, <1>3

LEMMA TypedInductive == Spec => []WellTyped
<1>1. Init => WellTyped
  <2> SUFFICES ASSUME Init PROVE WellTyped
    OBVIOUS
  <2>1. tasks \in Seq(Writes) /\ buffer \in Seq(Writes)
        /\ wire \in Seq(Calls \X {"header", "data", "part"})
    BY EmptySeq DEF Init
  <2>2. file \in [exists : BOOLEAN, length : Lengths]
    BY DEF Init
  <2> QED  BY <2>1, <2>2, FileCallsAssumption DEF Init, WellTyped
<1>2. WellTyped /\ [Next]_vars => WellTyped'
  BY TypedThread, TypedEventLoop, TypedSurroundings DEF Next
<1> QED  BY <1>1, <1>2, PTL DEF Spec

-----------------------------------------------------------------------------
(* The file handles.                                                       *)

\* A handle is left over from a file that was empty or could not be measured, or it is that
\* of a file which is being sent.
HandlesInUse ==
    \A h \in handles :
        /\ h \in Calls \X {"validation", "data"}
        /\ h \in unmeasured \/ (h[2] = "data" /\ stage[h[1]] = "streaming")

LEMMA HandlesInductive == Spec => []HandlesInUse
<1>1. Init => HandlesInUse
  BY DEF Init, HandlesInUse
<1>2. ASSUME WellTyped, HandlesInUse, [Next]_vars PROVE HandlesInUse'
  <2> USE <1>2 DEF HandlesInUse, WellTyped
  <2>1. CASE UNCHANGED <<handles, unmeasured, stage>>
    BY <2>1
  <2>2. ASSUME NEW r \in Calls, NEW s, stage[r] # "streaming", stage' = [stage EXCEPT ![r] = s],
               UNCHANGED <<handles, unmeasured>>
        PROVE HandlesInUse'
    BY <2>2
  <2>3. ASSUME NEW t \in WebThreads, WebThread(t) PROVE HandlesInUse'
    <3> PICK r \in Calls : \/ Skip(t, r) \/ Check(t, r) \/ Validate(t, r)
                           \/ ValidateFails(t, r) \/ WriteHeader(t, r) \/ WriteText(t, r)
      BY <2>3 DEF WebThread
    <3>1. CASE Validate(t, r) \/ ValidateFails(t, r)
      BY <3>1 DEF Validate, ValidateFails, Unmeasurable, LeftOpen
    <3>2. CASE Skip(t, r) \/ Check(t, r) \/ WriteHeader(t, r) \/ WriteText(t, r)
      BY <2>2, <3>2 DEF Skip, Check, WriteHeader, QueueHeader, WriteText, QueueText
    <3> QED  BY <3>1, <3>2
  <2>4. CASE EventLoop
    <3>1. CASE RunTask \/ Transmit \/ TransmitPart
      BY <2>1, <3>1 DEF RunTask, Transmit, TransmitPart, callVars
    <3>2. ASSUME NEW r \in Calls, HeaderListener(r) PROVE HandlesInUse'
      BY <3>2 DEF HeaderListener, StreamFile
    <3>3. ASSUME NEW r \in Calls, HeaderListenerThrows(r) PROVE HandlesInUse'
      BY <3>3 DEF HeaderListenerThrows, Unmeasurable, LeftOpen
    <3>4. ASSUME NEW r \in Calls, DataListener(r) PROVE HandlesInUse'
      <4>1. /\ stage' = [stage EXCEPT ![r] = "sent"] /\ handles' = handles \ {<<r, "data">>}
            /\ unmeasured' = unmeasured
        BY <3>4 DEF DataListener, Report
      <4>2. \A h \in handles' : h[2] = "data" => h[1] # r
        BY <4>1
      <4> QED  BY <4>1, <4>2
    <3> QED  BY <2>4, <3>1, <3>2, <3>3, <3>4 DEF EventLoop
  <2>5. CASE Close \/ FileChanges \/ UNCHANGED vars
    BY <2>1, <2>5 DEF Close, FileChanges, vars, callVars
  <2> QED  BY <2>3, <2>4, <2>5 DEF Next
<1> QED  BY <1>1, <1>2, TypedInductive, PTL DEF Spec

\* The only handles that calls leave behind are those of files that were empty when they
\* were validated or that could not be measured, however calls and listeners interleave and
\* wherever one of them stops.
THEOREM OnlyUnmeasuredKeepHandles == Spec => []OnlyUnmeasuredLeak
<1>1. HandlesInUse => OnlyUnmeasuredLeak
  BY DEF HandlesInUse, OnlyUnmeasuredLeak
<1> QED  BY <1>1, HandlesInductive, PTL

-----------------------------------------------------------------------------
(* The pipe: the tasks of the event loop and the outbound buffer.          *)

\* The writes in the tasks, and in the buffer.
InTasks(w) == \E i \in DOMAIN tasks : tasks[i] = w
InBuffer(w) == \E i \in DOMAIN buffer : buffer[i] = w

\* A write in the pipe is that of a call under way, which still waits for it.
Waits(w) ==
    /\ future[w] = "pending"
    /\ Underway(w[1])
    /\ w[2] = "data" => stage[w[1]] # "header"

Pipe ==
    /\ ~open => buffer = << >>
    /\ \A w \in Writes : InTasks(w) \/ InBuffer(w) => Waits(w)

\* No write is in the pipe twice.
Once ==
    /\ \A i, j \in DOMAIN tasks : tasks[i] = tasks[j] => i = j
    /\ \A i, j \in DOMAIN buffer : buffer[i] = buffer[j] => i = j
    /\ \A w \in Writes : ~(InTasks(w) /\ InBuffer(w))

\* Whatever is written in between, the data of a call does not overtake its header.
HeaderFirst ==
    \A r \in Calls :
        /\ \A i, j \in DOMAIN tasks : tasks[i] = Header(r) /\ tasks[j] = Data(r) => i < j
        /\ \A i, j \in DOMAIN buffer : buffer[i] = Header(r) /\ buffer[j] = Data(r) => i < j
        /\ ~(InTasks(Header(r)) /\ InBuffer(Data(r)))

\* How far a call can be by what has become of its writes.
Progress ==
    \A r \in Calls :
        /\ stage[r] \in {"new", "skipped", "checked", "valid"}
            => future[Header(r)] = "pending" /\ future[Data(r)] = "pending"
        /\ stage[r] \in {"header", "dataless"} => future[Data(r)] = "pending"
        /\ stage[r] \in {"streaming", "sent", "dataless"} => future[Header(r)] # "pending"
        /\ stage[r] = "sent" => future[Data(r)] # "pending"
        /\ stage[r] \in {"header", "written"}
            => future[Header(r)] # "pending" \/ InTasks(Header(r)) \/ InBuffer(Header(r))

PipeInv == WellTyped /\ Pipe /\ Once /\ HeaderFirst /\ Progress

\* A write that stays in the pipe is waited for still.
LEMMA WaitsOn ==
    ASSUME NEW w, Waits(w), future'[w] = future[w],
           future'[Data(w[1])] = future[Data(w[1])],
           \/ stage'[w[1]] = stage[w[1]]
           \/ stage[w[1]] = "header" /\ stage'[w[1]] \in {"written", "streaming"}
    PROVE  Waits(w)'
BY DEF Waits, Underway

LEMMA PipeTypes ==
    ASSUME WellTyped
    PROVE  /\ DOMAIN tasks = 1 .. Len(tasks) /\ Len(tasks) \in Nat
           /\ DOMAIN buffer = 1 .. Len(buffer) /\ Len(buffer) \in Nat
           /\ \A i \in DOMAIN tasks : tasks[i] \in Writes
           /\ \A i \in DOMAIN buffer : buffer[i] \in Writes
BY DEF WellTyped

\* A web thread queues a header, or the text of an operation that has queued its header.
LEMMA TasksGrow ==
    ASSUME PipeInv, NEW r \in Calls, NEW w \in {Header(r), Data(r)}, NEW s,
           tasks' = Append(tasks, w), stage' = [stage EXCEPT ![r] = s],
           UNCHANGED <<open, buffer, future>>,
           \/ w = Header(r) /\ stage[r] \in {"new", "checked", "valid"} /\ s = "header"
           \/ w = Data(r) /\ stage[r] = "header" /\ s = "written"
    PROVE  Pipe' /\ Once' /\ HeaderFirst' /\ Progress'
<1> USE DEF PipeInv
<1>1. w \in Writes /\ Header(r) # Data(r) /\ w[1] = r
  BY WriteTypes
<1>2. /\ DOMAIN tasks = 1 .. Len(tasks) /\ DOMAIN tasks' = 1 .. Len(tasks) + 1
      /\ Len(tasks) \in Nat
      /\ \A i \in 1 .. Len(tasks) : tasks'[i] = tasks[i]
      /\ tasks'[Len(tasks) + 1] = w
  BY <1>1, AppendFacts DEF WellTyped
<1>3. stage'[r] = s /\ \A q \in Calls : q # r => stage'[q] = stage[q]
  BY DEF WellTyped
<1>4. /\ ~InTasks(w) /\ ~InBuffer(w)
      /\ w = Header(r) => ~InTasks(Data(r)) /\ ~InBuffer(Data(r))
  BY WriteTypes DEF Pipe, Waits, Underway
<1>5. future[w] = "pending" /\ future[Data(r)] = "pending"
  BY DEF Progress
<1>6. Waits(w)'
  BY <1>1, <1>3, <1>5, WriteTypes DEF Waits, Underway
<1>7. \A v \in Writes : InTasks(v)' <=> InTasks(v) \/ v = w
  BY <1>2 DEF InTasks
<1>8. ASSUME NEW v \in Writes, Waits(v), v # w PROVE Waits(v)'
  <2>1. CASE v[1] # r
    BY <1>3, <1>8, <2>1, WriteIs, WaitsOn
  <2>2. CASE v[1] = r
    <3>1. stage[r] = "header" /\ s = "written"
      BY <1>8, <2>2 DEF Waits, Underway
    <3> QED  BY <1>3, <1>8, <2>2, <3>1, WaitsOn
  <2> QED  BY <2>1, <2>2
<1>9. Pipe'
  <2>1. \A v \in Writes : InBuffer(v)' <=> InBuffer(v)
    BY DEF InBuffer
  <2>2. ASSUME NEW v \in Writes, InTasks(v)' \/ InBuffer(v)' PROVE Waits(v)'
    <3>1. CASE v = w
      BY <1>6, <3>1 DEF Waits, Underway
    <3>2. CASE v # w
      BY <1>7, <1>8, <2>1, <2>2, <3>2 DEF Pipe
    <3> QED  BY <3>1, <3>2
  <2> QED  BY <2>2 DEF Pipe
<1>10. Once'
  <2>1. \A i \in DOMAIN tasks : tasks[i] # w
    BY <1>4 DEF InTasks
  <2>2. \A v \in Writes : ~(InTasks(v)' /\ InBuffer(v)')
    BY <1>4, <1>7 DEF Once, InBuffer
  <2> QED  BY <1>2, <2>1, <2>2 DEF Once
<1>11. HeaderFirst'
  <2>1. ASSUME NEW q \in Calls, NEW i \in DOMAIN tasks', NEW j \in DOMAIN tasks',
               tasks'[i] = Header(q), tasks'[j] = Data(q)
        PROVE  i < j
    <3>1. CASE i \in 1 .. Len(tasks)
      BY <1>2, <2>1, <3>1 DEF HeaderFirst
    <3>2. CASE i = Len(tasks) + 1
      <4>1. w = Header(q) /\ q = r
        BY <1>2, <2>1, <3>2, WriteTypes
      <4>2. tasks'[j] = Data(r) /\ Data(r) # w
        BY <1>1, <2>1, <4>1
      <4> QED  BY <1>2, <1>4, <4>1, <4>2 DEF InTasks
    <3> QED  BY <1>2, <3>1, <3>2
  <2>2. ASSUME NEW q \in Calls, InTasks(Header(q))', InBuffer(Data(q))' PROVE FALSE
    <3>1. InBuffer(Data(q)) /\ Header(q) \in Writes
      BY <2>2, WriteTypes DEF InBuffer
    <3>2. Header(q) = w
      BY <1>7, <2>2, <3>1 DEF HeaderFirst
    <3>3. q = r /\ w = Header(r)
      BY <1>1, <3>2, WriteTypes
    <3> QED  BY <1>4, <3>1, <3>3
  <2> QED  BY <2>1, <2>2 DEF HeaderFirst
<1>12. Progress'
  <2>1. \A q \in Calls : InTasks(Header(q)) \/ InBuffer(Header(q)) =>
                            InTasks(Header(q))' \/ InBuffer(Header(q))'
    BY <1>7, WriteTypes DEF InBuffer
  <2>2. w = Header(r) => InTasks(Header(r))'
    BY <1>2 DEF InTasks
  <2> QED  BY <1>3, <1>5, <2>1, <2>2 DEF Progress
<1> QED  BY <1>9, <1>10, <1>11, <1>12

\* The event loop takes the first task.
LEMMA TasksShrink ==
    ASSUME PipeInv, tasks # << >>, tasks' = Tail(tasks), NEW h, h = Head(tasks)
    PROVE  /\ h \in Writes /\ Waits(h) /\ InTasks(h)
           /\ ~InTasks(h)' /\ ~InBuffer(h)
           /\ \A w \in Writes : InTasks(w) <=> InTasks(w)' \/ w = h
           /\ \A r \in Calls : h = Data(r) => ~InTasks(Header(r))
           /\ \A i, j \in DOMAIN tasks' : tasks'[i] = tasks'[j] => i = j
           /\ \A r \in Calls : \A i, j \in DOMAIN tasks' :
                tasks'[i] = Header(r) /\ tasks'[j] = Data(r) => i < j
<1> USE DEF PipeInv
<1>1. /\ DOMAIN tasks = 1 .. Len(tasks) /\ DOMAIN tasks' = 1 .. Len(tasks) - 1
      /\ Len(tasks) \in Nat /\ Len(tasks) > 0
      /\ \A i \in 1 .. Len(tasks) - 1 : tasks'[i] = tasks[i + 1]
      /\ tasks[1] = h /\ h \in Writes
  BY TailFacts DEF WellTyped
<1>2. InTasks(h)
  BY <1>1 DEF InTasks
<1>3. Waits(h) /\ ~InBuffer(h)
  BY <1>1, <1>2 DEF Pipe, Once
<1>4. ~InTasks(h)'
  <2>1. \A i \in DOMAIN tasks' : tasks'[i] # h
    BY <1>1 DEF Once
  <2> QED  BY <2>1 DEF InTasks
<1>5. ASSUME NEW w \in Writes PROVE InTasks(w) <=> InTasks(w)' \/ w = h
  <2>1. InTasks(w)' => InTasks(w)
    BY <1>1 DEF InTasks
  <2>2. ASSUME NEW i \in DOMAIN tasks, tasks[i] = w, w # h PROVE InTasks(w)'
    <3>1. i - 1 \in DOMAIN tasks' /\ tasks'[i - 1] = w
      BY <1>1, <2>2
    <3> QED  BY <3>1 DEF InTasks
  <2> QED  BY <1>2, <2>1, <2>2 DEF InTasks
<1>6. \A r \in Calls : h = Data(r) => ~InTasks(Header(r))
  BY <1>1 DEF HeaderFirst, InTasks
<1>7. \A i, j \in DOMAIN tasks' : tasks'[i] = tasks'[j] => i = j
  BY <1>1 DEF Once
<1>8. ASSUME NEW r \in Calls, NEW i \in DOMAIN tasks', NEW j \in DOMAIN tasks',
             tasks'[i] = Header(r), tasks'[j] = Data(r)
      PROVE  i < j
  <2>1. tasks[i + 1] = Header(r) /\ tasks[j + 1] = Data(r)
    BY <1>1, <1>8
  <2>2. i + 1 \in DOMAIN tasks /\ j + 1 \in DOMAIN tasks /\ i \in Int /\ j \in Int
    BY <1>1
  <2>3. i + 1 < j + 1
    BY <2>1, <2>2 DEF HeaderFirst
  <2> QED  BY <2>2, <2>3
<1> QED  BY <1>1, <1>2, <1>3, <1>4, <1>5, <1>6, <1>7, <1>8

\* A write is appended to the buffer.
LEMMA BufferGrows ==
    ASSUME PipeInv, NEW w \in Writes, ~InBuffer(w), buffer' = Append(buffer, w)
    PROVE  /\ \A v \in Writes : InBuffer(v)' <=> InBuffer(v) \/ v = w
           /\ \A i, j \in DOMAIN buffer' : buffer'[i] = buffer'[j] => i = j
           /\ \A r \in Calls : ~(w = Header(r) /\ InBuffer(Data(r))) =>
                \A i, j \in DOMAIN buffer' :
                    buffer'[i] = Header(r) /\ buffer'[j] = Data(r) => i < j
<1> USE DEF PipeInv
<1>1. /\ DOMAIN buffer = 1 .. Len(buffer) /\ DOMAIN buffer' = 1 .. Len(buffer) + 1
      /\ Len(buffer) \in Nat
      /\ \A i \in 1 .. Len(buffer) : buffer'[i] = buffer[i]
      /\ buffer'[Len(buffer) + 1] = w
  BY AppendFacts DEF WellTyped
<1>2. \A v \in Writes : InBuffer(v)' <=> InBuffer(v) \/ v = w
  BY <1>1 DEF InBuffer
<1>3. \A i \in DOMAIN buffer : buffer[i] # w
  BY DEF InBuffer
<1>4. \A i, j \in DOMAIN buffer' : buffer'[i] = buffer'[j] => i = j
  BY <1>1, <1>3 DEF Once
<1>5. ASSUME NEW r \in Calls, ~(w = Header(r) /\ InBuffer(Data(r))),
             NEW i \in DOMAIN buffer', NEW j \in DOMAIN buffer',
             buffer'[i] = Header(r), buffer'[j] = Data(r)
      PROVE  i < j
  <2>1. CASE i \in 1 .. Len(buffer) /\ j \in 1 .. Len(buffer)
    BY <1>1, <1>5, <2>1 DEF HeaderFirst
  <2>2. CASE i \in 1 .. Len(buffer) /\ j = Len(buffer) + 1
    BY <1>1, <2>2
  <2>3. CASE i = Len(buffer) + 1
    <3>1. w = Header(r) /\ w # Data(r)
      BY <1>1, <1>5, <2>3, WriteTypes
    <3>2. j \in 1 .. Len(buffer) /\ buffer[j] = Data(r)
      BY <1>1, <1>5, <3>1
    <3> QED  BY <1>1, <1>5, <3>1, <3>2 DEF InBuffer
  <2> QED  BY <1>1, <2>1, <2>2, <2>3
<1> QED  BY <1>2, <1>4, <1>5

\* The first write leaves the buffer.
LEMMA BufferShrinks ==
    ASSUME PipeInv, buffer # << >>, buffer' = Tail(buffer), NEW h, h = Head(buffer)
    PROVE  /\ h \in Writes /\ Waits(h) /\ InBuffer(h)
           /\ ~InBuffer(h)' /\ ~InTasks(h)
           /\ \A w \in Writes : InBuffer(w) <=> InBuffer(w)' \/ w = h
           /\ \A r \in Calls : h = Data(r) =>
                ~InBuffer(Header(r)) /\ ~InTasks(Header(r))
           /\ \A i, j \in DOMAIN buffer' : buffer'[i] = buffer'[j] => i = j
           /\ \A r \in Calls : \A i, j \in DOMAIN buffer' :
                buffer'[i] = Header(r) /\ buffer'[j] = Data(r) => i < j
<1> USE DEF PipeInv
<1>1. /\ DOMAIN buffer = 1 .. Len(buffer) /\ DOMAIN buffer' = 1 .. Len(buffer) - 1
      /\ Len(buffer) \in Nat /\ Len(buffer) > 0
      /\ \A i \in 1 .. Len(buffer) - 1 : buffer'[i] = buffer[i + 1]
      /\ buffer[1] = h /\ h \in Writes
  BY TailFacts DEF WellTyped
<1>2. InBuffer(h)
  BY <1>1 DEF InBuffer
<1>3. Waits(h) /\ ~InTasks(h)
  BY <1>1, <1>2 DEF Pipe, Once
<1>4. ~InBuffer(h)'
  <2>1. \A i \in DOMAIN buffer' : buffer'[i] # h
    BY <1>1 DEF Once
  <2> QED  BY <2>1 DEF InBuffer
<1>5. ASSUME NEW w \in Writes PROVE InBuffer(w) <=> InBuffer(w)' \/ w = h
  <2>1. InBuffer(w)' => InBuffer(w)
    BY <1>1 DEF InBuffer
  <2>2. ASSUME NEW i \in DOMAIN buffer, buffer[i] = w, w # h PROVE InBuffer(w)'
    <3>1. i - 1 \in DOMAIN buffer' /\ buffer'[i - 1] = w
      BY <1>1, <2>2
    <3> QED  BY <3>1 DEF InBuffer
  <2> QED  BY <1>2, <2>1, <2>2 DEF InBuffer
<1>6. \A r \in Calls : h = Data(r) => ~InBuffer(Header(r)) /\ ~InTasks(Header(r))
  BY <1>1, <1>2 DEF HeaderFirst, InBuffer
<1>7. \A i, j \in DOMAIN buffer' : buffer'[i] = buffer'[j] => i = j
  BY <1>1 DEF Once
<1>8. ASSUME NEW r \in Calls, NEW i \in DOMAIN buffer', NEW j \in DOMAIN buffer',
             buffer'[i] = Header(r), buffer'[j] = Data(r)
      PROVE  i < j
  <2>1. buffer[i + 1] = Header(r) /\ buffer[j + 1] = Data(r)
    BY <1>1, <1>8
  <2>2. i + 1 \in DOMAIN buffer /\ j + 1 \in DOMAIN buffer /\ i \in Int /\ j \in Int
    BY <1>1
  <2>3. i + 1 < j + 1
    BY <2>1, <2>2 DEF HeaderFirst
  <2> QED  BY <2>2, <2>3
<1> QED  BY <1>1, <1>2, <1>3, <1>4, <1>5, <1>6, <1>7, <1>8

\* A task is run on an open channel: its write moves to the end of the buffer.
LEMMA TaskBuffered ==
    ASSUME PipeInv, tasks # << >>, tasks' = Tail(tasks), buffer' = Append(buffer, Head(tasks)),
           open, UNCHANGED <<open, stage, future>>
    PROVE  Pipe' /\ Once' /\ HeaderFirst' /\ Progress'
<1> USE DEF PipeInv
<1> DEFINE h == Head(tasks)
<1>1. /\ h \in Writes /\ Waits(h) /\ InTasks(h)
      /\ ~InBuffer(h)
      /\ \A w \in Writes : InTasks(w) <=> InTasks(w)' \/ w = h
      /\ \A r \in Calls : h = Data(r) => ~InTasks(Header(r))
      /\ \A i, j \in DOMAIN tasks' : tasks'[i] = tasks'[j] => i = j
      /\ \A r \in Calls : \A i, j \in DOMAIN tasks' :
            tasks'[i] = Header(r) /\ tasks'[j] = Data(r) => i < j
  BY TasksShrink
<1>2. \A w \in Writes : w = h => ~InTasks(w)'
  BY TasksShrink
<1>3. buffer' = Append(buffer, h)
  OBVIOUS
<1> HIDE DEF h
<1>4. /\ \A w \in Writes : InBuffer(w)' <=> InBuffer(w) \/ w = h
      /\ \A i, j \in DOMAIN buffer' : buffer'[i] = buffer'[j] => i = j
      /\ \A r \in Calls : ~(h = Header(r) /\ InBuffer(Data(r))) =>
            \A i, j \in DOMAIN buffer' :
                buffer'[i] = Header(r) /\ buffer'[j] = Data(r) => i < j
  BY <1>1, <1>3, BufferGrows
<1>5. \A w \in Writes : InTasks(w)' \/ InBuffer(w)' <=> InTasks(w) \/ InBuffer(w)
  BY <1>1, <1>4
<1>6. Pipe'
  BY <1>5 DEF Pipe, Waits, Underway
<1>7. Once'
  <2>1. \A w \in Writes : ~(InTasks(w)' /\ InBuffer(w)')
    BY <1>1, <1>2, <1>4 DEF Once
  <2> QED  BY <1>1, <1>4, <2>1 DEF Once
<1>8. HeaderFirst'
  <2>1. \A r \in Calls : ~(h = Header(r) /\ InBuffer(Data(r)))
    BY <1>1 DEF HeaderFirst
  <2>2. \A r \in Calls : ~(InTasks(Header(r))' /\ InBuffer(Data(r))')
    BY <1>1, <1>4, WriteTypes DEF HeaderFirst
  <2> QED  BY <1>1, <1>4, <2>1, <2>2 DEF HeaderFirst
<1>9. Progress'
  BY <1>5, WriteTypes DEF Progress
<1> QED  BY <1>6, <1>7, <1>8, <1>9

\* The first write of the tasks or of the buffer is done: it leaves the pipe.
LEMMA FirstDone ==
    ASSUME PipeInv, NEW h \in Writes, Waits(h), NEW o \in {"success", "failure"},
           \A r \in Calls : h = Data(r) => ~InTasks(Header(r)) /\ ~InBuffer(Header(r)),
           \A w \in Writes : InTasks(w)' \/ InBuffer(w)' <=> (InTasks(w) \/ InBuffer(w)) /\ w # h,
           \A w \in Writes : InTasks(w)' => InTasks(w),
           \A w \in Writes : InBuffer(w)' => InBuffer(w),
           future' = [future EXCEPT ![h] = o], UNCHANGED <<open, stage>>,
           open \/ UNCHANGED buffer
    PROVE  /\ Pipe' /\ Progress'
           /\ \A w \in Writes : ~(InTasks(w)' /\ InBuffer(w)')
           /\ \A r \in Calls : ~(InTasks(Header(r))' /\ InBuffer(Data(r))')
<1> USE DEF PipeInv
<1>1. future'[h] = o /\ \A w \in Writes : w # h => future'[w] = future[w]
  BY DEF WellTyped
<1>2. ASSUME NEW w \in Writes, InTasks(w)' \/ InBuffer(w)' PROVE Waits(w)'
  <2>1. w # h /\ Waits(w)
    BY <1>2 DEF Pipe
  <2>2. w[1] \in Calls /\ Data(w[1]) \in Writes
    BY WriteIs, WriteTypes
  <2>3. Data(w[1]) # h
    <3>1. CASE w = Data(w[1])
      BY <2>1, <3>1
    <3>2. CASE w = Header(w[1])
      BY <1>2, <2>2, <3>2
    <3> QED  BY <3>1, <3>2, WriteIs
  <2> QED  BY <1>1, <2>1, <2>2, <2>3, WaitsOn
<1>3. Pipe'
  BY <1>2 DEF Pipe
<1>4. Progress'
  <2> SUFFICES ASSUME NEW r \in Calls
               PROVE  /\ stage[r] \in {"new", "skipped", "checked", "valid"}
                        => future'[Header(r)] = "pending" /\ future'[Data(r)] = "pending"
                      /\ stage[r] \in {"header", "dataless"} => future'[Data(r)] = "pending"
                      /\ stage[r] \in {"streaming", "sent", "dataless"} => future'[Header(r)] # "pending"
                      /\ stage[r] = "sent" => future'[Data(r)] # "pending"
                      /\ stage[r] \in {"header", "written"} =>
                            future'[Header(r)] # "pending" \/ InTasks(Header(r))' \/ InBuffer(Header(r))'
    BY DEF Progress
  <2>1. Header(r) \in Writes /\ Data(r) \in Writes /\ Header(r) # Data(r)
    BY WriteTypes
  <2>2. h = Header(r) => stage[r] \in {"header", "written", "streaming"}
    BY WriteTypes DEF Waits, Underway
  <2>3. h = Data(r) => stage[r] \in {"written", "streaming"}
    BY WriteTypes DEF Waits, Underway
  <2>4. InTasks(Header(r)) \/ InBuffer(Header(r)) =>
            Header(r) = h \/ InTasks(Header(r))' \/ InBuffer(Header(r))'
    BY <2>1
  <2> QED  BY <1>1, <2>1, <2>2, <2>3, <2>4 DEF Progress
<1>5. \A w \in Writes : ~(InTasks(w)' /\ InBuffer(w)')
  BY DEF Once
<1>6. \A r \in Calls : ~(InTasks(Header(r))' /\ InBuffer(Data(r))')
  BY WriteTypes DEF HeaderFirst
<1> QED  BY <1>3, <1>4, <1>5, <1>6

\* A task is run on a closed channel: its write fails.
LEMMA TaskFails ==
    ASSUME PipeInv, tasks # << >>, tasks' = Tail(tasks), ~open,
           future' = [future EXCEPT ![Head(tasks)] = "failure"], UNCHANGED <<open, stage, buffer>>
    PROVE  Pipe' /\ Once' /\ HeaderFirst' /\ Progress'
<1> USE DEF PipeInv
<1> DEFINE h == Head(tasks)
<1>1. /\ h \in Writes /\ Waits(h)
      /\ \A w \in Writes : InTasks(w) <=> InTasks(w)' \/ w = h
      /\ \A r \in Calls : h = Data(r) => ~InTasks(Header(r))
      /\ \A i, j \in DOMAIN tasks' : tasks'[i] = tasks'[j] => i = j
      /\ \A r \in Calls : \A i, j \in DOMAIN tasks' :
            tasks'[i] = Header(r) /\ tasks'[j] = Data(r) => i < j
  BY TasksShrink
<1>2. \A w \in Writes : w = h => ~InTasks(w)'
  BY TasksShrink
<1>3. future' = [future EXCEPT ![h] = "failure"]
  OBVIOUS
<1> HIDE DEF h
<1>4. \A w \in Writes : ~InBuffer(w) /\ ~InBuffer(w)'
  BY DEF Pipe, InBuffer
<1>5. /\ \A w \in Writes : InTasks(w)' \/ InBuffer(w)' <=> (InTasks(w) \/ InBuffer(w)) /\ w # h
      /\ \A r \in Calls : h = Data(r) => ~InTasks(Header(r)) /\ ~InBuffer(Header(r))
  BY <1>1, <1>2, <1>4, WriteTypes
<1>6. /\ Pipe' /\ Progress'
      /\ \A w \in Writes : ~(InTasks(w)' /\ InBuffer(w)')
      /\ \A r \in Calls : ~(InTasks(Header(r))' /\ InBuffer(Data(r))')
  BY <1>1, <1>3, <1>4, <1>5, FirstDone
<1>7. Once'
  BY <1>1, <1>6 DEF Once
<1>8. HeaderFirst'
  BY <1>1, <1>6 DEF HeaderFirst
<1> QED  BY <1>6, <1>7, <1>8

\* The first write of the buffer is sent, or its data are cut short.
LEMMA BufferSent ==
    ASSUME PipeInv, buffer # << >>, buffer' = Tail(buffer), NEW o \in {"success", "failure"},
           future' = [future EXCEPT ![Head(buffer)] = o], UNCHANGED <<open, stage, tasks>>
    PROVE  Pipe' /\ Once' /\ HeaderFirst' /\ Progress'
<1> USE DEF PipeInv
<1> DEFINE h == Head(buffer)
<1>1. /\ h \in Writes /\ Waits(h) /\ ~InTasks(h)
      /\ \A w \in Writes : InBuffer(w) <=> InBuffer(w)' \/ w = h
      /\ \A r \in Calls : h = Data(r) => ~InBuffer(Header(r)) /\ ~InTasks(Header(r))
      /\ \A i, j \in DOMAIN buffer' : buffer'[i] = buffer'[j] => i = j
      /\ \A r \in Calls : \A i, j \in DOMAIN buffer' :
            buffer'[i] = Header(r) /\ buffer'[j] = Data(r) => i < j
  BY BufferShrinks
<1>2. \A w \in Writes : w = h => ~InBuffer(w)'
  BY BufferShrinks
<1>3. future' = [future EXCEPT ![h] = o]
  OBVIOUS
<1> HIDE DEF h
<1>4. \A w : InTasks(w)' <=> InTasks(w)
  BY DEF InTasks
<1>5. \A w \in Writes : InTasks(w)' \/ InBuffer(w)' <=> (InTasks(w) \/ InBuffer(w)) /\ w # h
  BY <1>1, <1>2, <1>4
<1>6. open
  BY DEF Pipe
<1>7. /\ Pipe' /\ Progress'
      /\ \A w \in Writes : ~(InTasks(w)' /\ InBuffer(w)')
      /\ \A r \in Calls : ~(InTasks(Header(r))' /\ InBuffer(Data(r))')
  BY <1>1, <1>3, <1>4, <1>5, <1>6, FirstDone
<1>8. Once'
  BY <1>1, <1>7 DEF Once
<1>9. HeaderFirst'
  BY <1>1, <1>7 DEF HeaderFirst
<1> QED  BY <1>7, <1>8, <1>9

\* The data of a file are written, behind whatever is in the buffer.
LEMMA DataBuffered ==
    ASSUME PipeInv, NEW r \in Calls, stage[r] = "header", future[Header(r)] # "pending",
           stage' = [stage EXCEPT ![r] = "streaming"],
           open, buffer' = Append(buffer, Data(r)), UNCHANGED <<open, tasks, future>>
    PROVE  Pipe' /\ Once' /\ HeaderFirst' /\ Progress'
<1> USE DEF PipeInv
<1>1. /\ Data(r) \in Writes /\ Header(r) \in Writes
      /\ ~InTasks(Data(r)) /\ ~InBuffer(Data(r)) /\ ~InTasks(Header(r))
  BY WriteTypes DEF Pipe, Waits
<1>2. /\ \A w \in Writes : InBuffer(w)' <=> InBuffer(w) \/ w = Data(r)
      /\ \A i, j \in DOMAIN buffer' : buffer'[i] = buffer'[j] => i = j
      /\ \A q \in Calls : ~(Data(r) = Header(q) /\ InBuffer(Data(q))) =>
            \A i, j \in DOMAIN buffer' :
                buffer'[i] = Header(q) /\ buffer'[j] = Data(q) => i < j
  BY <1>1, BufferGrows
<1>3. \A w : InTasks(w)' <=> InTasks(w)
  BY DEF InTasks
<1>4. stage'[r] = "streaming" /\ \A q \in Calls : q # r => stage'[q] = stage[q]
  BY DEF WellTyped
<1>5. future[Data(r)] = "pending"
  BY DEF Progress
<1>6. ASSUME NEW w \in Writes, InTasks(w)' \/ InBuffer(w)' PROVE Waits(w)'
  <2>1. CASE w = Data(r)
    <3>1. w[1] = r
      BY <2>1, WriteTypes
    <3> QED  BY <1>4, <1>5, <2>1, <3>1 DEF Waits, Underway
  <2>2. CASE w # Data(r)
    <3>1. Waits(w)
      BY <1>2, <1>3, <1>6, <2>2 DEF Pipe
    <3>2. \/ stage'[w[1]] = stage[w[1]]
          \/ stage[w[1]] = "header" /\ stage'[w[1]] = "streaming"
      BY <1>4, WriteIs
    <3> QED  BY <3>1, <3>2, WaitsOn
  <2> QED  BY <2>1, <2>2
<1>7. Pipe'
  BY <1>6 DEF Pipe
<1>8. Once'
  <2>1. \A w \in Writes : ~(InTasks(w)' /\ InBuffer(w)')
    BY <1>1, <1>2, <1>3 DEF Once
  <2> QED  BY <1>2, <2>1 DEF Once
<1>9. HeaderFirst'
  <2>1. \A q \in Calls : Data(r) # Header(q)
    BY DEF Data, Header
  <2>2. \A q \in Calls : Data(q) = Data(r) => q = r
    BY DEF Data
  <2>3. \A q \in Calls : ~(InTasks(Header(q))' /\ InBuffer(Data(q))')
    BY <1>1, <1>2, <1>3, <2>2, WriteTypes DEF HeaderFirst
  <2> QED  BY <1>2, <2>1, <2>3 DEF HeaderFirst
<1>10. Progress'
  <2>1. \A q \in Calls : InTasks(Header(q)) \/ InBuffer(Header(q)) =>
                            InTasks(Header(q))' \/ InBuffer(Header(q))'
    BY <1>2, <1>3, WriteTypes
  <2> QED  BY <1>4, <2>1 DEF Progress
<1> QED  BY <1>7, <1>8, <1>9, <1>10

\* A call comes to a stage in which none of its writes is in the pipe.  The data of a file
\* may fail as they are written.
LEMMA StageMoves ==
    ASSUME PipeInv, UNCHANGED <<open, tasks, buffer>>, NEW r \in Calls, NEW s,
           stage' = [stage EXCEPT ![r] = s],
           \/ /\ UNCHANGED future
              /\ \/ stage[r] \in {"new", "checked"} /\ s \in {"skipped", "checked", "valid"}
                 \/ stage[r] = "header" /\ s = "dataless" /\ future[Header(r)] # "pending"
                 \/ stage[r] = "streaming" /\ s = "sent" /\ future[Data(r)] # "pending"
           \/ /\ future' = [future EXCEPT ![Data(r)] = "failure"]
              /\ stage[r] = "header" /\ s = "streaming" /\ future[Header(r)] # "pending"
    PROVE  Pipe' /\ Once' /\ HeaderFirst' /\ Progress'
<1> USE DEF PipeInv
<1>1. Data(r) \in Writes /\ Header(r) \in Writes /\ Header(r) # Data(r)
  BY WriteTypes
<1>2. stage'[r] = s /\ \A q \in Calls : q # r => stage'[q] = stage[q]
  BY DEF WellTyped
<1>3. /\ \A w : InTasks(w)' <=> InTasks(w)
      /\ \A w : InBuffer(w)' <=> InBuffer(w)
  BY DEF InTasks, InBuffer
<1>4. \A w \in Writes : w # Data(r) => future'[w] = future[w]
  BY DEF WellTyped
<1>5. ASSUME NEW w \in Writes, InTasks(w) \/ InBuffer(w) PROVE w[1] # r
  <2>1. Waits(w)
    BY <1>5 DEF Pipe
  <2>2. CASE w = Header(w[1])
    BY <2>1, <2>2, WriteIs DEF Waits, Underway, Progress
  <2>3. CASE w = Data(w[1]) /\ w[2] = "data"
    BY <2>1, <2>3, WriteIs DEF Waits, Underway, Progress
  <2> QED  BY <2>2, <2>3, WriteIs
<1>6. ASSUME NEW w \in Writes, InTasks(w) \/ InBuffer(w) PROVE Waits(w)'
  <2>1. w[1] # r /\ w[1] \in Calls /\ Waits(w)
    BY <1>5, <1>6, WriteIs DEF Pipe
  <2>2. w # Data(r) /\ Data(w[1]) # Data(r) /\ Data(w[1]) \in Writes
    BY <2>1, WriteTypes
  <2>3. future'[w] = future[w] /\ future'[Data(w[1])] = future[Data(w[1])]
    BY <1>4, <2>2
  <2>4. stage'[w[1]] = stage[w[1]]
    BY <1>2, <2>1
  <2> QED  BY <2>1, <2>3, <2>4, WaitsOn
<1>7. Pipe'
  BY <1>3, <1>6 DEF Pipe
<1>8. Once' /\ HeaderFirst'
  BY <1>3 DEF Once, HeaderFirst
<1>9. Progress'
  <2>1. ASSUME NEW q \in Calls, q # r
        PROVE  /\ stage'[q] = stage[q] /\ future'[Header(q)] = future[Header(q)]
               /\ future'[Data(q)] = future[Data(q)]
    <3>1. Header(q) \in Writes /\ Data(q) \in Writes /\ Header(q) # Data(r) /\ Data(q) # Data(r)
      BY <2>1, WriteTypes
    <3> QED  BY <1>2, <1>4, <2>1, <3>1
  <2>2. /\ future'[Header(r)] = future[Header(r)]
        /\ s = "streaming" \/ future'[Data(r)] = future[Data(r)]
    BY <1>1, <1>4
  <2> QED  BY <1>2, <1>3, <2>1, <2>2 DEF Progress
<1> QED  BY <1>7, <1>8, <1>9

\* The channel closes: the buffer fails.
LEMMA BufferFails ==
    ASSUME PipeInv, Close
    PROVE  Pipe' /\ Once' /\ HeaderFirst' /\ Progress'
<1> USE DEF PipeInv
<1>1. /\ open' = FALSE /\ buffer' = << >> /\ tasks' = tasks /\ stage' = stage
      /\ \A w \in Writes : future'[w] = IF InBuffer(w) THEN "failure" ELSE future[w]
  <2>1. \A w \in Writes : Contains(buffer, w) <=> InBuffer(w)
    BY PipeTypes DEF Contains, InBuffer
  <2> QED  BY <2>1 DEF Close, callVars
<1>2. /\ \A w : InTasks(w)' <=> InTasks(w)
      /\ \A w : ~InBuffer(w)'
  BY <1>1 DEF InTasks, InBuffer
<1>3. ASSUME NEW w \in Writes, InTasks(w) PROVE Waits(w)'
  <2>1. Waits(w) /\ ~InBuffer(w)
    BY <1>3 DEF Pipe, Once
  <2>2. Data(w[1]) \in Writes /\ ~InBuffer(Data(w[1]))
    <3>1. CASE w = Header(w[1])
      BY <1>3, <3>1, WriteIs, WriteTypes DEF HeaderFirst
    <3>2. CASE w = Data(w[1])
      BY <2>1, <3>2
    <3> QED  BY <3>1, <3>2, WriteIs
  <2> QED  BY <1>1, <2>1, <2>2, WaitsOn
<1>4. Pipe'
  BY <1>1, <1>2, <1>3 DEF Pipe
<1>5. Once'
  BY <1>1, <1>2 DEF Once
<1>6. HeaderFirst'
  BY <1>1, <1>2 DEF HeaderFirst
<1>7. Progress'
  <2> SUFFICES ASSUME NEW r \in Calls
               PROVE  /\ stage[r] \in {"new", "skipped", "checked", "valid"}
                        => future'[Header(r)] = "pending" /\ future'[Data(r)] = "pending"
                      /\ stage[r] \in {"header", "dataless"} => future'[Data(r)] = "pending"
                      /\ stage[r] \in {"streaming", "sent", "dataless"} => future'[Header(r)] # "pending"
                      /\ stage[r] = "sent" => future'[Data(r)] # "pending"
                      /\ stage[r] \in {"header", "written"} =>
                            future'[Header(r)] # "pending" \/ InTasks(Header(r))' \/ InBuffer(Header(r))'
    BY <1>1 DEF Progress
  <2>1. Header(r) \in Writes /\ Data(r) \in Writes
    BY WriteTypes
  <2>2. InBuffer(Header(r)) => stage[r] \in {"header", "written", "streaming"}
    BY <2>1, WriteTypes DEF Pipe, Waits, Underway
  <2>3. InBuffer(Data(r)) => stage[r] \in {"written", "streaming"}
    BY <2>1, WriteTypes DEF Pipe, Waits, Underway
  <2> QED  BY <1>1, <1>2, <2>1, <2>2, <2>3 DEF Progress
<1> QED  BY <1>4, <1>5, <1>6, <1>7

LEMMA PipeInductive == Spec => []PipeInv
<1>1. Init => Pipe /\ Once /\ HeaderFirst /\ Progress
  <2> SUFFICES ASSUME Init PROVE Pipe /\ Once /\ HeaderFirst /\ Progress
    OBVIOUS
  <2>1. \A w : ~InTasks(w) /\ ~InBuffer(w)
    BY DEF Init, InTasks, InBuffer
  <2>2. \A r \in Calls : future[Header(r)] = "pending" /\ future[Data(r)] = "pending"
    BY WriteTypes DEF Init
  <2> QED  BY <2>1, <2>2 DEF Init, Pipe, Once, HeaderFirst, Progress
<1>2. ASSUME PipeInv, [Next]_vars PROVE Pipe' /\ Once' /\ HeaderFirst' /\ Progress'
  <2> USE <1>2
  <2>1. CASE UNCHANGED <<open, stage, tasks, buffer, future>>
    <3>1. Pipe'
      BY <2>1 DEF PipeInv, Pipe, InTasks, InBuffer, Waits, Underway
    <3>2. Once' /\ HeaderFirst'
      BY <2>1 DEF PipeInv, Once, HeaderFirst, InTasks, InBuffer
    <3>3. Progress'
      BY <2>1 DEF PipeInv, Progress, InTasks, InBuffer
    <3> QED  BY <3>1, <3>2, <3>3
  <2>2. ASSUME NEW t \in WebThreads, WebThread(t) PROVE Pipe' /\ Once' /\ HeaderFirst' /\ Progress'
    <3> PICK r \in Calls : \/ Skip(t, r) \/ Check(t, r) \/ Validate(t, r)
                           \/ ValidateFails(t, r) \/ WriteHeader(t, r) \/ WriteText(t, r)
      BY <2>2 DEF WebThread
    <3>1. CASE Skip(t, r) \/ Check(t, r) \/ Validate(t, r) \/ ValidateFails(t, r)
      <4>1. PICK s \in {"skipped", "checked", "valid"} :
                /\ stage' = [stage EXCEPT ![r] = s] /\ stage[r] \in {"new", "checked"}
                /\ UNCHANGED <<open, tasks, buffer, future>>
        BY <3>1 DEF Skip, Check, Validate, ValidateFails, netVars
      <4> QED  BY <4>1, StageMoves
    <3>2. CASE WriteHeader(t, r)
      <4>1. /\ tasks' = Append(tasks, Header(r)) /\ stage' = [stage EXCEPT ![r] = "header"]
            /\ stage[r] \in {"new", "checked", "valid"} /\ UNCHANGED <<open, buffer, future>>
        BY <3>2 DEF WriteHeader, QueueHeader
      <4> QED  BY <4>1, TasksGrow
    <3>3. CASE WriteText(t, r)
      <4>1. /\ tasks' = Append(tasks, Data(r)) /\ stage' = [stage EXCEPT ![r] = "written"]
            /\ stage[r] = "header" /\ UNCHANGED <<open, buffer, future>>
        BY <3>3 DEF WriteText, QueueText
      <4> QED  BY <4>1, TasksGrow
    <3> QED  BY <3>1, <3>2, <3>3
  <2>3. CASE RunTask
    <3>1. CASE open
      BY <2>3, <3>1, TaskBuffered DEF RunTask, Buffered, callVars
    <3>2. CASE ~open
      BY <2>3, <3>2, TaskFails DEF RunTask, Buffered, callVars
    <3> QED  BY <3>1, <3>2
  <2>4. CASE Transmit
    BY <2>4, BufferSent DEF Transmit, callVars
  <2>5. CASE TransmitPart
    BY <2>5, BufferSent DEF TransmitPart, callVars
  <2>6. ASSUME NEW r \in Calls, HeaderListener(r) PROVE Pipe' /\ Once' /\ HeaderFirst' /\ Progress'
    <3>1. /\ stage[r] = "header" /\ future[Header(r)] # "pending"
          /\ stage' = [stage EXCEPT ![r] = "streaming"] /\ UNCHANGED <<open, tasks>>
          /\ Buffered(Data(r))
      BY <2>6 DEF HeaderListener, StreamFile
    <3>2. CASE open
      BY <3>1, <3>2, DataBuffered DEF Buffered
    <3>3. CASE ~open
      BY <3>1, <3>3, StageMoves DEF Buffered
    <3> QED  BY <3>2, <3>3
  <2>7. ASSUME NEW r \in Calls, HeaderListenerThrows(r)
        PROVE  Pipe' /\ Once' /\ HeaderFirst' /\ Progress'
    BY <2>7, StageMoves DEF HeaderListenerThrows, netVars
  <2>8. ASSUME NEW r \in Calls, DataListener(r) PROVE Pipe' /\ Once' /\ HeaderFirst' /\ Progress'
    BY <2>8, StageMoves DEF DataListener, Report, netVars
  <2>9. CASE Close
    BY <2>9, BufferFails
  <2>10. CASE FileChanges \/ UNCHANGED vars
    BY <2>1, <2>10 DEF FileChanges, vars, callVars, netVars
  <2> QED  BY <2>2, <2>3, <2>4, <2>5, <2>6, <2>7, <2>8, <2>9, <2>10 DEF Next, EventLoop
<1> QED  BY <1>1, <1>2, TypedInductive, PTL DEF Spec, PipeInv

-----------------------------------------------------------------------------
(* What becomes of a write, and of the file behind it.                     *)

\* A step never takes back what has become of a write.
LEMMA FuturesSettle ==
    ASSUME PipeInv, [Next]_vars, NEW w \in Writes, future[w] # "pending"
    PROVE  future'[w] = future[w]
<1> USE DEF PipeInv, WellTyped
<1>1. CASE UNCHANGED future
  BY <1>1
<1>2. CASE RunTask
  <2>1. Head(tasks) \in Writes /\ Waits(Head(tasks))
    BY <1>2, TasksShrink DEF RunTask
  <2> QED  BY <1>2, <2>1 DEF RunTask, Buffered, Waits
<1>3. CASE Transmit \/ TransmitPart
  <2>1. Head(buffer) \in Writes /\ Waits(Head(buffer))
    BY <1>3, BufferShrinks DEF Transmit, TransmitPart
  <2> QED  BY <1>3, <2>1 DEF Transmit, TransmitPart, Waits
<1>4. ASSUME NEW r \in Calls, HeaderListener(r) PROVE future'[w] = future[w]
  <2>1. future[Data(r)] = "pending" /\ Data(r) \in Writes
    BY <1>4, WriteTypes DEF HeaderListener, StreamFile, Progress
  <2> QED  BY <1>4, <2>1 DEF HeaderListener, StreamFile, Buffered
<1>5. CASE Close
  <2>1. ~InBuffer(w)
    BY DEF Pipe, Waits
  <2>2. ~Contains(buffer, w)
    BY <2>1, PipeTypes DEF Contains, InBuffer
  <2> QED  BY <1>5, <2>2 DEF Close
<1>6. ASSUME NEW t \in WebThreads, WebThread(t) PROVE UNCHANGED future
  BY <1>6 DEF WebThread, Skip, Check, Validate, ValidateFails, WriteHeader, QueueHeader,
              WriteText, QueueText, netVars
<1>7. ASSUME NEW r \in Calls, HeaderListenerThrows(r) \/ DataListener(r) PROVE UNCHANGED future
  BY <1>7 DEF HeaderListenerThrows, DataListener, Report, netVars
<1>8. CASE FileChanges \/ UNCHANGED vars
  BY <1>8 DEF FileChanges, vars, netVars
<1> QED  BY <1>1, <1>2, <1>3, <1>4, <1>5, <1>6, <1>7, <1>8 DEF Next, EventLoop

\* A step adds nothing to the wire, or the first write of the buffer, or a part of it.
LEMMA WireGrows ==
    ASSUME PipeInv, [Next]_vars
    PROVE  \/ UNCHANGED wire /\ \A w \in Writes : future'[w] = "success" => future[w] = "success"
           \/ Transmit
           \/ TransmitPart
<1> USE DEF PipeInv, WellTyped
<1>1. CASE UNCHANGED <<wire, future>>
  BY <1>1
<1>2. CASE RunTask
  <2>1. Head(tasks) \in Writes
    BY <1>2, TasksShrink DEF RunTask
  <2> QED  BY <1>2, <2>1 DEF RunTask, Buffered
<1>3. ASSUME NEW r \in Calls, HeaderListener(r)
      PROVE  UNCHANGED wire /\ \A w \in Writes : future'[w] = "success" => future[w] = "success"
  BY <1>3, WriteTypes DEF HeaderListener, StreamFile, Buffered
<1>4. CASE Close
  BY <1>4 DEF Close
<1>5. ASSUME NEW t \in WebThreads, WebThread(t) PROVE UNCHANGED <<wire, future>>
  BY <1>5 DEF WebThread, Skip, Check, Validate, ValidateFails, WriteHeader, QueueHeader,
              WriteText, QueueText, netVars
<1>6. ASSUME NEW r \in Calls, HeaderListenerThrows(r) \/ DataListener(r)
      PROVE  UNCHANGED <<wire, future>>
  BY <1>6 DEF HeaderListenerThrows, DataListener, Report, netVars
<1>7. CASE FileChanges \/ UNCHANGED vars
  BY <1>7 DEF FileChanges, vars, netVars
<1> QED  BY <1>1, <1>2, <1>3, <1>4, <1>5, <1>6, <1>7 DEF Next, EventLoop

\* What is on the wire is what has succeeded.
Delivered == \A w \in Writes : Sent(w) <=> future[w] = "success"

\* What one more thing on the wire adds to what was sent.
LEMMA SentGrows ==
    ASSUME WellTyped, NEW e \in Calls \X {"header", "data", "part"}, wire' = Append(wire, e),
           NEW w
    PROVE  Sent(w)' <=> Sent(w) \/ w = e
<1>1. /\ Len(wire) \in Nat /\ Len(wire') = Len(wire) + 1 /\ wire'[Len(wire) + 1] = e
      /\ \A i \in 1 .. Len(wire) : wire'[i] = wire[i]
  BY AppendFacts DEF WellTyped
<1>2. Sent(w)' <=> \E i \in 1 .. Len(wire) + 1 : wire'[i] = w
  BY <1>1 DEF Sent, Contains
<1>3. Sent(w) <=> \E i \in 1 .. Len(wire) : wire[i] = w
  BY DEF Sent, Contains
<1>4. (\E i \in 1 .. Len(wire) + 1 : wire'[i] = w)
        <=> (\E i \in 1 .. Len(wire) : wire'[i] = w) \/ w = e
  BY <1>1
<1> QED  BY <1>1, <1>2, <1>3, <1>4

LEMMA DeliveredInductive == Spec => []Delivered
<1>1. Init => Delivered
  BY DEF Init, Delivered, Sent, Contains
<1>2. ASSUME PipeInv, Delivered, [Next]_vars PROVE Delivered'
  <2> USE <1>2 DEF PipeInv
  <2>1. CASE UNCHANGED wire /\ \A w \in Writes : future'[w] = "success" => future[w] = "success"
    <3>1. \A w \in Writes : Sent(w)' <=> Sent(w)
      BY <2>1 DEF Sent
    <3>2. \A w \in Writes : future'[w] = "success" <=> future[w] = "success"
      BY <2>1, FuturesSettle
    <3> QED  BY <3>1, <3>2 DEF Delivered
  <2>2. CASE Transmit
    <3> DEFINE h == Head(buffer)
    <3>1. h \in Writes /\ wire' = Append(wire, h) /\ future' = [future EXCEPT ![h] = "success"]
      BY <2>2, BufferShrinks DEF Transmit
    <3> HIDE DEF h
    <3>2. \A w \in Writes : Sent(w)' <=> Sent(w) \/ w = h
      BY <3>1, SentGrows, WriteIs
    <3>3. \A w \in Writes : future'[w] = "success" <=> future[w] = "success" \/ w = h
      BY <3>1 DEF WellTyped
    <3> QED  BY <3>2, <3>3 DEF Delivered
  <2>3. CASE TransmitPart
    <3> DEFINE h == Head(buffer)
               e == <<h[1], "part">>
    <3>1. /\ h \in Writes /\ Waits(h) /\ wire' = Append(wire, e)
          /\ future' = [future EXCEPT ![h] = "failure"]
      BY <2>3, BufferShrinks DEF TransmitPart
    <3>2. e \in Calls \X {"header", "data", "part"} /\ e \notin Writes
      BY <3>1, WriteIs DEF Writes
    <3> HIDE DEF h, e
    <3>3. \A w \in Writes : Sent(w)' <=> Sent(w)
      BY <3>1, <3>2, SentGrows
    <3>4. \A w \in Writes : future'[w] = "success" <=> future[w] = "success"
      BY <3>1 DEF WellTyped, Waits
    <3> QED  BY <3>3, <3>4 DEF Delivered
  <2> QED  BY <2>1, <2>2, <2>3, WireGrows
<1> QED  BY <1>1, <1>2, PipeInductive, PTL DEF Spec

\* While nobody touches the file of a call, each of its three lengths is that of the file.
Lengthy ==
    /\ \A r \in FileCalls \ touched :
        /\ stage[r] \in {"valid", "header", "streaming", "sent"} => file.exists
        /\ stage[r] \in {"header", "streaming", "sent"} => declared[r] = file.length
        /\ stage[r] \in {"streaming", "sent"} => length[r] = file.length
    /\ \A r \in Calls \ FileCalls :
        /\ stage[r] \in {"header", "written"} => declared[r] = 1
        /\ stage[r] = "written" => length[r] = 1

LEMMA LengthyInductive == Spec => []Lengthy
<1>1. Init => Lengthy
  BY FileCallsAssumption DEF Init, Lengthy
<1>2. ASSUME WellTyped, Lengthy, [Next]_vars PROVE Lengthy'
  <2> USE <1>2, FileCallsAssumption DEF Lengthy, WellTyped, diskVars
  <2>1. CASE UNCHANGED <<file, touched, stage, declared, length>>
    BY <2>1
  <2>2. ASSUME NEW r \in Calls, NEW s \in {"skipped", "checked", "dataless"},
               stage' = [stage EXCEPT ![r] = s],
               UNCHANGED <<file, touched, declared, length>>
        PROVE Lengthy'
    BY <2>2
  <2>3. ASSUME NEW t \in WebThreads, WebThread(t) PROVE Lengthy'
    <3> PICK r \in Calls : \/ Skip(t, r) \/ Check(t, r) \/ Validate(t, r)
                           \/ ValidateFails(t, r) \/ WriteHeader(t, r) \/ WriteText(t, r)
      BY <2>3 DEF WebThread
    <3>1. CASE Skip(t, r) \/ Check(t, r) \/ ValidateFails(t, r)
      BY <2>2, <3>1 DEF Skip, Check, ValidateFails
    <3>2. CASE Validate(t, r)
      BY <3>2 DEF Validate
    <3>3. CASE WriteHeader(t, r)
      <4>1. /\ stage' = [stage EXCEPT ![r] = "header"]
            /\ declared' = [declared EXCEPT ![r] = LengthOf(r)]
            /\ stage[r] = IF r \in FileCalls THEN "valid" ELSE "checked"
            /\ UNCHANGED <<file, touched, length>>
        BY <3>3 DEF WriteHeader, QueueHeader
      <4>2. CASE r \in FileCalls
        BY <4>1, <4>2 DEF LengthOf
      <4>3. CASE r \notin FileCalls
        BY <4>1, <4>3 DEF LengthOf
      <4> QED  BY <4>2, <4>3
    <3>4. CASE WriteText(t, r)
      BY <3>4 DEF WriteText, QueueText
    <3> QED  BY <3>1, <3>2, <3>3, <3>4
  <2>4. CASE EventLoop
    <3>1. CASE RunTask \/ Transmit \/ TransmitPart
      BY <2>1, <3>1 DEF RunTask, Transmit, TransmitPart, callVars
    <3>2. ASSUME NEW r \in Calls, HeaderListener(r) PROVE Lengthy'
      BY <3>2 DEF HeaderListener, StreamFile
    <3>3. ASSUME NEW r \in Calls, HeaderListenerThrows(r) PROVE Lengthy'
      BY <2>2, <3>3 DEF HeaderListenerThrows
    <3>4. ASSUME NEW r \in Calls, DataListener(r) PROVE Lengthy'
      BY <3>4 DEF DataListener, Report
    <3> QED  BY <2>4, <3>1, <3>2, <3>3, <3>4 DEF EventLoop
  <2>5. CASE FileChanges
    BY <2>5 DEF FileChanges, callVars
  <2>6. CASE Close \/ UNCHANGED vars
    BY <2>1, <2>6 DEF Close, vars, callVars
  <2> QED  BY <2>3, <2>4, <2>5, <2>6 DEF Next
<1> QED  BY <1>1, <1>2, TypedInductive, PTL DEF Spec

\* A write fails with the connection, or because the file became shorter under it.
Failures ==
    \A w \in Writes : future[w] = "failure" => ~open \/ (w = Data(w[1]) /\ w[1] \in touched)

\* FileSent is published once something has become of the data.
Reported == \A r \in fileSent : r \in Calls /\ future[Data(r)] # "pending"

\* The channel does not open again, and what was touched remains so.
LEMMA OnlyCloses ==
    ASSUME [Next]_vars
    PROVE  touched \subseteq touched' /\ (open' => open)
<1>1. ASSUME NEW t \in WebThreads, WebThread(t) PROVE UNCHANGED <<touched, open>>
  BY <1>1 DEF WebThread, Skip, Check, Validate, ValidateFails, WriteHeader, QueueHeader,
              WriteText, QueueText, diskVars
<1>2. CASE EventLoop
  <2>1. CASE RunTask \/ Transmit \/ TransmitPart
    BY <2>1 DEF RunTask, Transmit, TransmitPart, diskVars
  <2>2. ASSUME NEW r \in Calls, HeaderListener(r) \/ HeaderListenerThrows(r) \/ DataListener(r)
        PROVE  UNCHANGED <<touched, open>>
    BY <2>2 DEF HeaderListener, StreamFile, HeaderListenerThrows, DataListener, Report, diskVars
  <2> QED  BY <1>2, <2>1, <2>2 DEF EventLoop
<1>3. CASE Close \/ FileChanges \/ UNCHANGED vars
  BY <1>3 DEF Close, FileChanges, vars, diskVars
<1> QED  BY <1>1, <1>2, <1>3 DEF Next

LEMMA FailuresInductive == Spec => []Failures
<1>1. Init => Failures
  BY DEF Init, Failures
<1>2. ASSUME PipeInv, Lengthy, Failures, [Next]_vars PROVE Failures'
  <2> USE <1>2 DEF PipeInv, WellTyped
  <2>1. touched \subseteq touched' /\ (open' => open)
    BY OnlyCloses
  <2> SUFFICES ASSUME NEW w \in Writes, future'[w] = "failure", future[w] # "failure", open'
               PROVE  w = Data(w[1]) /\ w[1] \in touched
    BY <2>1 DEF Failures
  <2>2. future[w] = "pending"
    BY FuturesSettle
  <2>3. CASE TransmitPart
    <3> DEFINE h == Head(buffer)
    <3>1. h \in Writes /\ Waits(h) /\ future' = [future EXCEPT ![h] = "failure"] /\ Short(h)
          /\ InBuffer(h)
      BY <2>3, BufferShrinks DEF TransmitPart
    <3> HIDE DEF h
    <3>2. w = h /\ w[1] \in FileCalls /\ w[2] = "data" /\ file.length < length[w[1]]
      BY <2>2, <3>1 DEF Short
    <3>3. stage[w[1]] = "streaming" /\ w[1] \in Calls
      BY <3>1, <3>2, FileCallsAssumption DEF Waits, Underway
    <3>4. file.length \in Nat /\ length[w[1]] \in Nat
      BY <3>3, LengthsAssumption
    <3>5. w[1] \in touched
      BY <3>2, <3>3, <3>4 DEF Lengthy
    <3> QED  BY <3>2, <3>5, WriteIs
  <2>4. CASE Transmit
    <3>1. Head(buffer) \in Writes
      BY <2>4, BufferShrinks DEF Transmit
    <3> QED  BY <2>4, <3>1, <2>2 DEF Transmit
  <2>5. CASE RunTask
    BY <2>1, <2>2, <2>5 DEF RunTask, Buffered
  <2>6. ASSUME NEW r \in Calls, HeaderListener(r) PROVE FALSE
    BY <2>1, <2>2, <2>6 DEF HeaderListener, StreamFile, Buffered
  <2>7. ~UNCHANGED future
    BY <2>2
  <2>8. ASSUME NEW t \in WebThreads, WebThread(t) PROVE FALSE
    BY <2>7, <2>8 DEF WebThread, Skip, Check, Validate, ValidateFails, WriteHeader, QueueHeader,
                      WriteText, QueueText, netVars
  <2>9. ASSUME NEW r \in Calls, HeaderListenerThrows(r) \/ DataListener(r) PROVE FALSE
    BY <2>7, <2>9 DEF HeaderListenerThrows, DataListener, Report, netVars
  <2>10. CASE Close \/ FileChanges \/ UNCHANGED vars
    BY <2>7, <2>10 DEF Close, FileChanges, vars, netVars
  <2> QED  BY <2>3, <2>4, <2>5, <2>6, <2>8, <2>9, <2>10 DEF Next, EventLoop
<1> QED  BY <1>1, <1>2, PipeInductive, LengthyInductive, PTL DEF Spec

LEMMA ReportedInductive == Spec => []Reported
<1>1. Init => Reported
  BY DEF Init, Reported
<1>2. ASSUME PipeInv, Reported, [Next]_vars PROVE Reported'
  <2> USE <1>2
  <2>1. ASSUME NEW r \in Calls, future[Data(r)] # "pending" PROVE future'[Data(r)] # "pending"
    BY <2>1, FuturesSettle, WriteTypes
  <2>2. CASE UNCHANGED fileSent
    BY <2>1, <2>2 DEF Reported
  <2>3. ASSUME NEW r \in Calls, DataListener(r) PROVE Reported'
    BY <2>1, <2>3 DEF Reported, DataListener, Report
  <2>4. ASSUME NEW t \in WebThreads, WebThread(t) PROVE UNCHANGED fileSent
    BY <2>4 DEF WebThread, Skip, Check, Validate, ValidateFails, WriteHeader, QueueHeader,
                WriteText, QueueText
  <2>5. CASE RunTask \/ Transmit \/ TransmitPart
    BY <2>5, <2>2 DEF RunTask, Transmit, TransmitPart
  <2>6. ASSUME NEW r \in Calls, HeaderListener(r) \/ HeaderListenerThrows(r)
        PROVE  UNCHANGED fileSent
    BY <2>6 DEF HeaderListener, StreamFile, HeaderListenerThrows
  <2>7. CASE Close \/ FileChanges \/ UNCHANGED vars
    BY <2>7, <2>2 DEF Close, FileChanges, vars
  <2> QED  BY <2>2, <2>3, <2>4, <2>5, <2>6, <2>7 DEF Next, EventLoop
<1> QED  BY <1>1, <1>2, PipeInductive, PTL DEF Spec

\* No listener looks at isSuccess, and still: FileSent is published only for a file whose
\* data went out whole, as far as the connection held and nobody touched the file.
THEOREM ReportedFilesAreSent == Spec => []FileSentWhenUndisturbed
<1>1. WellTyped /\ Delivered /\ Failures /\ Reported => FileSentWhenUndisturbed
  <2> SUFFICES ASSUME WellTyped, Delivered, Failures, Reported, NEW r \in fileSent
               PROVE  Sent(Data(r)) \/ ~open \/ r \in touched
    BY DEF FileSentWhenUndisturbed
  <2>1. r \in Calls /\ Data(r) \in Writes /\ Data(r)[1] = r /\ future[Data(r)] # "pending"
    BY WriteTypes DEF Reported
  <2>2. CASE future[Data(r)] = "success"
    BY <2>1, <2>2 DEF Delivered
  <2>3. CASE future[Data(r)] = "failure"
    BY <2>1, <2>3 DEF Failures
  <2> QED  BY <2>1, <2>2, <2>3 DEF WellTyped
<1> QED  BY <1>1, TypedInductive, DeliveredInductive, FailuresInductive, ReportedInductive, PTL

-----------------------------------------------------------------------------
(* What the agent reads.                                                   *)

\* The moves of a call: one step queues the header of one call, or every call stays where
\* it is, ends before its header, or goes on behind it.
LEMMA StageSteps ==
    ASSUME PipeInv, [Next]_vars
    PROVE  \/ \E r \in Calls :
                /\ stage[r] \in {"checked", "valid"} /\ stage' = [stage EXCEPT ![r] = "header"]
                /\ mixed' = mixed \cup (IF \E q \in Calls : Underway(q)
                                        THEN {r} \cup {q \in Calls : Underway(q)} ELSE {})
                /\ UNCHANGED <<open, wire, future>>
           \/ /\ UNCHANGED mixed
              /\ \A r \in Calls :
                    \/ stage'[r] = stage[r]
                    \/ stage[r] \in {"new", "checked"} /\ stage'[r] \in {"skipped", "checked", "valid"}
                    \/ stage[r] = "header" /\ stage'[r] \in {"written", "streaming", "dataless"}
                    \/ stage[r] = "streaming" /\ stage'[r] = "sent" /\ future[Data(r)] # "pending"
<1> USE DEF PipeInv, WellTyped
<1> DEFINE Moves ==
        /\ UNCHANGED mixed
        /\ \A r \in Calls :
              \/ stage'[r] = stage[r]
              \/ stage[r] \in {"new", "checked"} /\ stage'[r] \in {"skipped", "checked", "valid"}
              \/ stage[r] = "header" /\ stage'[r] \in {"written", "streaming", "dataless"}
              \/ stage[r] = "streaming" /\ stage'[r] = "sent" /\ future[Data(r)] # "pending"
<1>1. ASSUME NEW t \in WebThreads, NEW r \in Calls,
             Skip(t, r) \/ Check(t, r) \/ Validate(t, r) \/ ValidateFails(t, r) \/ WriteText(t, r)
      PROVE  Moves
  BY <1>1 DEF Skip, Check, Validate, ValidateFails, WriteText, QueueText
<1>2. ASSUME NEW t \in WebThreads, NEW r \in Calls, WriteHeader(t, r)
      PROVE  /\ stage[r] \in {"checked", "valid"} /\ stage' = [stage EXCEPT ![r] = "header"]
             /\ mixed' = mixed \cup (IF \E q \in Calls : Underway(q)
                                     THEN {r} \cup {q \in Calls : Underway(q)} ELSE {})
             /\ UNCHANGED <<open, wire, future>>
  BY <1>2 DEF WriteHeader, QueueHeader
<1>3. CASE RunTask \/ Transmit \/ TransmitPart \/ Close \/ FileChanges \/ UNCHANGED vars
  BY <1>3 DEF RunTask, Transmit, TransmitPart, Close, FileChanges, vars, callVars
<1>4. ASSUME NEW r \in Calls, HeaderListener(r) \/ HeaderListenerThrows(r) \/ DataListener(r)
      PROVE  Moves
  BY <1>4 DEF HeaderListener, StreamFile, HeaderListenerThrows, DataListener, Report
<1> QED  BY <1>1, <1>2, <1>3, <1>4 DEF Next, EventLoop, WebThread

\* While the channel stays open, nothing becomes of a write but on the wire.
LEMMA FuturesOnTheWire ==
    ASSUME PipeInv, [Next]_vars, open', ~Transmit, ~TransmitPart
    PROVE  UNCHANGED <<wire, future>>
<1>1. open /\ ~Close
  BY OnlyCloses DEF Close
<1>2. CASE RunTask
  BY <1>1, <1>2 DEF RunTask, Buffered
<1>3. ASSUME NEW r \in Calls, HeaderListener(r) \/ HeaderListenerThrows(r) \/ DataListener(r)
      PROVE  UNCHANGED <<wire, future>>
  BY <1>1, <1>3 DEF HeaderListener, StreamFile, Buffered, HeaderListenerThrows, DataListener,
                    Report, netVars
<1>4. ASSUME NEW t \in WebThreads, WebThread(t) PROVE UNCHANGED <<wire, future>>
  BY <1>4 DEF WebThread, Skip, Check, Validate, ValidateFails, WriteHeader, QueueHeader,
              WriteText, QueueText, netVars
<1>5. CASE FileChanges \/ UNCHANGED vars
  BY <1>5 DEF FileChanges, vars, netVars
<1> QED  BY <1>1, <1>2, <1>3, <1>4, <1>5 DEF Next, EventLoop

\* Calls that are under way at the same time are marked as such.
MixedIfBoth == \A r, q \in Calls : r # q /\ Underway(r) /\ Underway(q) => r \in mixed

\* A call comes under way by its header, and all that are under way are then marked.
LEMMA ComesUnderWay ==
    ASSUME PipeInv, [Next]_vars
    PROVE  /\ mixed \subseteq mixed'
           /\ \A r \in Calls : stage[r] = "dataless" => stage'[r] = "dataless"
           /\ \A r \in Calls : Underway(r)' =>
                \/ Underway(r)
                \/ /\ stage[r] \in {"checked", "valid"} /\ UNCHANGED <<wire, future>>
                   /\ \A q \in Calls : q # r /\ Underway(q)' =>
                        Underway(q) /\ q \in mixed' /\ r \in mixed'
           /\ \A r \in Calls : Underway(r) /\ open' =>
                Underway(r)' \/ stage'[r] = "dataless" \/ Transmit \/ TransmitPart
<1> USE DEF PipeInv, WellTyped
<1>1. mixed \subseteq mixed' /\ \A r \in Calls : stage[r] = "dataless" => stage'[r] = "dataless"
  BY StageSteps
<1>2. \A r \in Calls : future'[Data(r)] = "pending" => future[Data(r)] = "pending"
  BY FuturesSettle, WriteTypes
<1>3. ASSUME NEW r \in Calls, Underway(r)', ~Underway(r)
      PROVE  /\ stage[r] \in {"checked", "valid"} /\ UNCHANGED <<wire, future>>
             /\ \A q \in Calls : q # r /\ Underway(q)' =>
                    Underway(q) /\ q \in mixed' /\ r \in mixed'
  <2>1. stage[r] \notin {"header", "written", "streaming"}
    BY <1>2, <1>3 DEF Underway
  <2>2. PICK p \in Calls :
            /\ stage[p] \in {"checked", "valid"} /\ stage' = [stage EXCEPT ![p] = "header"]
            /\ mixed' = mixed \cup (IF \E q \in Calls : Underway(q)
                                    THEN {p} \cup {q \in Calls : Underway(q)} ELSE {})
            /\ UNCHANGED <<open, wire, future>>
    BY <1>3, <2>1, StageSteps DEF Underway
  <2>3. p = r
    BY <1>3, <2>1, <2>2 DEF Underway
  <2>4. ASSUME NEW q \in Calls, q # r, Underway(q)'
        PROVE  Underway(q) /\ q \in mixed' /\ r \in mixed'
    <3>1. Underway(q)
      BY <2>2, <2>3, <2>4 DEF Underway
    <3> QED  BY <2>2, <2>3, <3>1
  <2> QED  BY <2>2, <2>3, <2>4
<1>4. ASSUME NEW r \in Calls, Underway(r), open', ~Transmit, ~TransmitPart
      PROVE  Underway(r)' \/ stage'[r] = "dataless"
  <2>1. future'[Data(r)] = "pending"
    BY <1>4, FuturesOnTheWire DEF Underway
  <2>2. stage'[r] \in {"header", "written", "streaming", "dataless"}
    BY <1>4, StageSteps DEF Underway
  <2> QED  BY <2>1, <2>2 DEF Underway
<1> QED  BY <1>1, <1>3, <1>4

LEMMA MixedInductive == Spec => []MixedIfBoth
<1>1. Init => MixedIfBoth
  BY DEF Init, MixedIfBoth, Underway
<1>2. ASSUME PipeInv, MixedIfBoth, [Next]_vars PROVE MixedIfBoth'
  <2> SUFFICES ASSUME NEW r \in Calls, NEW q \in Calls, r # q, Underway(r)', Underway(q)'
               PROVE  r \in mixed'
    BY DEF MixedIfBoth
  <2>1. CASE Underway(r) /\ Underway(q)
    BY <1>2, <2>1, ComesUnderWay DEF MixedIfBoth
  <2>2. CASE ~Underway(r)
    BY <1>2, <2>2, ComesUnderWay
  <2>3. CASE ~Underway(q)
    BY <1>2, <2>3, ComesUnderWay
  <2> QED  BY <2>1, <2>2, <2>3
<1> QED  BY <1>1, <1>2, PipeInductive, PTL DEF Spec

\* While the channel is open, the call whose header went out last is under way, unless its
\* file was deleted; and the header of a call that is under way alone went out last.
LastHeader ==
    open =>
        \A r \in Calls :
            /\ wire # << >> /\ wire[Len(wire)] = Header(r) => Underway(r) \/ stage[r] = "dataless"
            /\ r \notin mixed /\ Underway(r) /\ future[Header(r)] = "success"
                => wire # << >> /\ wire[Len(wire)] = Header(r)

\* Header and data of a call that overlaps no other are next to each other on the wire.
Frames ==
    \A r \in Calls \ mixed :
        /\ \A i \in 1 .. Len(wire) : wire[i] = Header(r) /\ i < Len(wire)
            => wire[i + 1] \in {Data(r), <<r, "part">>} \/ stage[r] = "dataless"
        /\ \A i \in 1 .. Len(wire) : wire[i] \in {Data(r), <<r, "part">>}
            => i > 1 /\ wire[i - 1] = Header(r)

FrameInv == PipeInv /\ Delivered /\ Failures /\ MixedIfBoth /\ LastHeader /\ Frames

\* What goes on the wire: the first write of the buffer, or a part of a file's data.
LEMMA GoesOut ==
    ASSUME FrameInv, [Next]_vars, Transmit \/ TransmitPart
    PROVE  \E r \in Calls, e \in Calls \X {"header", "data", "part"} :
            /\ wire' = Append(wire, e) /\ open /\ Underway(r)
            /\ \/ e = Header(r) /\ Underway(r)' /\ future[Header(r)] = "pending"
               \/ /\ e \in {Data(r), <<r, "part">>} /\ ~Underway(r)'
                  /\ future[Header(r)] = "success" /\ stage[r] # "dataless"
            /\ \A q \in Calls : Underway(q)' => Underway(q)
            /\ \A q \in Calls : q # r => future'[Header(q)] = future[Header(q)]
            /\ UNCHANGED <<stage, mixed, open>>
<1> USE DEF FrameInv, PipeInv, WellTyped
<1>1. /\ Head(buffer) \in Writes /\ Waits(Head(buffer)) /\ InBuffer(Head(buffer))
      /\ \A q \in Calls : Head(buffer) = Data(q) => ~InBuffer(Header(q)) /\ ~InTasks(Header(q))
  BY BufferShrinks DEF Transmit, TransmitPart
<1>2. UNCHANGED <<stage, mixed, open>>
  BY DEF Transmit, TransmitPart, callVars
<1> PICK h \in Writes : h = Head(buffer)
  BY <1>1
<1> PICK r \in Calls : r = h[1]
  BY WriteIs
<1>3. PICK o \in {"success", "failure"} : future' = [future EXCEPT ![h] = o]
  BY DEF Transmit, TransmitPart
<1>4. \/ wire' = Append(wire, h)
      \/ wire' = Append(wire, <<r, "part">>) /\ h[2] = "data"
  BY DEF Transmit, TransmitPart, Short
<1>5. open
  BY <1>1 DEF Pipe, InBuffer
<1>6. Underway(r) /\ Data(r) \in Writes /\ Header(r) \in Writes /\ Header(r) # Data(r)
  BY <1>1, WriteTypes DEF Waits
<1>7. \A q \in Calls : Underway(q)' => Underway(q)
  BY <1>2, <1>3, WriteTypes DEF Underway
<1>8. \A q \in Calls : q # r => future'[Header(q)] = future[Header(q)]
  BY <1>1, <1>3, WriteTypes
<1>9. /\ <<r, "part">> \in Calls \X {"header", "data", "part"}
      /\ h \in Calls \X {"header", "data", "part"}
  BY <1>1, <1>6, WriteIs
<1>10. CASE h = Header(r)
  <2>1. wire' = Append(wire, h) /\ future[Header(r)] = "pending"
    BY <1>1, <1>4, <1>6, <1>10, WriteTypes DEF Waits
  <2>2. Underway(r)'
    BY <1>2, <1>3, <1>6, <1>10 DEF Underway
  <2> QED  BY <1>2, <1>5, <1>6, <1>7, <1>8, <1>9, <1>10, <2>1, <2>2
<1>11. CASE h = Data(r)
  <2>1. stage[r] \in {"written", "streaming"}
    BY <1>1, <1>6, <1>11, WriteTypes DEF Waits, Underway
  <2>2. future[Header(r)] # "pending"
    BY <1>1, <1>6, <1>11, <2>1 DEF Progress
  <2>3. future[Header(r)] # "failure"
    <3>1. Header(r) # Data(Header(r)[1])
      BY WriteTypes
    <3> QED  BY <1>5, <1>6, <3>1 DEF Failures
  <2>4. future[Header(r)] = "success"
    BY <1>6, <2>2, <2>3
  <2>5. ~Underway(r)'
    BY <1>3, <1>6, <1>11 DEF Underway
  <2>6. \E e \in Calls \X {"header", "data", "part"} :
            wire' = Append(wire, e) /\ e \in {Data(r), <<r, "part">>}
    BY <1>4, <1>9, <1>11
  <2> QED  BY <1>2, <1>5, <1>6, <1>7, <1>8, <2>1, <2>4, <2>5, <2>6
<1> QED  BY <1>1, <1>10, <1>11, WriteIs

LEMMA LastHeaderStep ==
    ASSUME FrameInv, [Next]_vars
    PROVE  LastHeader'
<1> USE DEF FrameInv
<1> SUFFICES ASSUME open', NEW r \in Calls
             PROVE  /\ wire' # << >> /\ wire'[Len(wire')] = Header(r) =>
                            Underway(r)' \/ stage'[r] = "dataless"
                    /\ r \notin mixed' /\ Underway(r)' /\ future'[Header(r)] = "success"
                        => wire' # << >> /\ wire'[Len(wire')] = Header(r)
  BY DEF LastHeader
<1>1. open
  BY OnlyCloses
<1>2. CASE Transmit \/ TransmitPart
  <2>1. PICK p \in Calls, e \in Calls \X {"header", "data", "part"} :
            /\ wire' = Append(wire, e) /\ open /\ Underway(p)
            /\ \/ e = Header(p) /\ Underway(p)' /\ future[Header(p)] = "pending"
               \/ /\ e \in {Data(p), <<p, "part">>} /\ ~Underway(p)'
                  /\ future[Header(p)] = "success" /\ stage[p] # "dataless"
            /\ \A q \in Calls : Underway(q)' => Underway(q)
            /\ \A q \in Calls : q # p => future'[Header(q)] = future[Header(q)]
            /\ UNCHANGED <<stage, mixed, open>>
    BY <1>2, GoesOut
  <2>2. wire' # << >> /\ wire'[Len(wire')] = e
    <3>1. wire \in Seq(Calls \X {"header", "data", "part"})
      BY DEF PipeInv, WellTyped
    <3> QED  BY <2>1, <3>1, AppendFacts
  <2>3. e = Header(r) => p = r /\ Underway(r)'
    BY <2>1 DEF Header, Data
  <2>4. ASSUME r \notin mixed', Underway(r)' PROVE e = Header(r)
    <3>1. Underway(r) /\ r \notin mixed
      BY <2>1, <2>4
    <3>2. p = r
      BY <2>1, <3>1 DEF MixedIfBoth
    <3> QED  BY <2>1, <2>4, <3>2
  <2> QED  BY <2>2, <2>3, <2>4
<1>3. CASE ~Transmit /\ ~TransmitPart
  <2>1. UNCHANGED <<wire, future>>
    BY <1>3, FuturesOnTheWire
  <2>2. ASSUME wire' # << >>, wire'[Len(wire')] = Header(r)
        PROVE  Underway(r)' \/ stage'[r] = "dataless"
    <3>1. Underway(r) \/ stage[r] = "dataless"
      BY <1>1, <2>1, <2>2 DEF LastHeader
    <3> QED  BY <1>3, <3>1, ComesUnderWay
  <2>3. ASSUME r \notin mixed', Underway(r)', future'[Header(r)] = "success"
        PROVE  wire' # << >> /\ wire'[Len(wire')] = Header(r)
    <3>1. r \notin mixed
      BY <2>3, ComesUnderWay
    <3>2. stage[r] \notin {"checked", "valid"}
      BY <2>1, <2>3 DEF PipeInv, Progress
    <3>3. Underway(r)
      BY <2>3, <3>2, ComesUnderWay
    <3> QED  BY <1>1, <2>1, <2>3, <3>1, <3>3 DEF LastHeader
  <2> QED  BY <2>2, <2>3
<1> QED  BY <1>2, <1>3

LEMMA FramesStep ==
    ASSUME FrameInv, [Next]_vars
    PROVE  Frames'
<1> USE DEF FrameInv
<1>1. mixed \subseteq mixed' /\ \A r \in Calls : stage[r] = "dataless" => stage'[r] = "dataless"
  BY ComesUnderWay
<1>2. CASE UNCHANGED wire
  BY <1>1, <1>2 DEF Frames
<1>3. CASE Transmit \/ TransmitPart
  <2>1. PICK p \in Calls, e \in Calls \X {"header", "data", "part"} :
            /\ wire' = Append(wire, e) /\ open /\ Underway(p)
            /\ \/ e = Header(p) /\ Underway(p)' /\ future[Header(p)] = "pending"
               \/ /\ e \in {Data(p), <<p, "part">>} /\ ~Underway(p)'
                  /\ future[Header(p)] = "success" /\ stage[p] # "dataless"
            /\ \A q \in Calls : Underway(q)' => Underway(q)
            /\ \A q \in Calls : q # p => future'[Header(q)] = future[Header(q)]
            /\ UNCHANGED <<stage, mixed, open>>
    BY <1>3, GoesOut
  <2>2. /\ Len(wire) \in Nat /\ Len(wire') = Len(wire) + 1 /\ wire'[Len(wire) + 1] = e
        /\ \A i \in 1 .. Len(wire) : wire'[i] = wire[i]
    BY <2>1, AppendFacts DEF PipeInv, WellTyped
  <2> SUFFICES ASSUME NEW r \in Calls \ mixed, NEW i \in 1 .. Len(wire')
               PROVE  /\ wire'[i] = Header(r) /\ i < Len(wire')
                            => wire'[i + 1] \in {Data(r), <<r, "part">>} \/ stage'[r] = "dataless"
                      /\ wire'[i] \in {Data(r), <<r, "part">>} => i > 1 /\ wire'[i - 1] = Header(r)
    BY <2>1 DEF Frames
  <2>3. ASSUME wire'[i] = Header(r), i < Len(wire')
        PROVE  wire'[i + 1] \in {Data(r), <<r, "part">>} \/ stage'[r] = "dataless"
    <3>1. i \in 1 .. Len(wire) /\ wire[i] = Header(r)
      BY <2>2, <2>3
    <3>2. CASE i < Len(wire)
      <4>1. wire'[i + 1] = wire[i + 1]
        BY <2>2, <3>2
      <4>2. wire[i + 1] \in {Data(r), <<r, "part">>} \/ stage[r] = "dataless"
        BY <3>1, <3>2 DEF Frames
      <4> QED  BY <1>1, <4>1, <4>2
    <3>3. CASE i = Len(wire)
      <4>1. Underway(r) \/ stage[r] = "dataless"
        BY <2>1, <3>1, <3>3 DEF LastHeader
      <4>2. CASE Underway(r)
        <5>1. p = r
          BY <2>1, <4>2 DEF MixedIfBoth
        <5>2. Sent(Header(r)) /\ Header(r) \in Writes
          BY <3>1, WriteTypes DEF Sent, Contains
        <5>3. future[Header(r)] = "success"
          BY <5>2 DEF Delivered
        <5>4. e \in {Data(r), <<r, "part">>}
          BY <2>1, <5>1, <5>3
        <5> QED  BY <2>2, <3>3, <5>4
      <4> QED  BY <1>1, <4>1, <4>2
    <3> QED  BY <2>2, <3>1, <3>2, <3>3
  <2>4. ASSUME wire'[i] \in {Data(r), <<r, "part">>}
        PROVE  i > 1 /\ wire'[i - 1] = Header(r)
    <3>1. CASE i \in 1 .. Len(wire)
      <4>1. i > 1 /\ wire[i - 1] = Header(r)
        BY <2>2, <2>4, <3>1 DEF Frames
      <4> QED  BY <2>2, <3>1, <4>1
    <3>2. CASE i = Len(wire) + 1
      <4>1. e \in {Data(r), <<r, "part">>}
        BY <2>2, <2>4, <3>2
      <4>2. p = r /\ e # Header(p)
        BY <2>1, <4>1 DEF Header, Data
      <4>3. future[Header(r)] = "success" /\ Underway(r)
        BY <2>1, <4>2
      <4>4. wire # << >> /\ wire[Len(wire)] = Header(r)
        BY <2>1, <4>3 DEF LastHeader
      <4>5. Len(wire) > 0
        BY <2>2, <4>4 DEF PipeInv, WellTyped
      <4> QED  BY <2>2, <3>2, <4>4, <4>5
    <3> QED  BY <2>2, <3>1, <3>2
  <2> QED  BY <2>3, <2>4
<1> QED  BY <1>2, <1>3, WireGrows

LEMMA FramesInductive == Spec => []FrameInv
<1>1. Init => LastHeader /\ Frames
  BY DEF Init, LastHeader, Frames, Underway
<1>2. FrameInv /\ [Next]_vars => LastHeader' /\ Frames'
  BY LastHeaderStep, FramesStep
<1> QED  BY <1>1, <1>2, PipeInductive, DeliveredInductive, FailuresInductive, MixedInductive, PTL
         DEF Spec, FrameInv

\* However web threads, listeners and the channel's end interleave: a call that overlaps no
\* other gets its data right behind its header, unless the file is lost in between, and
\* the data of any call have the length declared unless the file changed.
THEOREM FramesStayIntact == Spec => []FramesIntactAlone
<1>1. FrameInv /\ Lengthy => FramesIntactAlone
  <2> SUFFICES ASSUME FrameInv, Lengthy PROVE FramesIntactAlone
    OBVIOUS
  <2>1. DOMAIN wire = 1 .. Len(wire)
    BY DEF FrameInv, PipeInv, WellTyped
  <2>2. \A i \in DOMAIN wire : \A r \in Calls \ mixed :
            /\ wire[i] = Header(r) /\ i < Len(wire)
                => wire[i + 1] \in {Data(r), <<r, "part">>} \/ stage[r] = "dataless"
            /\ wire[i] = Data(r) => i > 1 /\ wire[i - 1] = Header(r)
    BY <2>1 DEF FrameInv, Frames
  <2>3. ASSUME NEW r \in Calls, Sent(Data(r)) PROVE length[r] = declared[r] \/ r \in touched
    <3>1. future[Data(r)] = "success"
      BY <2>3, WriteTypes DEF FrameInv, Delivered
    <3>2. stage[r] \in {"written", "streaming", "sent"}
      BY <3>1 DEF FrameInv, PipeInv, Progress, WellTyped
    <3> QED  BY <3>2 DEF Lengthy, FrameInv, PipeInv, WellTyped
  <2> QED  BY <2>2, <2>3 DEF FramesIntactAlone
<1> QED  BY <1>1, FramesInductive, LengthyInductive, PTL

=============================================================================
