--------------------------- MODULE CommandDelivery ---------------------------
(***************************************************************************)
(* command.NFileCommand.SendFile and the sending half of                   *)
(* command.NOperationCommand: what the web request threads and the event   *)
(* loop of one agent's channel write to that agent.                        *)
(*                                                                         *)
(* A command goes out in two writes, a header that declares a length, then *)
(* the data, and nothing keeps the two together.  An operation's two       *)
(* writes are made by the web thread.  A file's header is written by the   *)
(* web thread and its data by a listener on the header's future, which the *)
(* event loop runs some time after the header is out, or has failed: no    *)
(* listener looks at isSuccess.  The file is opened again for every step:  *)
(* to validate it, to declare its length, to send it.                      *)
(*                                                                         *)
(* Netty: a write by a web thread is a task of the event loop; a write by  *)
(* a listener is made at once; either is appended to the channel's         *)
(* outbound buffer, which is sent in order.  When the channel closes,      *)
(* whatever is in the buffer, and every later write, fails.                *)
(***************************************************************************)
EXTENDS Integers, Sequences, SequencesExt

CONSTANTS
    Calls,        \* SendFile calls and operation sends to the agent, in all
    FileCalls,    \* those that are SendFile calls
    WebThreads,   \* web requests in progress
    CallsOf,      \* the calls a web request makes, in order
    Lengths,      \* lengths of the file sent; 0 is the empty file
    MaxChanges    \* bound: changes of the file, and reads of its length that fail

ASSUME FileCallsAssumption == FileCalls \subseteq Calls
ASSUME CallsOfAssumption == CallsOf \in [WebThreads -> Seq(Calls)]
ASSUME LengthsAssumption == Lengths \subseteq Nat

\* One write: the header or the data of a call.
Header(r) == <<r, "header">>
Data(r) == <<r, "data">>
Writes == Calls \X {"header", "data"}

VARIABLES
    ssl,        \* the channel's pipeline has an SslHandler
    open,       \* the channel is active
    file,       \* the file on disk: whether it can be opened, and its length
    next,       \* how many calls a web thread has finished
    stage,      \* of a call
    declared,   \* the length in the call's header
    length,     \* the length of the region handed to Netty as the call's data
    tasks,      \* writes queued on the event loop by web threads
    buffer,     \* the channel's outbound buffer
    wire,       \* what the agent was sent; "part" marks data cut short
    future,     \* of a write: "pending", "success", "failure"
    handles,    \* file handles held open by the server
    fileSent,   \* calls for which FileSent was published
    \* History, read by the properties only:
    changes,    \* changes of the file, and reads of its length that failed
    touched,    \* calls during which the file changed after their validation
    unmeasured, \* handles of files that were empty, or whose length could not be had
    mixed       \* calls that overlapped another call

diskVars == <<file, changes, touched>>
callVars == <<next, stage, declared, length>>
netVars == <<tasks, buffer, wire, future>>
vars == <<ssl, open, diskVars, callVars, netVars, handles, fileSent, unmeasured, mixed>>

Init ==
    /\ ssl \in BOOLEAN
    /\ open = TRUE
    /\ file \in [exists : {TRUE}, length : Lengths]
    /\ next = [t \in WebThreads |-> 0]
    /\ stage = [r \in Calls |-> "new"]
    /\ declared = [r \in Calls |-> 0]
    /\ length = [r \in Calls |-> 0]
    /\ tasks = << >>
    /\ buffer = << >>
    /\ wire = << >>
    /\ future = [w \in Writes |-> "pending"]
    /\ handles = {}
    /\ fileSent = {}
    /\ changes = 0
    /\ touched = {}
    /\ unmeasured = {}
    /\ mixed = {}

\* A call whose header is written and whose data is not out yet.
Underway(r) ==
    /\ stage[r] \in {"header", "written", "streaming"}
    /\ future[Data(r)] = "pending"

-----------------------------------------------------------------------------
(* The web threads.  A call is a sequence of steps of its thread.          *)

Current(t, r) == next[t] < Len(CallsOf[t]) /\ r = CallsOf[t][next[t] + 1]

Return(t) == next' = [next EXCEPT ![t] = @ + 1]

\* The agent is not in the map any more, or its channel is not active.
Skip(t, r) ==
    /\ Current(t, r) /\ stage[r] = "new"
    /\ ~open
    /\ stage' = [stage EXCEPT ![r] = "skipped"]
    /\ Return(t)
    /\ UNCHANGED <<ssl, open, diskVars, declared, length, netVars, handles, fileSent, unmeasured, mixed>>

\* The channel is active, at this moment.
Check(t, r) ==
    /\ Current(t, r) /\ stage[r] = "new"
    /\ open
    /\ stage' = [stage EXCEPT ![r] = "checked"]
    /\ UNCHANGED <<ssl, open, diskVars, next, declared, length, netVars, handles, fileSent, unmeasured, mixed>>

\* A handle is opened and not closed.
LeftOpen(h) == handles' = handles \cup {h} /\ unmeasured' = unmeasured \cup {h}

\* The file can be opened, but its length cannot be read: the handle h stays open.
Unmeasurable(h) ==
    /\ file.exists
    /\ changes < MaxChanges
    /\ changes' = changes + 1
    /\ LeftOpen(h)

\* The file can be opened and its length read; the handle is closed, if length > 0.
Validate(t, r) ==
    /\ Current(t, r) /\ stage[r] = "checked" /\ r \in FileCalls
    /\ file.exists
    /\ stage' = [stage EXCEPT ![r] = "valid"]
    /\ IF file.length > 0
       THEN UNCHANGED <<handles, unmeasured>>
       ELSE LeftOpen(<<r, "validation">>)
    /\ UNCHANGED <<ssl, open, diskVars, next, declared, length, netVars, fileSent, mixed>>

\* The file cannot be opened, or its length not be read, which leaves the handle open:
\* the call returns without a word to the agent.
ValidateFails(t, r) ==
    /\ Current(t, r) /\ stage[r] = "checked" /\ r \in FileCalls
    /\ \/ ~file.exists /\ UNCHANGED <<changes, handles, unmeasured>>
       \/ Unmeasurable(<<r, "validation">>)
    /\ stage' = [stage EXCEPT ![r] = "skipped"]
    /\ Return(t)
    /\ UNCHANGED <<ssl, open, file, touched, declared, length, netVars, fileSent, mixed>>

\* The header of r, with length d in it, is queued: tasks become q.
QueueHeader(t, r, d, q) ==
    /\ Current(t, r) /\ stage[r] = IF r \in FileCalls THEN "valid" ELSE "checked"
    /\ declared' = [declared EXCEPT ![r] = d]
    /\ tasks' = q
    /\ stage' = [stage EXCEPT ![r] = "header"]
    /\ mixed' = mixed \cup (IF \E q2 \in Calls : Underway(q2)
                            THEN {r} \cup {q2 \in Calls : Underway(q2)} ELSE {})
    /\ IF r \in FileCalls THEN Return(t) ELSE UNCHANGED next
    /\ UNCHANGED <<ssl, open, diskVars, length, buffer, wire, future, handles, fileSent, unmeasured>>

\* File.length() is 0 for a file that is gone.  An operation declares the length of its
\* own text, here 1.
LengthOf(r) == IF r \notin FileCalls THEN 1 ELSE IF file.exists THEN file.length ELSE 0

\* initializeProtocol and writeAndFlush of the header.
WriteHeader(t, r) == QueueHeader(t, r, LengthOf(r), Append(tasks, Header(r)))

\* writeAndFlush of an operation's text, by a call that has come to stage s.
QueueText(t, r, s) ==
    /\ Current(t, r) /\ stage[r] = s
    /\ r \notin FileCalls
    /\ length' = [length EXCEPT ![r] = 1]
    /\ tasks' = Append(tasks, Data(r))
    /\ stage' = [stage EXCEPT ![r] = "written"]
    /\ Return(t)
    /\ UNCHANGED <<ssl, open, diskVars, declared, buffer, wire, future, handles, fileSent, unmeasured, mixed>>

\* Faulty WriteText: the text goes out without a header.
WriteTextOnly(t, r) == QueueText(t, r, "checked")

WriteText(t, r) == QueueText(t, r, "header")

WebThread(t) ==
    \E r \in Calls :
        \/ Skip(t, r)
        \/ Check(t, r)
        \/ Validate(t, r)
        \/ ValidateFails(t, r)
        \/ WriteHeader(t, r)
        \/ WriteText(t, r)

-----------------------------------------------------------------------------
(* The channel's event loop.                                               *)

\* A write reaches the channel: it is buffered, or fails because it is closed.
Buffered(w) ==
    IF open
    THEN buffer' = Append(buffer, w) /\ UNCHANGED future
    ELSE future' = [future EXCEPT ![w] = "failure"] /\ UNCHANGED buffer

RunTask ==
    /\ tasks # << >>
    /\ Buffered(Head(tasks))
    /\ tasks' = Tail(tasks)
    /\ UNCHANGED <<ssl, open, diskVars, callVars, wire, handles, fileSent, unmeasured, mixed>>

\* The file behind the first write has become shorter than the region to send.
Short(w) == w[2] = "data" /\ w[1] \in FileCalls /\ file.length < length[w[1]]

\* The socket takes the first write of the buffer.  A region of a file that has become
\* too short is never done: without SSL nothing behind it is ever sent.
Transmit ==
    /\ buffer # << >>
    /\ ~Short(Head(buffer))
    /\ wire' = Append(wire, Head(buffer))
    /\ future' = [future EXCEPT ![Head(buffer)] = "success"]
    /\ buffer' = Tail(buffer)
    /\ UNCHANGED <<ssl, open, diskVars, callVars, tasks, handles, fileSent, unmeasured, mixed>>

\* With SSL the file is read in chunks: the read fails at the end of the file, after
\* the part that was there, and the connection goes on.
TransmitPart ==
    /\ ssl
    /\ buffer # << >>
    /\ Short(Head(buffer))
    /\ wire' = Append(wire, <<Head(buffer)[1], "part">>)
    /\ future' = [future EXCEPT ![Head(buffer)] = "failure"]
    /\ buffer' = Tail(buffer)
    /\ UNCHANGED <<ssl, open, diskVars, callVars, tasks, handles, fileSent, unmeasured, mixed>>

\* The file is opened again, and all of it is written.
StreamFile(r) ==
    /\ r \in FileCalls /\ stage[r] = "header"
    /\ file.exists
    /\ length' = [length EXCEPT ![r] = file.length]
    /\ handles' = handles \cup {<<r, "data">>}
    /\ Buffered(Data(r))
    /\ stage' = [stage EXCEPT ![r] = "streaming"]
    /\ UNCHANGED <<ssl, open, diskVars, next, declared, tasks, wire, fileSent, unmeasured, mixed>>

\* Faulty HeaderListener: the data is written only if the header is out; or only if not.
HeaderListenerIfSuccess(r) == future[Header(r)] = "success" /\ StreamFile(r)
HeaderListenerIfFailure(r) == future[Header(r)] = "failure" /\ StreamFile(r)

\* The listener on a header's future, whatever became of the header.
HeaderListener(r) == future[Header(r)] # "pending" /\ StreamFile(r)

\* The file is gone, or its length cannot be read: the listener throws, and Netty logs that.
HeaderListenerThrows(r) ==
    /\ r \in FileCalls /\ stage[r] = "header"
    /\ future[Header(r)] # "pending"
    /\ \/ ~file.exists /\ UNCHANGED <<changes, handles, unmeasured>>
       \/ Unmeasurable(<<r, "data">>)
    /\ stage' = [stage EXCEPT ![r] = "dataless"]
    /\ UNCHANGED <<ssl, open, file, touched, next, declared, length, netVars, fileSent, mixed>>

\* FileSent is published (who receives it is WsHandler's matter) and the handle is
\* closed (by Netty, if the publication throws): those in left stay open.
Report(r, left) ==
    /\ stage[r] = "streaming"
    /\ stage' = [stage EXCEPT ![r] = "sent"]
    /\ fileSent' = fileSent \cup {r}
    /\ handles' = left
    /\ UNCHANGED <<ssl, open, diskVars, next, declared, length, netVars, unmeasured, mixed>>

\* Faulty DataListener: FileSent is published without waiting for the data's future.
DataListenerAtOnce(r) == Report(r, handles \ {<<r, "data">>})

\* Faulty DataListener: the file is not closed.
DataListenerLeaks(r) == future[Data(r)] # "pending" /\ Report(r, handles)

\* The listener on the data's future, whatever became of the data.
DataListener(r) == future[Data(r)] # "pending" /\ Report(r, handles \ {<<r, "data">>})

EventLoop ==
    \/ RunTask
    \/ Transmit
    \/ TransmitPart
    \/ \E r \in Calls : HeaderListener(r) \/ HeaderListenerThrows(r) \/ DataListener(r)

-----------------------------------------------------------------------------
(* The surroundings.                                                       *)

\* The agent's connection ends.
Close ==
    /\ open
    /\ open' = FALSE
    /\ future' = [w \in Writes |-> IF Contains(buffer, w) THEN "failure" ELSE future[w]]
    /\ buffer' = << >>
    /\ UNCHANGED <<ssl, diskVars, callVars, tasks, wire, handles, fileSent, unmeasured, mixed>>

\* Someone writes to the file in place, or deletes it; open handles keep the old one.
FileChanges ==
    /\ changes < MaxChanges
    /\ file.exists
    /\ file' \in [exists : BOOLEAN, length : Lengths] \ {file}
    /\ ~file'.exists => file'.length = file.length
    /\ changes' = changes + 1
    /\ touched' = touched \cup {r \in FileCalls : stage[r] \notin {"new", "checked", "skipped"}}
    /\ UNCHANGED <<ssl, open, callVars, netVars, handles, fileSent, unmeasured, mixed>>

Next ==
    \/ \E t \in WebThreads : WebThread(t)
    \/ EventLoop
    \/ Close
    \/ FileChanges

Spec == Init /\ [][Next]_vars

\* Web threads run, and the event loop goes on while it has something to do: to send what
\* the socket accepts, or a task or listener to run.  Nothing makes a read fail in the end.
Fairness ==
    /\ WF_vars(EventLoop /\ UNCHANGED changes)
    /\ \A t \in WebThreads : WF_vars(WebThread(t) /\ UNCHANGED changes)

FairSpec == Spec /\ Fairness

-----------------------------------------------------------------------------
(* Properties.                                                             *)

Sent(u) == Contains(wire, u)

\* The agent reads a header and then as many bytes as it declares.  It gets the data of
\* a call right behind its header, as long as the call overlaps no other call to the
\* agent and the file can still be opened and measured; and the data has the length
\* declared, unless the file changed after the call validated it: its length is read
\* three times.
FramesIntactAlone ==
    /\ \A i \in DOMAIN wire : \A r \in Calls \ mixed :
        /\ wire[i] = Header(r) /\ i < Len(wire)
            => wire[i + 1] \in {Data(r), <<r, "part">>} \/ stage[r] = "dataless"
        /\ wire[i] = Data(r) => i > 1 /\ wire[i - 1] = Header(r)
    /\ \A r \in Calls : Sent(Data(r)) => length[r] = declared[r] \/ r \in touched

\* FileSent is published for files that were delivered whole, as far as the connection
\* held and the file did not change.
FileSentWhenUndisturbed ==
    \A r \in fileSent : Sent(Data(r)) \/ ~open \/ r \in touched

\* Once a call is over, the server holds a handle on its behalf only if the file was
\* empty when it was validated (the handle is closed if length > 0), or its length could
\* not be read.
OnlyUnmeasuredLeak ==
    \A h \in handles : stage[h[1]] \in {"skipped", "sent", "dataless"} => h \in unmeasured

\* An agent that was sent a header is eventually sent its data, unless the connection
\* ends, the file changes or it cannot be measured.
HeaderGetsItsData ==
    \A r \in Calls : Sent(Header(r)) ~> (Sent(Data(r)) \/ ~open \/ changes > 0)

\* Every call that got past its validation reports FileSent in the end, unless the file
\* changed or could not be measured: also when the connection ended.
ReportsInTheEnd ==
    \A r \in FileCalls : (stage[r] = "header") ~> (r \in fileSent \/ changes > 0)

-----------------------------------------------------------------------------
(* A claim of the repository's messages that the code does not meet.       *)

\* NFileCommand.java:168 and 181 log "file transfer complete" and publish FileSent.
\* Claim: the file has been sent.
FileSentMeansSent == \A r \in fileSent : Sent(Data(r))

=============================================================================
