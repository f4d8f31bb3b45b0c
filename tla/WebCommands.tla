----------------------------- MODULE WebCommands -----------------------------
(***************************************************************************)
(* The SendCommand handlers of command.NFileCommand, NOperationCommand and *)
(* their older versions FileCommand and OperationCommand: a web thread     *)
(* reads the form, sends something to each selected agent, and lists the   *)
(* connected agents for the page.  NFileCommand sends first and lists      *)
(* afterwards, the others list first.                                      *)
(*                                                                         *)
(* The threads read ChannelManager.map while event loops change it.  The   *)
(* iteration is fail-fast: after a structural change it may throw, or not  *)
(* notice.  A put that makes the table grow leaves it half filled for a    *)
(* while, in which a get finds nothing and an iterator that is made then   *)
(* sees a part.  Updates that two loops lose are OperationServerHandler's  *)
(* matter, and what becomes of a write is CommandDelivery's.               *)
(*                                                                         *)
(* A file is validated once for each agent it is sent to, and files come   *)
(* and go: one that cannot be read at that moment is not sent, the thread  *)
(* goes on with the next, and the page does not tell.                      *)
(***************************************************************************)
EXTENDS Integers, Sequences, Functions

CONSTANTS
    Agents,     \* agent names; a name is unique to one connection
    Requests,   \* web requests served in a run
    Payloads,   \* what is sent: a file, or the text of an operation
    NoList,     \* the form has no list of files
    Watch,      \* the text "watch", which NOperationCommand takes as a request to itself
    Forms       \* the forms that are submitted

\* A form: the page it is for, the agents selected, the message or file name typed
\* (at most one) and, for "nfile", the files selected from the list.
FormType == [page : {"nfile", "noperation", "operation", "file"},
             agents : Seq(Agents), typed : SUBSET Payloads, files : Seq(Payloads) \cup {NoList}]

ASSUME FormsAssumption == Forms \subseteq FormType
ASSUME NoListAssumption == NoList \notin Payloads \cup Seq(Payloads)
ASSUME WatchAssumption == Watch \in Payloads

VARIABLES
    agent,     \* of an agent: "new", "joining", "connected", "closing", "gone"
    form,      \* the form of a request
    pc,        \* "new", "list", "listing", "send", "write", "done", "failed"
    todo,      \* what the request has still to send: pairs of agent and payload
    rest,      \* entries its iterator has not returned yet
    stale,     \* the map has changed structurally since the iterator was made
    listed,    \* agents its page shows
    outbox,    \* what was written to an agent: pairs of request and payload
    readable,  \* the payloads that, as names of files, can be opened
    \* History, read by the properties only:
    kept,      \* payloads readable since the request came in
    steady,    \* agents connected since the request came in
    blind      \* the request read the table while it was growing

requestVars == <<form, pc, todo, rest, listed, blind>>
fileVars == <<readable, kept>>
vars == <<agent, requestVars, stale, outbox, steady, fileVars>>

\* The entries of the map: an agent is in it from its put until channelInactive has run.
Registered == {a \in Agents : agent[a] \in {"joining", "connected", "closing"}}
Growing == \E a \in Agents : agent[a] = "joining"

Init ==
    /\ agent \in [Agents -> {"new", "connected"}]
    /\ form \in [Requests -> Forms]
    /\ pc = [r \in Requests |-> "new"]
    /\ todo = [r \in Requests |-> << >>]
    /\ rest = [r \in Requests |-> {}]
    /\ stale = [r \in Requests |-> FALSE]
    /\ listed = [r \in Requests |-> {}]
    /\ outbox = [a \in Agents |-> << >>]
    /\ readable \in SUBSET Payloads
    /\ kept = [r \in Requests |-> {}]
    /\ steady = [r \in Requests |-> {}]
    /\ blind = [r \in Requests |-> FALSE]

-----------------------------------------------------------------------------
(* The agents, as OperationServerHandler keeps them.                       *)

Becomes(a, from, to) ==
    /\ agent[a] = from
    /\ agent' = [agent EXCEPT ![a] = to]
    /\ UNCHANGED <<requestVars, outbox, fileVars>>

\* put is at work, and the table may be growing; modCount has changed.
JoinBegins(a) ==
    /\ Becomes(a, "new", "joining")
    /\ stale' = [r \in Requests |-> TRUE]
    /\ UNCHANGED steady

JoinEnds(a) == Becomes(a, "joining", "connected") /\ UNCHANGED <<stale, steady>>

\* The connection ends, and some time later channelInactive removes the entry.
Disconnects(a) ==
    /\ Becomes(a, "connected", "closing")
    /\ steady' = [r \in Requests |-> steady[r] \ {a}]
    /\ UNCHANGED stale

Leaves(a) ==
    /\ Becomes(a, "closing", "gone")
    /\ stale' = [r \in Requests |-> TRUE]
    /\ UNCHANGED steady

-----------------------------------------------------------------------------
(* The files, which other programs put at their names and take away.       *)

Appears(x) ==
    /\ x \notin readable
    /\ readable' = readable \cup {x}
    /\ UNCHANGED <<agent, requestVars, stale, outbox, steady, kept>>

Vanishes(x) ==
    /\ x \in readable
    /\ readable' = readable \ {x}
    /\ kept' = [r \in Requests |-> kept[r] \ {x}]
    /\ UNCHANGED <<agent, requestVars, stale, outbox, steady>>

-----------------------------------------------------------------------------
(* The web threads.                                                        *)

Typed(f) == [i \in 1 .. (IF f.typed = {} THEN 0 ELSE 1) |-> CHOOSE x \in f.typed : TRUE]

\* What is sent to one agent: the payload that was typed, and for "nfile" the files
\* that were selected.  If there is no list, the loop over it throws, here at NoList.
Items(f) ==
    IF f.page # "nfile" THEN Typed(f)
    ELSE Typed(f) \o (IF f.files = NoList THEN <<NoList>> ELSE f.files)

\* The loop over the agents around the loop over the files.
Plan(f) ==
    LET n == Len(Items(f))
    IN  [k \in 1 .. Len(f.agents) * n |->
            <<f.agents[((k - 1) \div n) + 1], Items(f)[((k - 1) % n) + 1]>>]

\* Faulty SendsFirst: the list is made last for every page.
SendsFirstAlways(f) == TRUE

\* NFileCommand lists the agents after sending, the others before.
SendsFirst(f) == f.page = "nfile"

Goes(r, to) == pc' = [pc EXCEPT ![r] = to]

\* The thread of DirWatchService was started with the server: start throws.
StartsWatch(f) == f.page = "noperation" /\ f.typed = {Watch}

Receive(r) ==
    /\ pc[r] = "new"
    /\ todo' = [todo EXCEPT ![r] = Plan(form[r])]
    /\ Goes(r, IF StartsWatch(form[r]) THEN "failed"
               ELSE IF SendsFirst(form[r]) THEN "send" ELSE "list")
    /\ steady' = [steady EXCEPT ![r] = {a \in Agents : agent[a] = "connected"}]
    /\ kept' = [kept EXCEPT ![r] = readable]
    /\ UNCHANGED <<agent, form, rest, stale, listed, outbox, blind, readable>>

\* Faulty ListBegins: only the first page of a session is given a list.
ListSkipped(r) ==
    /\ pc[r] = "list"
    /\ Goes(r, IF SendsFirst(form[r]) THEN "done" ELSE "send")
    /\ UNCHANGED <<agent, form, todo, rest, stale, listed, outbox, steady, blind, fileVars>>

\* ChannelManager.map.entrySet().iterator().
ListBegins(r) ==
    /\ pc[r] = "list"
    /\ rest' \in {[rest EXCEPT ![r] = S] :
                    S \in IF Growing THEN SUBSET Registered ELSE {Registered}}
    /\ blind' = [blind EXCEPT ![r] = @ \/ Growing]
    /\ stale' = [stale EXCEPT ![r] = FALSE]
    /\ Goes(r, "listing")
    /\ UNCHANGED <<agent, form, todo, listed, outbox, steady, fileVars>>

ListNext(r) ==
    /\ pc[r] = "listing"
    /\ \E a \in rest[r] :
        /\ rest' = [rest EXCEPT ![r] = @ \ {a}]
        /\ listed' = [listed EXCEPT ![r] = @ \cup {a}]
    /\ UNCHANGED <<agent, form, pc, todo, stale, outbox, steady, blind, fileVars>>

\* ConcurrentModificationException: the request is answered with an error page.
ListThrows(r) ==
    /\ pc[r] = "listing"
    /\ rest[r] # {} /\ stale[r]
    /\ Goes(r, "failed")
    /\ UNCHANGED <<agent, form, todo, rest, stale, listed, outbox, steady, blind, fileVars>>

ListEnds(r) ==
    /\ pc[r] = "listing"
    /\ rest[r] = {}
    /\ Goes(r, IF SendsFirst(form[r]) THEN "done" ELSE "send")
    /\ UNCHANGED <<agent, form, todo, rest, stale, listed, outbox, steady, blind, fileVars>>

Item(r) == Head(todo[r])
Drop(r) == todo' = [todo EXCEPT ![r] = Tail(@)]

\* get may find nothing, if there is no such entry or the table is growing.
MayMiss(a) == a \notin Registered \/ Growing
Sending(r) == pc[r] = "send" /\ todo[r] # << >>

\* The agent is in the map.  Its channel is active, or the old FileCommand does not ask.
Found(r) ==
    /\ Sending(r)
    /\ Item(r)[2] # NoList
    /\ Item(r)[1] \in Registered
    /\ agent[Item(r)[1]] # "closing" \/ form[r].page = "file"
    /\ Goes(r, "write")
    /\ UNCHANGED <<agent, form, todo, rest, stale, listed, outbox, steady, blind, fileVars>>

\* The agent is not there, or no longer active: on with the next one.
PassedOver(r) ==
    /\ Sending(r)
    /\ Item(r)[2] # NoList
    /\ form[r].page # "file"
    /\ MayMiss(Item(r)[1]) \/ agent[Item(r)[1]] = "closing"
    /\ Drop(r)
    /\ blind' = [blind EXCEPT ![r] = @ \/ Growing]
    /\ UNCHANGED <<agent, form, pc, rest, stale, listed, outbox, steady, fileVars>>

\* NullPointerException: the form has no list of files, or FileCommand asks a channel
\* that it did not find whether it is active (its guard has && for ||).
SendThrows(r) ==
    /\ Sending(r)
    /\ \/ Item(r)[2] = NoList
       \/ form[r].page = "file" /\ MayMiss(Item(r)[1])
    /\ blind' = [blind EXCEPT ![r] = @ \/ Growing]
    /\ Goes(r, "failed")
    /\ UNCHANGED <<agent, form, todo, rest, stale, listed, outbox, steady, fileVars>>

\* SendFile opens and measures the file before anything else; an operation has no file.
SendsFile(f) == f.page \in {"nfile", "file"}
Validated(r) == SendsFile(form[r]) => Item(r)[2] \in readable

\* SendFile's header, or the writes of an operation.
Write(r) ==
    /\ pc[r] = "write"
    /\ Validated(r)
    /\ outbox' = [outbox EXCEPT ![Item(r)[1]] = Append(@, <<r, Item(r)[2]>>)]
    /\ Drop(r)
    /\ Goes(r, "send")
    /\ UNCHANGED <<agent, form, rest, stale, listed, steady, blind, fileVars>>

\* Faulty Unreadable: the exception ends the loops, not only SendFile.
UnreadableEnds(r) ==
    /\ pc[r] = "write"
    /\ ~Validated(r)
    /\ todo' = [todo EXCEPT ![r] = << >>]
    /\ Goes(r, "send")
    /\ UNCHANGED <<agent, form, rest, stale, listed, outbox, steady, blind, fileVars>>

\* The file cannot be opened: SendFile returns, and nothing is written.  (FileCommand
\* writes an "ERR" String to the agent, which fails for want of an encoder.)
Unreadable(r) ==
    /\ pc[r] = "write"
    /\ ~Validated(r)
    /\ Drop(r)
    /\ Goes(r, "send")
    /\ UNCHANGED <<agent, form, rest, stale, listed, outbox, steady, blind, fileVars>>

SendEnds(r) ==
    /\ pc[r] = "send"
    /\ todo[r] = << >>
    /\ Goes(r, IF SendsFirst(form[r]) THEN "list" ELSE "done")
    /\ UNCHANGED <<agent, form, todo, rest, stale, listed, outbox, steady, blind, fileVars>>

WebThread(r) ==
    \/ ListBegins(r) \/ ListNext(r) \/ ListThrows(r) \/ ListEnds(r)
    \/ Found(r) \/ PassedOver(r) \/ SendThrows(r) \/ Write(r) \/ Unreadable(r)
    \/ SendEnds(r)

Next ==
    \/ \E a \in Agents : JoinBegins(a) \/ JoinEnds(a) \/ Disconnects(a) \/ Leaves(a)
    \/ \E x \in Payloads : Appears(x) \/ Vanishes(x)
    \/ \E r \in Requests : Receive(r) \/ WebThread(r)

Spec == Init /\ [][Next]_vars

-----------------------------------------------------------------------------
(* Properties.                                                             *)

\* Where what request r sent is in the outbox of agent a; and where what it was to send
\* to that agent is among the first n of its plan.
SentTo(r, a) == {i \in DOMAIN outbox[a] : outbox[a][i][1] = r}
PlannedFor(r, a, n) == {k \in 1 .. n : Plan(form[r])[k][1] = a}

SentNothing(r) == \A a \in Agents : SentTo(r, a) = {}

\* What r must send by now: operations, and files that could be read all along.
Due(r) == IF SendsFile(form[r]) THEN kept[r] ELSE Payloads

\* Of the first n of its plan, as far as they are for a, r sent a some, each once and in
\* order, and among them all that was due.
Served(r, a, n) ==
    \E some \in SUBSET PlannedFor(r, a, n) :
        /\ \A k \in PlannedFor(r, a, n) : Plan(form[r])[k][2] \in Due(r) => k \in some
        /\ \E at \in Bijection(some, SentTo(r, a)) :
            \A k \in some :
                /\ outbox[a][at[k]] = <<r, Plan(form[r])[k][2]>>
                /\ \A j \in some : j < k => at[j] < at[k]

\* How many items of its plan r has behind it when it is over: all of them, or those
\* before the one it failed at.
CameTo(r) == Len(Plan(form[r])) - (IF pc[r] = "failed" THEN Len(todo[r]) ELSE 0)

\* A request that shows its page has sent every agent that was connected all along the
\* operation, or every file that could be read all along, and nothing but what the form
\* has for it, in that order: whoever else came, left or was sent to, and whichever other
\* file was not there for some agent; unless it met the table while that was growing.
\* One that ends in an error page has done just that with what came before the error: the
\* agents after it have nothing.
SteadyAgentsAreServed ==
    \A r \in Requests : pc[r] \in {"done", "failed"} /\ ~blind[r] =>
        \A a \in steady[r] : Served(r, a, CameTo(r))

\* The page shows every agent that was connected all along, unless the table was growing.
SteadyAgentsAreListed ==
    \A r \in Requests : pc[r] = "done" /\ ~blind[r] => steady[r] \subseteq listed[r]

\* A user who is shown an error after submitting an operation may submit it again: what
\* can fail, the list and the request to watch, comes before anything is sent.
FailedOperationSentNothing ==
    \A r \in Requests :
        pc[r] = "failed" /\ form[r].page \in {"noperation", "operation"} => SentNothing(r)

=============================================================================
