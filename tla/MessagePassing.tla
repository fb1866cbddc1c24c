--------------------------- MODULE MessagePassing ---------------------------
(***************************************************************************)
(* The message channel from an ASIL-B process to QM processes, on QNX:     *)
(* message_passing/ with the sender cache of the LoLa binding.             *)
(*                                                                         *)
(* Sending side (one process).  MessagePassingControl keeps one sender per *)
(* target node, creates it under a mutex, and hands out shared pointers.   *)
(* An ASIL-B process wraps the Sender in a NonBlockingSender: Send() only  *)
(* queues, and one worker thread, shared by all the senders, writes.       *)
(*                                                                         *)
(* Receiving side (one process per node).  The Receiver runs two listening *)
(* threads.  A thread that gets a message queues it, which lets the writer *)
(* go on, and then becomes the only one to run handlers, or leaves that to *)
(* the other one.  The destructor stops both through a side channel.       *)
(*                                                                         *)
(* A blocking call of the operating system (open, write, MsgSend) is a     *)
(* rendezvous with a listening thread that waits in dispatch_block.        *)
(***************************************************************************)
EXTENDS Integers, Sequences, FiniteSets, Functions

CONSTANTS
    Callers,           \* threads of the sending process
    Nodes,             \* the receiving processes, by node identifier (pid)
    SenderQueueSize,   \* capacity of a NonBlockingSender
    ReceiverQueueSize, \* capacity of a Receiver's message queue
    MaxRetries,        \* SenderConfig::max_numbers_of_retry
    MaxCalls,          \* bound: calls of all the callers
    MaxSenders,        \* bound: senders created for one node
    Stopping           \* which nodes may shut down

ASSUME MessagePassingAssumption ==
    /\ {SenderQueueSize, ReceiverQueueSize, MaxRetries, MaxSenders} \subseteq Nat \ {0}
    /\ MaxCalls \in Nat
    /\ Stopping \subseteq Nodes

Listeners == {0, 1}
Senders == Nodes \X (1 .. MaxSenders)
NoSender == <<>>
NoCaller == "none"
NoMessage == <<>>

\* A message, by the call it was sent in and the sender it was sent on.
Messages == [caller : Callers, number : Nat, sender : Senders]

\* A process that is no caller: its open is refused, its messages carry a
\* wrong pid, its stop message is not obeyed.
Stranger == "stranger"

ASSUME NamesDiffer == NoCaller \notin Callers /\ Stranger \notin Callers \cup Nodes

VARIABLES
    senders,  \* senders_qm_: the sender of each node, or none
    created,  \* how many senders a node has had
    mutex,    \* senders_qm_mutex_
    object,   \* the NonBlockingSenders: queue, stop request, alive
    caller,   \* what each caller does, about which node, with which sender
    calls,    \* calls each caller has made
    pool,     \* tasks waiting for the worker thread, as senders
    worker,   \* the worker: idle, or where it is in SendQueueElements
    path,     \* the channel's path: absent, attached, closed
    listen,   \* where each listening thread is
    held,     \* the message a listening thread handles
    inbox,    \* message_queue_
    owned,    \* message_queue_owned_
    dtor,     \* progress of ~Receiver
    stops,    \* stop messages ~Receiver still has to send
    arrived,  \* history: the messages that were queued in the inbox
    handled   \* history: the messages whose handler ran

control == <<senders, created, mutex>>
nonBlocking == <<object, pool, worker>>
sending == <<control, nonBlocking, caller, calls>>
channel == <<path, inbox, owned>>
listening == <<listen, held, dtor, stops>>
history == <<arrived, handled>>
receiving == <<channel, listening, history>>
vars == <<sending, receiving>>

Init ==
    /\ senders = [n \in Nodes |-> NoSender]
    /\ created = [n \in Nodes |-> 0]
    /\ mutex = NoCaller
    /\ object = [s \in Senders |-> [queue |-> <<>>, stop |-> FALSE, alive |-> FALSE]]
    /\ caller = [c \in Callers |-> [at |-> "idle", node |-> NoSender, uses |-> NoSender]]
    /\ calls = [c \in Callers |-> 0]
    /\ pool = <<>>
    /\ worker = [at |-> "idle", on |-> NoSender, tries |-> 0]
    /\ path = [n \in Nodes |-> "absent"]
    /\ listen = [n \in Nodes |-> [i \in Listeners |-> "none"]]
    /\ held = [n \in Nodes |-> [i \in Listeners |-> NoMessage]]
    /\ inbox = [n \in Nodes |-> <<>>]
    /\ owned = [n \in Nodes |-> FALSE]
    /\ dtor = [n \in Nodes |-> "none"]
    /\ stops = [n \in Nodes |-> 0]
    /\ arrived = [n \in Nodes |-> <<>>]
    /\ handled = [n \in Nodes |-> <<>>]

-----------------------------------------------------------------------------
(* The receiving side.                                                     *)

\* StartListening attaches the path and submits one task per thread.  When
\* opening fails the process terminates (MessagePassingFacade).
StartListening(n) ==
    /\ path[n] = "absent"
    /\ path' = [path EXCEPT ![n] = "attached"]
    /\ listen' = [listen EXCEPT ![n] = [i \in Listeners |-> "new"]]
    /\ UNCHANGED <<sending, held, inbox, owned, dtor, stops, history>>

StartListeningFails(n) ==
    /\ path[n] = "absent"
    /\ n \in Stopping
    /\ path' = [path EXCEPT ![n] = "closed"]
    /\ UNCHANGED <<sending, listen, held, inbox, owned, dtor, stops, history>>

\* Whether the stop token of task i has been triggered: ~Receiver aborts the
\* tasks one after the other and waits for each.
StopRequested(n, i) ==
    IF i = 0 THEN dtor[n] # "none" ELSE dtor[n] \in {"wait1", "done"}

\* A listening thread starts.  Thread 0 installs the stop callback; when the
\* stop came first the callback runs here, and stops only the other thread.
Enter(n, i) ==
    /\ listen[n][i] = "new"
    /\ listen' = [listen EXCEPT ![n][i] =
                     IF i = 0 /\ StopRequested(n, 0) THEN "selfstop" ELSE "check"]
    /\ UNCHANGED <<sending, path, held, inbox, owned, dtor, stops, history>>

\* The last look at the token before the message loop.  A thread 0 that is
\* overtaken leaves although a stop message is sent for it.
Overtaken(n) == IF dtor[n] = "stopping" THEN "overtaken" ELSE "leave"

Check(n, i) ==
    /\ listen[n][i] = "check"
    /\ listen' = [listen EXCEPT ![n][i] =
                     IF StopRequested(n, i) THEN Overtaken(n) ELSE "block"]
    /\ UNCHANGED <<sending, path, held, inbox, owned, dtor, stops, history>>

\* The handler of stop messages: only the own process may stop a thread.
AnyoneMayStop(n, i, from) ==
    listen' = [listen EXCEPT ![n][i] = "leave"]

private_message_handler(n, i, from) ==
    listen' = [listen EXCEPT ![n][i] = IF from = n THEN "leave" ELSE "claim"]

\* Thread 0, stopped before its loop, sends the stop message for the other.
SelfStop(n) ==
    /\ listen[n][0] = "selfstop"
    /\ listen[n][1] = "block"
    /\ listen' = [listen EXCEPT ![n] = [i \in Listeners |-> IF i = 0 THEN "check" ELSE "leave"]]
    /\ UNCHANGED <<sending, path, held, inbox, owned, dtor, stops, history>>

\* A thread returns.  ~stop_callback of thread 0 waits for a running callback.
Leave(n, i) ==
    /\ listen[n][i] \in {"leave", "overtaken"}
    /\ i = 0 => dtor[n] # "stopping"
    /\ listen' = [listen EXCEPT ![n][i] = "ended"]
    /\ UNCHANGED <<sending, path, held, inbox, owned, dtor, stops, history>>

\* io_write: a message whose sender is not the process it claims to come from
\* is refused, so is one that finds the queue full.
Genuine(m, from) == m.caller = from

Fits(n) == Len(inbox[n]) < ReceiverQueueSize

io_write(n, i, m, from) ==
    /\ listen[n][i] = "block"
    /\ listen' = [listen EXCEPT ![n][i] = "claim"]
    /\ IF Genuine(m, from) /\ Fits(n)
       THEN /\ inbox' = [inbox EXCEPT ![n] = Append(@, m)]
            /\ arrived' = [arrived EXCEPT ![n] = Append(@, m)]
       ELSE UNCHANGED <<inbox, arrived>>

\* A stranger writes what a caller could have written.
StrangerWrites(n, i, c, s) ==
    /\ path[n] = "attached"
    /\ io_write(n, i, [caller |-> c, number |-> calls[c], sender |-> s], Stranger)
    /\ UNCHANGED <<sending, path, held, owned, dtor, stops, handled>>

StrangerStops(n, i) ==
    /\ path[n] = "attached"
    /\ listen[n][i] = "block"
    /\ private_message_handler(n, i, Stranger)
    /\ UNCHANGED <<sending, path, held, inbox, owned, dtor, stops, history>>

\* After every dispatched message: take the queue over, unless it is empty or
\* the other thread has it.
TakesOverAnyway(n) == inbox[n] # <<>>

TakesOver(n) == inbox[n] # <<>> /\ ~owned[n]

Claim(n, i) ==
    /\ listen[n][i] = "claim"
    /\ listen' = [listen EXCEPT ![n][i] = IF TakesOver(n) THEN "drain" ELSE "block"]
    /\ owned' = [owned EXCEPT ![n] = @ \/ TakesOver(n)]
    /\ UNCHANGED <<sending, path, held, inbox, dtor, stops, history>>

\* The owner takes the next message, or gives the queue up under its mutex.
Drain(n, i) ==
    /\ listen[n][i] = "drain"
    /\ IF inbox[n] = <<>>
       THEN /\ owned' = [owned EXCEPT ![n] = FALSE]
            /\ listen' = [listen EXCEPT ![n][i] = "block"]
            /\ UNCHANGED <<inbox, held>>
       ELSE /\ held' = [held EXCEPT ![n][i] = Head(inbox[n])]
            /\ inbox' = [inbox EXCEPT ![n] = Tail(@)]
            /\ listen' = [listen EXCEPT ![n][i] = "handle"]
            /\ UNCHANGED owned
    /\ UNCHANGED <<sending, path, dtor, stops, history>>

ExecuteMessageHandler(n, i) ==
    /\ listen[n][i] = "handle"
    /\ handled' = [handled EXCEPT ![n] = Append(@, held[n][i])]
    /\ held' = [held EXCEPT ![n][i] = NoMessage]
    /\ listen' = [listen EXCEPT ![n][i] = "drain"]
    /\ UNCHANGED <<sending, path, inbox, owned, dtor, stops, arrived>>

\* ~Receiver aborts task 0: an installed callback runs in this thread and
\* sends one stop message per listening thread.
Abort(n) ==
    /\ path[n] = "attached"
    /\ dtor[n] = "none"
    /\ n \in Stopping
    /\ IF listen[n][0] = "new"
       THEN dtor' = [dtor EXCEPT ![n] = "wait0"] /\ UNCHANGED stops
       ELSE /\ dtor' = [dtor EXCEPT ![n] = "stopping"]
            /\ stops' = [stops EXCEPT ![n] = Cardinality(Listeners)]
    /\ UNCHANGED <<sending, path, listen, held, inbox, owned, history>>

SendStop(n, i) ==
    /\ dtor[n] = "stopping"
    /\ listen[n][i] = "block"
    /\ private_message_handler(n, i, n)
    /\ stops' = [stops EXCEPT ![n] = @ - 1]
    /\ dtor' = [dtor EXCEPT ![n] = IF stops[n] = 1 THEN "wait0" ELSE @]
    /\ UNCHANGED <<sending, path, held, inbox, owned, history>>

\* The destructor waits for the tasks in turn ...
WaitForTask0(n) ==
    /\ dtor[n] = "wait0"
    /\ listen[n][0] = "ended"
    /\ dtor' = [dtor EXCEPT ![n] = "wait1"]
    /\ UNCHANGED <<sending, path, listen, held, inbox, owned, stops, history>>

Ended(n, i) == listen[n][i] = "ended"

\* ... and then frees the channel and the state the threads work on.
Close(n) ==
    /\ dtor[n] = "wait1"
    /\ Ended(n, 1)
    /\ dtor' = [dtor EXCEPT ![n] = "done"]
    /\ path' = [path EXCEPT ![n] = "closed"]
    /\ inbox' = [inbox EXCEPT ![n] = <<>>]
    /\ UNCHANGED <<sending, listen, held, owned, stops, history>>

-----------------------------------------------------------------------------
(* The sending side.                                                       *)

CallsMade == FoldFunctionOnSet(+, 0, calls, Callers)

StartCall(c, n) ==
    /\ caller[c].at = "idle"
    /\ CallsMade < MaxCalls
    /\ caller' = [caller EXCEPT ![c] = [at |-> "call", node |-> n, uses |-> NoSender]]
    /\ calls' = [calls EXCEPT ![c] = @ + 1]
    /\ UNCHANGED <<senders, created, mutex, object, pool, worker, receiving>>

\* GetMessagePassingSender: under the mutex, a known sender is shared, an
\* unknown one created; creating it blocks until the channel is open.
GetMessagePassingSender(c) ==
    LET n == caller[c].node IN
    /\ caller[c].at = "call"
    /\ mutex = NoCaller
    /\ IF senders[n] # NoSender
       THEN /\ caller' = [caller EXCEPT ![c].at = "send", ![c].uses = senders[n]]
            /\ UNCHANGED mutex
       ELSE /\ caller' = [caller EXCEPT ![c].at = "connect"]
            /\ mutex' = c
    /\ UNCHANGED <<senders, created, object, calls, pool, worker, receiving>>

\* The constructor of Sender opens the path; it retries while that fails,
\* since nobody requests a stop.  io_open runs in a listening thread.
CreateNewSender(c, i) ==
    LET n == caller[c].node
        s == <<n, created[n] + 1>> IN
    /\ caller[c].at = "connect"
    /\ path[n] = "attached"
    /\ listen[n][i] = "block"
    /\ listen' = [listen EXCEPT ![n][i] = "claim"]
    /\ created' = [created EXCEPT ![n] = @ + 1]
    /\ object' = [object EXCEPT ![s].alive = TRUE]
    /\ senders' = [senders EXCEPT ![n] = s]
    /\ mutex' = NoCaller
    /\ caller' = [caller EXCEPT ![c].at = "send", ![c].uses = s]
    /\ UNCHANGED <<calls, pool, worker, path, held, inbox, owned, dtor, stops, history>>

\* NonBlockingSender::Send: EAGAIN when the queue is full; the first element
\* of an empty queue submits the task that empties it.
SubmitsWhenIdle(s) == object[s].queue = <<>> /\ worker.at = "idle"

Submits(s) == object[s].queue = <<>>

SendInternal(c) ==
    LET s == caller[c].uses IN
    /\ caller[c].at = "send"
    /\ caller' = [caller EXCEPT ![c].at = "release"]
    /\ IF Len(object[s].queue) < SenderQueueSize
       THEN /\ object' = [object EXCEPT ![s].queue = Append(@, [caller |-> c, number |-> calls[c], sender |-> s])]
            /\ pool' = IF Submits(s) THEN Append(pool, s) ELSE pool
       ELSE UNCHANGED <<object, pool>>
    /\ UNCHANGED <<senders, created, mutex, calls, worker, receiving>>

\* Who keeps a sender: the map, and the callers that use it.
Shared(s, others) ==
    \/ \E n \in Nodes : senders'[n] = s
    \/ \E c \in others : caller[c].uses = s

\* ~NonBlockingSender requests the stop of its task and waits for it.
BeginDestruction(c, s) ==
    /\ object' = [object EXCEPT ![s].stop = TRUE]
    /\ caller' = [caller EXCEPT ![c] = [at |-> "destroy", node |-> s[1], uses |-> s]]

\* The caller drops its shared pointer: it may be the last one.
Release(c) ==
    LET s == caller[c].uses IN
    /\ caller[c].at = "release"
    /\ UNCHANGED senders
    /\ IF Shared(s, Callers \ {c})
       THEN /\ caller' = [caller EXCEPT ![c] = [at |-> "idle", node |-> NoSender, uses |-> NoSender]]
            /\ UNCHANGED object
       ELSE BeginDestruction(c, s)
    /\ UNCHANGED <<created, mutex, calls, pool, worker, receiving>>

\* RemoveMessagePassingSender, when a node is outdated: erased, and destroyed,
\* under the mutex, unless a caller still uses it.
RemoveMessagePassingSender(c, n) ==
    LET s == senders[n] IN
    /\ caller[c].at = "idle"
    /\ mutex = NoCaller
    /\ s # NoSender
    /\ created[n] < MaxSenders
    /\ senders' = [senders EXCEPT ![n] = NoSender]
    /\ IF Shared(s, Callers)
       THEN UNCHANGED <<mutex, caller, object>>
       ELSE mutex' = c /\ BeginDestruction(c, s)
    /\ UNCHANGED <<created, calls, pool, worker, receiving>>

\* The task of a sender is over: neither waiting for the worker nor running.
NotWaitedFor(s) == TRUE

TaskEnded(s) == worker.on # s /\ \A k \in DOMAIN pool : pool[k] # s

EndDestruction(c) ==
    LET s == caller[c].uses IN
    /\ caller[c].at = "destroy"
    /\ TaskEnded(s)
    /\ object' = [object EXCEPT ![s] = [queue |-> <<>>, stop |-> FALSE, alive |-> FALSE]]
    /\ mutex' = IF mutex = c THEN NoCaller ELSE mutex
    /\ caller' = [caller EXCEPT ![c] = [at |-> "idle", node |-> NoSender, uses |-> NoSender]]
    /\ UNCHANGED <<senders, created, calls, pool, worker, receiving>>

-----------------------------------------------------------------------------
(* The worker thread of the senders.                                       *)

Idle == [at |-> "idle", on |-> NoSender, tries |-> 0]

TakeTask ==
    /\ worker.at = "idle"
    /\ pool # <<>>
    /\ worker' = [at |-> "loop", on |-> Head(pool), tries |-> 0]
    /\ pool' = Tail(pool)
    /\ UNCHANGED <<senders, created, mutex, object, caller, calls, receiving>>

\* The head of the loop of SendQueueElements.
SendQueueElements ==
    /\ worker.at = "loop"
    /\ worker' = IF object[worker.on].stop THEN Idle ELSE [worker EXCEPT !.at = "write", !.tries = 0]
    /\ UNCHANGED <<senders, created, mutex, object, caller, calls, pool, receiving>>

\* SendPrepared after a failed attempt.
Retry == [worker EXCEPT !.at = IF worker.tries + 1 < MaxRetries THEN "write" ELSE "pop",
                        !.tries = @ + 1]

Write(i) ==
    LET n == worker.on[1]
        m == Head(object[worker.on].queue) IN
    /\ worker.at = "write"
    /\ path[n] = "attached"
    /\ io_write(n, i, m, m.caller)
    /\ worker' = IF Fits(n) THEN [worker EXCEPT !.at = "pop"] ELSE Retry
    /\ UNCHANGED <<senders, created, mutex, object, caller, calls, pool,
                   path, held, owned, dtor, stops, handled>>

WriteFails ==
    /\ worker.at = "write"
    /\ path[worker.on[1]] = "closed"
    /\ worker' = Retry
    /\ UNCHANGED <<senders, created, mutex, object, caller, calls, pool, receiving>>

\* The element is removed, sent or not; the task ends with the queue empty.
PopFront ==
    LET rest == Tail(object[worker.on].queue) IN
    /\ worker.at = "pop"
    /\ object' = [object EXCEPT ![worker.on].queue = rest]
    /\ worker' = IF rest = <<>> THEN Idle ELSE [worker EXCEPT !.at = "loop"]
    /\ UNCHANGED <<senders, created, mutex, caller, calls, pool, receiving>>

-----------------------------------------------------------------------------

ReceiverStep(n) ==
    \/ StartListening(n) \/ StartListeningFails(n)
    \/ SelfStop(n) \/ Abort(n) \/ WaitForTask0(n) \/ Close(n)
    \/ \E i \in Listeners :
          \/ Enter(n, i) \/ Check(n, i) \/ Leave(n, i)
          \/ Claim(n, i) \/ Drain(n, i) \/ ExecuteMessageHandler(n, i)
          \/ SendStop(n, i) \/ StrangerStops(n, i)
          \/ \E c \in Callers, s \in Senders : StrangerWrites(n, i, c, s)

CallerStep(c) ==
    \/ GetMessagePassingSender(c) \/ SendInternal(c) \/ Release(c) \/ EndDestruction(c)
    \/ \E i \in Listeners : CreateNewSender(c, i)
    \/ \E n \in Nodes : StartCall(c, n) \/ RemoveMessagePassingSender(c, n)

WorkerStep ==
    \/ TakeTask \/ SendQueueElements \/ WriteFails \/ PopFront
    \/ \E i \in Listeners : Write(i)

Next ==
    \/ \E n \in Nodes : ReceiverStep(n)
    \/ \E c \in Callers : CallerStep(c)
    \/ WorkerStep

(***************************************************************************)
(* Threads that can go on do.  The kernel serves the clients blocked on a  *)
(* channel in turn, so a rendezvous that stays possible again and again    *)
(* happens (strong fairness).  Nobody has to call, to shut down or to      *)
(* remove a sender.                                                        *)
(***************************************************************************)
Fairness ==
    /\ \A n \in Nodes :
          /\ WF_vars(StartListening(n))
          /\ WF_vars(WaitForTask0(n)) /\ WF_vars(Close(n))
          /\ SF_vars(SelfStop(n))
          /\ SF_vars(\E i \in Listeners : SendStop(n, i))
          /\ \A i \in Listeners :
                /\ WF_vars(Enter(n, i)) /\ WF_vars(Check(n, i)) /\ WF_vars(Leave(n, i))
                /\ WF_vars(Claim(n, i)) /\ WF_vars(Drain(n, i))
                /\ WF_vars(ExecuteMessageHandler(n, i))
    /\ \A c \in Callers :
          /\ SF_vars(GetMessagePassingSender(c))
          /\ SF_vars(\E i \in Listeners : CreateNewSender(c, i))
          /\ WF_vars(SendInternal(c)) /\ WF_vars(Release(c)) /\ WF_vars(EndDestruction(c))
    /\ WF_vars(TakeTask) /\ WF_vars(SendQueueElements)
    /\ WF_vars(WriteFails) /\ WF_vars(PopFront)
    /\ SF_vars(\E i \in Listeners : Write(i))

Spec == Init /\ [][Next]_vars
FairSpec == Spec /\ Fairness

-----------------------------------------------------------------------------

CallerStates == {"idle", "call", "connect", "send", "release", "destroy"}

SenderTypes ==
    /\ senders \in [Nodes -> Senders \cup {NoSender}]
    /\ created \in [Nodes -> 0 .. MaxSenders]
    /\ mutex \in Callers \cup {NoCaller}
    /\ object \in [Senders -> [queue : Seq(Messages), stop : BOOLEAN, alive : BOOLEAN]]
    /\ \A s \in Senders : Len(object[s].queue) <= SenderQueueSize
    /\ caller \in [Callers -> [at : CallerStates, node : Nodes \cup {NoSender},
                               uses : Senders \cup {NoSender}]]
    /\ calls \in [Callers -> Nat]
    /\ pool \in Seq(Senders)
    /\ worker \in [at : {"idle", "loop", "write", "pop"}, on : Senders \cup {NoSender},
                    tries : 0 .. MaxRetries]

ThreadStates ==
    {"none", "new", "selfstop", "check", "block", "claim", "drain", "handle", "leave",
     "overtaken", "ended"}

ReceiverTypes ==
    /\ path \in [Nodes -> {"absent", "attached", "closed"}]
    /\ listen \in [Nodes -> [Listeners -> ThreadStates]]
    /\ held \in [Nodes -> [Listeners -> Messages \cup {NoMessage}]]
    /\ inbox \in [Nodes -> Seq(Messages)]
    /\ \A n \in Nodes : Len(inbox[n]) <= ReceiverQueueSize
    /\ owned \in [Nodes -> BOOLEAN]
    /\ dtor \in [Nodes -> {"none", "stopping", "wait0", "wait1", "done"}]
    /\ stops \in [Nodes -> 0 .. 2]
    /\ arrived \in [Nodes -> Seq(Messages)]
    /\ handled \in [Nodes -> Seq(Messages)]

\* Type invariant: every variable of the two sides stays within its type, the
\* queues within their capacity.
TypeOK == SenderTypes /\ ReceiverTypes

\* Messages are handled in the order in which they arrive, although two
\* listening threads receive them (design/README.md, "processed in-order").
HandledAsTheyArrived ==
    \A n \in Nodes : \A k \in DOMAIN handled[n] :
        k \in DOMAIN arrived[n] /\ handled[n][k] = arrived[n][k]

\* The messages of a caller arrive once each, and those it sent on the same
\* sender in the order in which it sent them, although the worker retries.
\* (On two senders of one node they may not: a caller that still uses a
\* removed sender may be overtaken by one that uses the new sender.)
Precedes(a, b) ==
    a.caller = b.caller => /\ a.number # b.number
                           /\ a.sender = b.sender => a.number < b.number

HandledInOrder ==
    \A n \in Nodes : \A j, k \in DOMAIN handled[n] :
        j < k => Precedes(handled[n][j], handled[n][k])

\* A handler only runs for a message its sender really sent: a message that
\* another process wrote in the name of a caller is not handled.
HandledWereSent ==
    \A n \in Nodes : \A k \in DOMAIN handled[n] :
        handled[n][k].number <= calls[handled[n][k].caller]

\* A listening thread that takes no message any more.
Stopped(n, i) == listen[n][i] \in {"leave", "overtaken", "ended"}

\* The two listening threads never run handlers at the same time.
OneHandlerAtATime ==
    \A n \in Nodes :
        Cardinality({i \in Listeners : listen[n][i] \in {"drain", "handle"}}) <= 1

\* A received message is never stranded in the queue: while there is one, some
\* listening thread is on its way to handle it, also while the receiver stops
\* (each thread leaves to the other only what the other will still see).
NoMessageStranded ==
    \A n \in Nodes : inbox[n] # <<>> =>
        \E i \in Listeners : listen[n][i] \in {"claim", "drain", "handle"}

\* The same on the sending side: what a sender has accepted, the worker is at,
\* or has a task for, unless the sender is being destroyed.
NoMessageForgotten ==
    \A s \in Senders : object[s].queue # <<>> /\ ~object[s].stop =>
        worker.on = s \/ \E k \in DOMAIN pool : pool[k] = s

\* Nothing is used after it was freed: the worker and the callers use senders
\* that live, and the listening threads have ended when the receiver's state
\* is released.
NothingUsedAfterFree ==
    /\ \A c \in Callers : caller[c].uses # NoSender => object[caller[c].uses].alive
    /\ worker.on # NoSender => object[worker.on].alive
    /\ \A k \in DOMAIN pool : object[pool[k]].alive
    /\ \A n \in Nodes : dtor[n] = "done" => \A i \in Listeners : listen[n][i] = "ended"

\* Every stop message ~Receiver still has to send, a blocking call, finds a
\* listening thread that will take it ...
EveryStopIsReceived ==
    \A n \in Nodes : dtor[n] = "stopping" =>
        stops[n] <= Cardinality({i \in Listeners : ~Stopped(n, i)})

\* ... unless the destructor overtook thread 0 between the installation of its
\* stop callback and its look at the token: then one message waits for ever.
StopsAreReceived ==
    \A n \in Nodes : dtor[n] = "stopping" =>
        \/ listen[n][0] = "overtaken"
        \/ stops[n] <= Cardinality({i \in Listeners : ~Stopped(n, i)})

\* What the handlers of a receiver see: the messages that were sent, once, in the
\* order of their senders and of their arrival, one at a time.
HandledRight ==
    /\ TypeOK /\ HandledAsTheyArrived /\ HandledInOrder /\ HandledWereSent
    /\ OneHandlerAtATime

\* Neither side leaves a message behind that it has accepted.
NothingLeftBehind == NoMessageStranded /\ NoMessageForgotten

\* A call of an ASIL-B process towards a QM receiver always returns: getting
\* the sender, sending, and dropping it.
CallsReturn ==
    \A c \in Callers : caller[c].at # "idle" ~> caller[c].at = "idle"

-----------------------------------------------------------------------------
(* The inductive invariant, of each receiver and of the sending process.   *)

\* One listening thread at most runs handlers, and it owns the queue; a thread
\* is on its way to the queue while there is a message.
QueueOwned(n) ==
    /\ owned[n] <=> \E i \in Listeners : listen[n][i] \in {"drain", "handle"}
    /\ \A i, j \in Listeners :
          listen[n][i] \in {"drain", "handle"} /\ listen[n][j] \in {"drain", "handle"} => i = j
    /\ \A i \in Listeners : listen[n][i] = "handle" => held[n][i] \in Messages
    /\ inbox[n] # <<>> => \E i \in Listeners : listen[n][i] \in {"claim", "drain", "handle"}

\* What arrived was handled, is being handled, or is in the inbox.
NothingLost(n) ==
    /\ \A i \in Listeners :
          listen[n][i] = "handle" => arrived[n] = Append(handled[n], held[n][i]) \o inbox[n]
    /\ (\A i \in Listeners : listen[n][i] # "handle") => arrived[n] = handled[n] \o inbox[n]

\* The destructor waits for what the threads really do.
TasksWaitedFor(n) ==
    /\ path[n] = "attached" => \A i \in Listeners : listen[n][i] # "none"
    /\ path[n] = "absent" => dtor[n] = "none" /\ \A i \in Listeners : listen[n][i] = "none"
    /\ dtor[n] = "none" => \A i \in Listeners : ~Stopped(n, i) /\ listen[n][i] # "selfstop"
    /\ dtor[n] = "stopping" => stops[n] > 0
    /\ dtor[n] \in {"wait1", "done"} => listen[n][0] = "ended"
    /\ dtor[n] = "done" => listen[n][1] = "ended"

\* While stop messages are sent, as many are missing as threads go on, unless
\* thread 0 was overtaken.
ToStop(n, i) == IF Stopped(n, i) THEN 0 ELSE 1

StopsMatchThreads(n) ==
    dtor[n] = "stopping" =>
        \/ listen[n][0] = "overtaken"
        \/ /\ listen[n][0] \notin {"none", "new", "selfstop"}
           /\ stops[n] = ToStop(n, 0) + ToStop(n, 1)

ReceiverInvariant ==
    \A n \in Nodes : QueueOwned(n) /\ NothingLost(n) /\ TasksWaitedFor(n)

\* The map holds the latest sender of a node; what lives was created before.
NewObject == [queue |-> <<>>, stop |-> FALSE, alive |-> FALSE]

SendersLive ==
    /\ \A n \in Nodes :
          /\ senders[n] # NoSender => senders[n] = <<n, created[n]>> /\ object[senders[n]].alive
          /\ senders[n] = NoSender => created[n] < MaxSenders
    /\ \A s \in Senders : IF object[s].alive THEN s[2] <= created[s[1]] ELSE object[s] = NewObject

\* A caller uses a sender that lives; who destroys one is its last user, and
\* who connects holds the mutex.
CallerHolds(c) ==
    /\ caller[c].at # "idle" => caller[c].node \in Nodes
    /\ caller[c].at \in {"idle", "call", "connect"} => caller[c].uses = NoSender
    /\ caller[c].at \in {"send", "release", "destroy"} =>
          caller[c].uses \in Senders /\ object[caller[c].uses].alive
    /\ caller[c].at = "connect" => mutex = c /\ senders[caller[c].node] = NoSender
    /\ caller[c].at = "destroy" =>
          /\ \A n \in Nodes : senders[n] # caller[c].uses
          /\ \A d \in Callers \ {c} : caller[d].uses # caller[c].uses

\* There is one task for a queue with messages, waiting or at work.
TasksMatchQueues ==
    /\ worker.at = "idle" <=> worker.on = NoSender
    /\ worker.at = "write" => worker.tries < MaxRetries
    /\ worker.on # NoSender => object[worker.on].alive /\ object[worker.on].queue # <<>>
    /\ \A k \in DOMAIN pool :
          /\ object[pool[k]].alive /\ object[pool[k]].queue # <<>>
          /\ pool[k] # worker.on
          /\ \A j \in DOMAIN pool : pool[j] = pool[k] => j = k
    /\ NoMessageForgotten

SenderInvariant == SendersLive /\ (\A c \in Callers : CallerHolds(c)) /\ TasksMatchQueues

\* A message has the number of a call that was made, and of an earlier one
\* while its caller has not sent yet.
Numbered(m) ==
    /\ m.number <= calls[m.caller]
    /\ caller[m.caller].at \in {"call", "connect", "send"} => m.number < calls[m.caller]

\* What arrived came before what is queued, but for the message that was just
\* written and is about to be removed.
Written(s, k) == k = 1 /\ worker.on = s /\ worker.at = "pop"

ArrivedOnce ==
    \A n \in Nodes : \A j \in DOMAIN arrived[n] :
        /\ Numbered(arrived[n][j])
        /\ \A k \in DOMAIN arrived[n] : j < k => Precedes(arrived[n][j], arrived[n][k])

QueuedOnce ==
    \A s \in Senders : \A j \in DOMAIN object[s].queue :
        /\ Numbered(object[s].queue[j]) /\ object[s].queue[j].sender = s
        /\ \A k \in DOMAIN object[s].queue :
              j < k => Precedes(object[s].queue[j], object[s].queue[k])
        /\ \A t \in Senders \ {s} : \A k \in DOMAIN object[t].queue :
              Precedes(object[s].queue[j], object[t].queue[k])

ArrivedBeforeQueued ==
    \A n \in Nodes, s \in Senders :
        \A j \in DOMAIN arrived[n], k \in DOMAIN object[s].queue :
            Written(s, k) \/ Precedes(arrived[n][j], object[s].queue[k])

OrderInvariant == ArrivedOnce /\ QueuedOnce /\ ArrivedBeforeQueued

MessageInvariant == ReceiverInvariant /\ SenderInvariant /\ OrderInvariant

=============================================================================
