------------------------ MODULE MessagePassingProofs ------------------------
(***************************************************************************)
(* Theorems about message passing, for any number of callers, nodes and    *)
(* senders and any capacity of the queues.  The inductive invariant has    *)
(* three parts: ReceiverInvariant says which thread owns the queue of a    *)
(* receiver and that nothing that arrived is lost, SenderInvariant that    *)
(* there is one task for a queue with messages and that nobody uses a      *)
(* sender that is freed, OrderInvariant what is between a message's call   *)
(* and its handler.  StopsMatchThreads counts the stop messages.           *)
(***************************************************************************)
EXTENDS MessagePassing, SequenceTheorems, FiniteSetTheorems, TLAPS

(* The bounds are positive, and a stranger is no caller and no node.       *)
LEMMA Bounds ==
    /\ SenderQueueSize \in Nat /\ SenderQueueSize > 0
    /\ ReceiverQueueSize \in Nat /\ ReceiverQueueSize > 0
    /\ MaxRetries \in Nat /\ MaxRetries > 0 /\ MaxSenders \in Nat /\ MaxSenders > 0
    /\ NoCaller \notin Callers /\ Stranger \notin Callers /\ Stranger \notin Nodes
    /\ 0 \in Listeners /\ 1 \in Listeners
BY MessagePassingAssumption, NamesDiffer DEF Listeners

(* A sender is a node and a number; no sender and no message are neither.  *)
LEMMA SenderNames ==
    /\ NoSender \notin Senders /\ NoMessage \notin Messages
    /\ \A s \in Senders : s = <<s[1], s[2]>> /\ s[1] \in Nodes /\ s[2] \in 1 .. MaxSenders
    /\ \A n \in Nodes, k \in 1 .. MaxSenders : <<n, k>> \in Senders
<1>1. \A n \in Nodes, k \in 1 .. MaxSenders : <<n, k>> # <<>>
  OBVIOUS
<1>2. <<>> \notin [caller : Callers, number : Nat, sender : Senders]
  OBVIOUS
<1> QED
  BY <1>1, <1>2 DEF Senders, NoSender, NoMessage, Messages

(* A message that arrives goes to the end of what is not handled yet.      *)
LEMMA ArrivesAtTheEnd ==
    ASSUME NEW s \in Seq(Messages), NEW t \in Seq(Messages), NEW m \in Messages
    PROVE  Append(s \o t, m) = s \o Append(t, m)
<1>1. s \o t \in Seq(Messages) /\ <<m>> \in Seq(Messages)
  BY ConcatProperties
<1>2. Append(s \o t, m) = (s \o t) \o <<m>>
  BY <1>1, AppendIsConcat
<1>3. Append(t, m) = t \o <<m>>
  BY AppendIsConcat
<1> QED
  BY <1>1, <1>2, <1>3, ConcatAssociative

(* The message that is taken from the inbox is the next one to be handled. *)
LEMMA TakenFromTheFront ==
    ASSUME NEW s \in Seq(Messages), NEW t \in Seq(Messages), t # <<>>
    PROVE  /\ s \o t = Append(s, Head(t)) \o Tail(t)
           /\ Head(t) \in Messages /\ Tail(t) \in Seq(Messages) /\ Len(Tail(t)) = Len(t) - 1
<1>1. Head(t) \in Messages /\ Tail(t) \in Seq(Messages) /\ <<Head(t)>> \in Seq(Messages)
      /\ Len(Tail(t)) = Len(t) - 1 /\ \A i \in 1 .. Len(Tail(t)) : Tail(t)[i] = t[i + 1]
  BY HeadTailProperties
<1>2. t = <<Head(t)>> \o Tail(t)
  <2>1. /\ <<Head(t)>> \o Tail(t) \in Seq(Messages) /\ Len(<<Head(t)>> \o Tail(t)) = Len(t)
        /\ \A i \in 1 .. Len(t) : (<<Head(t)>> \o Tail(t))[i] =
              IF i <= 1 THEN <<Head(t)>>[i] ELSE Tail(t)[i - 1]
    BY <1>1, ConcatProperties, LenProperties
  <2>2. Len(t) \in Nat
    BY LenProperties
  <2>3. ASSUME NEW i \in 1 .. Len(t) PROVE t[i] = (<<Head(t)>> \o Tail(t))[i]
    BY <1>1, <2>1, <2>2
  <2> QED
    BY <2>1, <2>3, SeqEqual
<1>3. Append(s, Head(t)) = s \o <<Head(t)>>
  BY <1>1, AppendIsConcat
<1> QED
  BY <1>1, <1>2, <1>3, ConcatAssociative

(* A listening thread goes on; the others stay where they are.             *)
LEMMA ThreadGoes ==
    ASSUME ReceiverTypes, NEW n \in Nodes, NEW i \in Listeners,
           NEW at \in ThreadStates,
           listen' = [listen EXCEPT ![n][i] = at]
    PROVE  /\ listen' \in [Nodes -> [Listeners -> ThreadStates]]
           /\ listen'[n][i] = at
           /\ \A j \in Listeners \ {i} : listen'[n][j] = listen[n][j]
           /\ \A m \in Nodes \ {n} : listen'[m] = listen[m]
BY DEF ReceiverTypes

(* A step of one receiver keeps the invariant when it keeps what the       *)
(* invariant says of that receiver.                                        *)
LEMMA OtherReceivers ==
    ASSUME ReceiverInvariant, NEW n \in Nodes,
           QueueOwned(n)', NothingLost(n)', TasksWaitedFor(n)',
           \A m \in Nodes \ {n} :
               /\ listen'[m] = listen[m] /\ held'[m] = held[m] /\ inbox'[m] = inbox[m]
               /\ owned'[m] = owned[m] /\ dtor'[m] = dtor[m] /\ path'[m] = path[m]
               /\ stops'[m] = stops[m] /\ arrived'[m] = arrived[m] /\ handled'[m] = handled[m]
    PROVE  ReceiverInvariant'
<1> SUFFICES ASSUME NEW m \in Nodes, m # n
             PROVE  QueueOwned(m)' /\ NothingLost(m)' /\ TasksWaitedFor(m)'
  BY DEF ReceiverInvariant
<1>1. QueueOwned(m) /\ NothingLost(m) /\ TasksWaitedFor(m)
  BY DEF ReceiverInvariant
<1>2. /\ listen'[m] = listen[m] /\ held'[m] = held[m] /\ inbox'[m] = inbox[m]
      /\ owned'[m] = owned[m] /\ dtor'[m] = dtor[m] /\ path'[m] = path[m]
      /\ stops'[m] = stops[m] /\ arrived'[m] = arrived[m] /\ handled'[m] = handled[m]
  OBVIOUS
<1>3. QueueOwned(m)'
  BY <1>1, <1>2 DEF QueueOwned
<1>4. NothingLost(m)'
  BY <1>1, <1>2 DEF NothingLost
<1>5. TasksWaitedFor(m)'
  BY <1>1, <1>2 DEF TasksWaitedFor, Stopped
<1> QED
  BY <1>3, <1>4, <1>5

(* So does a step of a thread that has nothing to do with the queue.       *)
LEMMA OutsideTheQueue ==
    ASSUME ReceiverInvariant, NEW n \in Nodes, TasksWaitedFor(n)',
           UNCHANGED <<inbox, held, owned, arrived, handled>>,
           \A j \in Listeners : listen'[n][j] # listen[n][j] =>
               /\ listen[n][j] \notin {"claim", "drain", "handle"}
               /\ listen'[n][j] \notin {"drain", "handle"},
           \A m \in Nodes \ {n} :
               listen'[m] = listen[m] /\ dtor'[m] = dtor[m] /\ path'[m] = path[m] /\ stops'[m] = stops[m]
    PROVE  ReceiverInvariant'
<1>1. QueueOwned(n) /\ NothingLost(n)
  BY DEF ReceiverInvariant
<1>2. QueueOwned(n)'
  BY <1>1 DEF QueueOwned
<1>3. NothingLost(n)'
  BY <1>1 DEF NothingLost
<1> QED
  BY <1>2, <1>3, OtherReceivers

-----------------------------------------------------------------------------
(* The receivers.                                                          *)

(* The states of a listening thread that the steps go to.                  *)
LEMMA States ==
    /\ "new" \in ThreadStates /\ "check" \in ThreadStates /\ "block" \in ThreadStates
    /\ "claim" \in ThreadStates /\ "drain" \in ThreadStates /\ "handle" \in ThreadStates
    /\ "leave" \in ThreadStates /\ "overtaken" \in ThreadStates /\ "ended" \in ThreadStates
BY DEF ThreadStates

(* The receiver starts its threads, or the process gives up.               *)
LEMMA StartListeningStep ==
    ASSUME ReceiverTypes, ReceiverInvariant, NEW n \in Nodes,
           StartListening(n) \/ StartListeningFails(n)
    PROVE  ReceiverTypes' /\ ReceiverInvariant'
<1>1. /\ path[n] = "absent" /\ UNCHANGED <<held, inbox, owned, dtor, stops, arrived, handled>>
      /\ \/ /\ path' = [path EXCEPT ![n] = "attached"]
            /\ listen' = [listen EXCEPT ![n] = [i \in Listeners |-> "new"]]
         \/ path' = [path EXCEPT ![n] = "closed"] /\ UNCHANGED listen
  BY DEF StartListening, StartListeningFails, history
<1>2. TasksWaitedFor(n) /\ dtor[n] = "none" /\ \A i \in Listeners : listen[n][i] = "none"
  BY <1>1 DEF ReceiverInvariant, TasksWaitedFor
<1>3. ReceiverTypes'
  <2>1. path' \in [Nodes -> {"absent", "attached", "closed"}]
    BY <1>1 DEF ReceiverTypes
  <2>2. listen' \in [Nodes -> [Listeners -> ThreadStates]]
    <3>1. [i \in Listeners |-> "new"] \in [Listeners -> ThreadStates]
      BY States
    <3> QED
      BY <1>1, <3>1 DEF ReceiverTypes
  <2> QED
    BY <1>1, <2>1, <2>2 DEF ReceiverTypes
<1>4. \A m \in Nodes \ {n} : listen'[m] = listen[m] /\ path'[m] = path[m]
  BY <1>1 DEF ReceiverTypes
<1>5. CASE /\ path' = [path EXCEPT ![n] = "attached"]
           /\ listen' = [listen EXCEPT ![n] = [i \in Listeners |-> "new"]]
  <2>1. path'[n] = "attached" /\ \A i \in Listeners : listen'[n][i] = "new"
    BY <1>5 DEF ReceiverTypes
  <2>2. TasksWaitedFor(n)'
    BY <1>1, <1>2, <2>1 DEF TasksWaitedFor, Stopped
  <2> QED
    BY <1>1, <1>2, <1>3, <1>4, <2>1, <2>2, OutsideTheQueue
<1>6. CASE path' = [path EXCEPT ![n] = "closed"] /\ UNCHANGED listen
  <2>1. path'[n] = "closed"
    BY <1>6 DEF ReceiverTypes
  <2>2. TasksWaitedFor(n)'
    BY <1>1, <1>2, <1>6, <2>1 DEF TasksWaitedFor, Stopped
  <2> QED
    BY <1>1, <1>3, <1>4, <1>6, <2>2, OutsideTheQueue
<1> QED
  BY <1>1, <1>5, <1>6

(* A step of a thread between its start and its end, outside the queue.    *)
LEMMA ThreadStep ==
    ASSUME ReceiverTypes, ReceiverInvariant, NEW n \in Nodes, NEW i \in Listeners,
           NEW at \in {"check", "selfstop", "block", "claim", "leave", "overtaken", "ended"},
           listen[n][i] \in {"new", "check", "block", "leave", "overtaken"},
           at \in {"selfstop", "leave", "overtaken"} => dtor[n] # "none",
           at = "ended" <=> listen[n][i] \in {"leave", "overtaken"},
           listen' = [listen EXCEPT ![n][i] = at],
           UNCHANGED <<path, held, inbox, owned, dtor, stops, arrived, handled>>
    PROVE  ReceiverTypes' /\ ReceiverInvariant'
<1>0. at \in ThreadStates
  BY DEF ThreadStates
<1>1. /\ listen'[n][i] = at
      /\ listen' \in [Nodes -> [Listeners -> ThreadStates]]
      /\ \A j \in Listeners \ {i} : listen'[n][j] = listen[n][j]
      /\ \A m \in Nodes \ {n} : listen'[m] = listen[m]
  BY <1>0, ThreadGoes
<1>2. ReceiverTypes'
  BY <1>1 DEF ReceiverTypes
<1>3. TasksWaitedFor(n)'
  <2>1. TasksWaitedFor(n)
    BY DEF ReceiverInvariant
  <2>2. i \in {0, 1}
    BY DEF Listeners
  <2> QED
    BY <1>1, <2>1, <2>2, Bounds DEF TasksWaitedFor, Stopped
<1> QED
  BY <1>1, <1>2, <1>3, OutsideTheQueue

(* A thread starts, looks at its stop token, or returns.                   *)
LEMMA EnterStep ==
    ASSUME ReceiverTypes, ReceiverInvariant, NEW n \in Nodes, NEW i \in Listeners,
           Enter(n, i) \/ Check(n, i) \/ Leave(n, i)
    PROVE  ReceiverTypes' /\ ReceiverInvariant'
<1>1. UNCHANGED <<path, held, inbox, owned, dtor, stops, arrived, handled>>
  BY DEF Enter, Check, Leave, history
<1>2. CASE Enter(n, i)
  <2>1. /\ listen[n][i] = "new"
        /\ \/ listen' = [listen EXCEPT ![n][i] = "selfstop"] /\ dtor[n] # "none"
           \/ listen' = [listen EXCEPT ![n][i] = "check"]
    BY <1>2 DEF Enter, StopRequested
  <2> QED
    BY <1>1, <2>1, ThreadStep
<1>3. CASE Check(n, i)
  <2>1. /\ listen[n][i] = "check"
        /\ \/ listen' = [listen EXCEPT ![n][i] = "leave"] /\ dtor[n] # "none"
           \/ listen' = [listen EXCEPT ![n][i] = "overtaken"] /\ dtor[n] # "none"
           \/ listen' = [listen EXCEPT ![n][i] = "block"]
    BY <1>3 DEF Check, StopRequested, Overtaken
  <2> QED
    BY <1>1, <2>1, ThreadStep
<1>4. CASE Leave(n, i)
  BY <1>1, <1>4, ThreadStep DEF Leave
<1> QED
  BY <1>2, <1>3, <1>4

(* A thread dispatches something that leaves no message behind: an open, a *)
(* refused message, a refused stop.                                        *)
LEMMA DispatchStep ==
    ASSUME ReceiverTypes, ReceiverInvariant, NEW n \in Nodes, NEW i \in Listeners,
           listen[n][i] = "block", listen' = [listen EXCEPT ![n][i] = "claim"],
           UNCHANGED <<path, held, inbox, owned, dtor, stops, arrived, handled>>
    PROVE  ReceiverTypes' /\ ReceiverInvariant'
BY ThreadStep

(* A message that arrives is queued by the thread that receives it.        *)
LEMMA ArrivalStep ==
    ASSUME ReceiverTypes, ReceiverInvariant, NEW n \in Nodes, NEW i \in Listeners,
           NEW m \in Messages, Fits(n),
           listen[n][i] = "block", listen' = [listen EXCEPT ![n][i] = "claim"],
           inbox' = [inbox EXCEPT ![n] = Append(@, m)],
           arrived' = [arrived EXCEPT ![n] = Append(@, m)],
           UNCHANGED <<path, held, owned, dtor, stops, handled>>
    PROVE  ReceiverTypes' /\ ReceiverInvariant'
<1>1. /\ listen'[n][i] = "claim"
      /\ \A j \in Listeners \ {i} : listen'[n][j] = listen[n][j]
      /\ \A k \in Nodes \ {n} : listen'[k] = listen[k]
  BY ThreadGoes, States
<1>2. inbox[n] \in Seq(Messages) /\ arrived[n] \in Seq(Messages) /\ handled[n] \in Seq(Messages)
  BY DEF ReceiverTypes
<1>3. /\ inbox'[n] = Append(inbox[n], m) /\ arrived'[n] = Append(arrived[n], m)
      /\ \A k \in Nodes \ {n} : inbox'[k] = inbox[k] /\ arrived'[k] = arrived[k]
  BY DEF ReceiverTypes
<1>4. /\ inbox'[n] \in Seq(Messages) /\ arrived'[n] \in Seq(Messages)
      /\ Len(inbox'[n]) = Len(inbox[n]) + 1 /\ inbox'[n] # <<>>
  BY <1>2, <1>3, AppendProperties
<1>5. ReceiverTypes'
  <2>1. \A k \in Nodes : Len(inbox'[k]) <= ReceiverQueueSize
    <3>1. Len(inbox[n]) \in Nat
      BY <1>2, LenProperties
    <3>2. Len(inbox'[n]) <= ReceiverQueueSize
      BY <1>4, <3>1, Bounds DEF Fits
    <3>3. ASSUME NEW k \in Nodes, k # n PROVE Len(inbox'[k]) <= ReceiverQueueSize
      <4>1. inbox'[k] = inbox[k]
        BY <1>3, <3>3
      <4>2. Len(inbox[k]) <= ReceiverQueueSize
        BY DEF ReceiverTypes
      <4> QED
        BY <4>1, <4>2
    <3>4. ASSUME NEW k \in Nodes PROVE Len(inbox'[k]) <= ReceiverQueueSize
      BY <3>2, <3>3, Zenon
    <3> QED
      BY <3>4, Zenon
  <2>2. inbox' \in [Nodes -> Seq(Messages)] /\ arrived' \in [Nodes -> Seq(Messages)]
    BY <1>3, <1>4 DEF ReceiverTypes
  <2> QED
    BY <2>1, <2>2, ThreadGoes, States DEF ReceiverTypes
<1>6. QueueOwned(n) /\ NothingLost(n) /\ TasksWaitedFor(n)
  BY DEF ReceiverInvariant
<1>7. QueueOwned(n)'
  BY <1>1, <1>6 DEF QueueOwned
<1>8. NothingLost(n)'
  <2>1. ASSUME NEW j \in Listeners, listen'[n][j] = "handle"
        PROVE  arrived'[n] = Append(handled[n], held[n][j]) \o inbox'[n]
    <3>1. listen[n][j] = "handle" /\ held[n][j] \in Messages
      BY <1>1, <1>6, <2>1 DEF QueueOwned
    <3> DEFINE h == Append(handled[n], held[n][j])
    <3>2. h \in Seq(Messages)
      BY <1>2, <3>1, AppendProperties
    <3>3. arrived[n] = h \o inbox[n]
      BY <1>6, <3>1 DEF NothingLost
    <3> HIDE DEF h
    <3>4. Append(h \o inbox[n], m) = h \o Append(inbox[n], m)
      BY <1>2, <3>2, ArrivesAtTheEnd
    <3> QED
      BY <1>3, <3>3, <3>4 DEF h
  <2>2. ASSUME \A j \in Listeners : listen'[n][j] # "handle"
        PROVE  arrived'[n] = handled[n] \o inbox'[n]
    <3>1. arrived[n] = handled[n] \o inbox[n]
      BY <1>1, <1>6, <2>2 DEF NothingLost
    <3> QED
      BY <1>2, <1>3, <3>1, ArrivesAtTheEnd
  <2> QED
    BY <2>1, <2>2 DEF NothingLost
<1>9. TasksWaitedFor(n)'
  BY <1>1, <1>6, Bounds DEF TasksWaitedFor, Stopped
<1> QED
  BY <1>1, <1>3, <1>5, <1>7, <1>8, <1>9, OtherReceivers

(* At most one thread takes the queue over.                                *)
LEMMA ClaimStep ==
    ASSUME ReceiverTypes, ReceiverInvariant, NEW n \in Nodes, NEW i \in Listeners, Claim(n, i)
    PROVE  ReceiverTypes' /\ ReceiverInvariant'
<1>1. /\ listen[n][i] = "claim"
      /\ listen' = [listen EXCEPT ![n][i] = IF TakesOver(n) THEN "drain" ELSE "block"]
      /\ owned' = [owned EXCEPT ![n] = @ \/ TakesOver(n)]
      /\ UNCHANGED <<path, held, inbox, dtor, stops, arrived, handled>>
  BY DEF Claim, history
<1>2. /\ listen'[n][i] = IF TakesOver(n) THEN "drain" ELSE "block"
      /\ \A j \in Listeners \ {i} : listen'[n][j] = listen[n][j]
      /\ \A m \in Nodes \ {n} : listen'[m] = listen[m]
      /\ listen' \in [Nodes -> [Listeners -> ThreadStates]]
  <2>1. CASE TakesOver(n)
    BY <1>1, <2>1, ThreadGoes, States
  <2>2. CASE ~TakesOver(n)
    BY <1>1, <2>2, ThreadGoes, States
  <2> QED
    BY <2>1, <2>2
<1>3. owned' \in [Nodes -> BOOLEAN] /\ (owned'[n] <=> owned[n] \/ TakesOver(n))
      /\ \A m \in Nodes \ {n} : owned'[m] = owned[m]
  BY <1>1 DEF ReceiverTypes
<1>4. ReceiverTypes'
  BY <1>1, <1>2, <1>3 DEF ReceiverTypes
<1>5. QueueOwned(n) /\ NothingLost(n) /\ TasksWaitedFor(n)
  BY DEF ReceiverInvariant
<1>6. QueueOwned(n)'
  BY <1>1, <1>2, <1>3, <1>5 DEF QueueOwned, TakesOver
<1>7. NothingLost(n)'
  <2>1. \A j \in Listeners : listen'[n][j] = "handle" <=> listen[n][j] = "handle"
    BY <1>1, <1>2
  <2>2. /\ held' = held /\ inbox' = inbox /\ arrived' = arrived /\ handled' = handled
    BY <1>1
  <2> QED
    BY <1>5, <2>1, <2>2 DEF NothingLost
<1>8. TasksWaitedFor(n)'
  BY <1>1, <1>2, <1>5, Bounds DEF TasksWaitedFor, Stopped
<1> QED
  BY <1>1, <1>2, <1>3, <1>4, <1>6, <1>7, <1>8, OtherReceivers

(* The owner takes the next message, or gives up the empty queue.          *)
LEMMA DrainStep ==
    ASSUME ReceiverTypes, ReceiverInvariant, NEW n \in Nodes, NEW i \in Listeners, Drain(n, i)
    PROVE  ReceiverTypes' /\ ReceiverInvariant'
<1>1. listen[n][i] = "drain" /\ UNCHANGED <<path, dtor, stops, arrived, handled>>
  BY DEF Drain, history
<1>2. QueueOwned(n) /\ NothingLost(n) /\ TasksWaitedFor(n)
  BY DEF ReceiverInvariant
<1>3. inbox[n] \in Seq(Messages) /\ handled[n] \in Seq(Messages)
  BY DEF ReceiverTypes
<1>4. CASE inbox[n] = <<>>
  <2>1. /\ owned' = [owned EXCEPT ![n] = FALSE]
        /\ listen' = [listen EXCEPT ![n][i] = "block"]
        /\ UNCHANGED <<inbox, held>>
    BY <1>4 DEF Drain
  <2>2. /\ listen'[n][i] = "block" /\ owned'[n] = FALSE /\ owned' \in [Nodes -> BOOLEAN]
        /\ \A j \in Listeners \ {i} : listen'[n][j] = listen[n][j]
        /\ \A m \in Nodes \ {n} : listen'[m] = listen[m] /\ owned'[m] = owned[m]
    BY <2>1, ThreadGoes, States DEF ReceiverTypes
  <2>3. ReceiverTypes'
    BY <1>1, <2>1, <2>2, ThreadGoes, States DEF ReceiverTypes
  <2>4. QueueOwned(n)'
    BY <1>1, <1>2, <1>4, <2>1, <2>2 DEF QueueOwned
  <2>5. NothingLost(n)'
    BY <1>1, <1>2, <2>1, <2>2 DEF NothingLost
  <2>6. TasksWaitedFor(n)'
    BY <1>1, <1>2, <2>2, Bounds DEF TasksWaitedFor, Stopped
  <2> QED
    BY <1>1, <2>1, <2>2, <2>3, <2>4, <2>5, <2>6, OtherReceivers
<1>5. CASE inbox[n] # <<>>
  <2>1. /\ held' = [held EXCEPT ![n][i] = Head(inbox[n])]
        /\ inbox' = [inbox EXCEPT ![n] = Tail(@)]
        /\ listen' = [listen EXCEPT ![n][i] = "handle"]
        /\ UNCHANGED owned
    BY <1>5 DEF Drain
  <2>2. /\ listen'[n][i] = "handle"
        /\ \A j \in Listeners \ {i} : listen'[n][j] = listen[n][j]
        /\ \A m \in Nodes \ {n} : listen'[m] = listen[m]
    BY <2>1, ThreadGoes, States
  <2>3. /\ handled[n] \o inbox[n] = Append(handled[n], Head(inbox[n])) \o Tail(inbox[n])
        /\ Head(inbox[n]) \in Messages /\ Tail(inbox[n]) \in Seq(Messages)
        /\ Len(Tail(inbox[n])) = Len(inbox[n]) - 1 /\ Len(inbox[n]) \in Nat
    BY <1>3, <1>5, TakenFromTheFront, LenProperties
  <2>4. /\ inbox'[n] = Tail(inbox[n]) /\ held'[n][i] = Head(inbox[n])
        /\ \A m \in Nodes \ {n} : inbox'[m] = inbox[m] /\ held'[m] = held[m]
        /\ inbox' \in [Nodes -> Seq(Messages)]
    BY <2>1, <2>3 DEF ReceiverTypes
  <2>5. held' \in [Nodes -> [Listeners -> Messages \cup {NoMessage}]]
    BY <2>1, <2>3 DEF ReceiverTypes
  <2>6. \A m \in Nodes : Len(inbox'[m]) <= ReceiverQueueSize
    <3>1. Len(inbox[n]) <= ReceiverQueueSize
      BY DEF ReceiverTypes
    <3>2. Len(inbox'[n]) <= ReceiverQueueSize
      BY <2>3, <2>4, <3>1, Bounds
    <3> QED
      BY <2>4, <3>2 DEF ReceiverTypes
  <2>7. ReceiverTypes'
    BY <1>1, <2>1, <2>4, <2>5, <2>6, ThreadGoes, States DEF ReceiverTypes
  <2>8. \A j \in Listeners \ {i} : listen[n][j] \notin {"drain", "handle"}
    BY <1>1, <1>2 DEF QueueOwned
  <2>9. QueueOwned(n)'
    BY <1>1, <1>2, <2>1, <2>2, <2>3, <2>4, <2>8 DEF QueueOwned
  <2>10. NothingLost(n)'
    <3>1. arrived[n] = handled[n] \o inbox[n]
      BY <1>1, <1>2, <2>8 DEF NothingLost
    <3> QED
      BY <1>1, <2>2, <2>3, <2>4, <2>8, <3>1 DEF NothingLost
  <2>11. TasksWaitedFor(n)'
    BY <1>1, <1>2, <2>2, Bounds DEF TasksWaitedFor, Stopped
  <2> QED
    BY <1>1, <2>1, <2>2, <2>4, <2>7, <2>9, <2>10, <2>11, OtherReceivers
<1> QED
  BY <1>4, <1>5

(* The owner runs the handler of the message it took.                      *)
LEMMA ExecuteStep ==
    ASSUME ReceiverTypes, ReceiverInvariant, NEW n \in Nodes, NEW i \in Listeners,
           ExecuteMessageHandler(n, i)
    PROVE  ReceiverTypes' /\ ReceiverInvariant'
<1>1. /\ listen[n][i] = "handle"
      /\ handled' = [handled EXCEPT ![n] = Append(@, held[n][i])]
      /\ held' = [held EXCEPT ![n][i] = NoMessage]
      /\ listen' = [listen EXCEPT ![n][i] = "drain"]
      /\ UNCHANGED <<path, inbox, owned, dtor, stops, arrived>>
  BY DEF ExecuteMessageHandler
<1>2. QueueOwned(n) /\ NothingLost(n) /\ TasksWaitedFor(n)
  BY DEF ReceiverInvariant
<1>3. /\ listen'[n][i] = "drain"
      /\ \A j \in Listeners \ {i} : listen'[n][j] = listen[n][j]
      /\ \A m \in Nodes \ {n} : listen'[m] = listen[m]
  BY <1>1, ThreadGoes, States
<1>4. held[n][i] \in Messages /\ handled[n] \in Seq(Messages)
  BY <1>1, <1>2 DEF QueueOwned, ReceiverTypes
<1>5. Append(handled[n], held[n][i]) \in Seq(Messages)
  BY <1>4, AppendProperties
<1>6. /\ handled'[n] = Append(handled[n], held[n][i]) /\ handled' \in [Nodes -> Seq(Messages)]
      /\ held' \in [Nodes -> [Listeners -> Messages \cup {NoMessage}]]
      /\ \A m \in Nodes \ {n} : handled'[m] = handled[m] /\ held'[m] = held[m]
  BY <1>1, <1>5 DEF ReceiverTypes
<1>7. ReceiverTypes'
  BY <1>1, <1>6, ThreadGoes, States DEF ReceiverTypes
<1>8. \A j \in Listeners \ {i} : listen[n][j] \notin {"drain", "handle"}
  BY <1>1, <1>2 DEF QueueOwned
<1>9. QueueOwned(n)'
  BY <1>1, <1>2, <1>3, <1>8 DEF QueueOwned
<1>10. NothingLost(n)'
  <2>1. arrived[n] = Append(handled[n], held[n][i]) \o inbox[n]
    BY <1>1, <1>2 DEF NothingLost
  <2>2. arrived'[n] = handled'[n] \o inbox'[n]
    BY <1>1, <1>6, <2>1
  <2>3. \A j \in Listeners : listen'[n][j] # "handle"
    BY <1>3, <1>8
  <2> QED
    BY <2>2, <2>3 DEF NothingLost
<1>11. TasksWaitedFor(n)'
  BY <1>1, <1>2, <1>3, Bounds DEF TasksWaitedFor, Stopped
<1> QED
  BY <1>1, <1>3, <1>6, <1>7, <1>9, <1>10, <1>11, OtherReceivers

(* Thread 0 stops the other thread itself when the stop came first.        *)
LEMMA SelfStopStep ==
    ASSUME ReceiverTypes, ReceiverInvariant, NEW n \in Nodes, SelfStop(n)
    PROVE  ReceiverTypes' /\ ReceiverInvariant'
<1>1. /\ listen[n][0] = "selfstop" /\ listen[n][1] = "block"
      /\ listen' = [listen EXCEPT ![n] = [i \in Listeners |-> IF i = 0 THEN "check" ELSE "leave"]]
      /\ UNCHANGED <<path, held, inbox, owned, dtor, stops, arrived, handled>>
  BY DEF SelfStop, history
<1>2. [i \in Listeners |-> IF i = 0 THEN "check" ELSE "leave"] \in [Listeners -> ThreadStates]
  BY States
<1>3. /\ listen' \in [Nodes -> [Listeners -> ThreadStates]]
      /\ listen'[n][0] = "check" /\ listen'[n][1] = "leave"
      /\ \A m \in Nodes \ {n} : listen'[m] = listen[m]
  BY <1>1, <1>2, Bounds DEF ReceiverTypes
<1>4. ReceiverTypes'
  BY <1>1, <1>3 DEF ReceiverTypes
<1>5. TasksWaitedFor(n)
  BY DEF ReceiverInvariant
<1>6. TasksWaitedFor(n)'
  BY <1>1, <1>3, <1>5 DEF TasksWaitedFor, Stopped, Listeners
<1>7. \A j \in Listeners : listen'[n][j] # listen[n][j] =>
               /\ listen[n][j] \notin {"claim", "drain", "handle"}
               /\ listen'[n][j] \notin {"drain", "handle"}
  BY <1>1, <1>3 DEF Listeners
<1> QED
  BY <1>1, <1>3, <1>4, <1>6, <1>7, OutsideTheQueue

(* The destructor begins to stop a receiver that listens.                  *)
LEMMA AbortStep ==
    ASSUME ReceiverTypes, ReceiverInvariant, NEW n \in Nodes, Abort(n)
    PROVE  ReceiverTypes' /\ ReceiverInvariant'
<1>1. /\ path[n] = "attached" /\ dtor[n] = "none"
      /\ \/ dtor' = [dtor EXCEPT ![n] = "wait0"] /\ UNCHANGED stops
         \/ /\ dtor' = [dtor EXCEPT ![n] = "stopping"]
            /\ stops' = [stops EXCEPT ![n] = Cardinality(Listeners)]
      /\ UNCHANGED <<path, listen, held, inbox, owned, arrived, handled>>
  BY DEF Abort, history
<1>2. Cardinality(Listeners) = 2
  <2>1. IsFiniteSet({0}) /\ Cardinality({0}) = 1
    BY FS_Singleton
  <2>2. Cardinality({0} \cup {1}) = 2
    BY <2>1, FS_AddElement
  <2>3. Listeners = {0} \cup {1}
    BY DEF Listeners
  <2> QED
    BY <2>2, <2>3
<1>3. /\ dtor' \in [Nodes -> {"none", "stopping", "wait0", "wait1", "done"}]
      /\ stops' \in [Nodes -> 0 .. 2]
      /\ dtor'[n] = "wait0" \/ (dtor'[n] = "stopping" /\ stops'[n] = 2)
      /\ \A m \in Nodes \ {n} : dtor'[m] = dtor[m] /\ stops'[m] = stops[m]
  <2>1. CASE dtor' = [dtor EXCEPT ![n] = "wait0"] /\ UNCHANGED stops
    BY <2>1 DEF ReceiverTypes
  <2>2. CASE /\ dtor' = [dtor EXCEPT ![n] = "stopping"]
             /\ stops' = [stops EXCEPT ![n] = Cardinality(Listeners)]
    <3>1. stops' = [stops EXCEPT ![n] = 2]
      BY <1>2, <2>2
    <3> QED
      BY <2>2, <3>1 DEF ReceiverTypes
  <2> QED
    BY <1>1, <2>1, <2>2
<1>4. ReceiverTypes'
  BY <1>1, <1>3 DEF ReceiverTypes
<1>5. TasksWaitedFor(n)
  BY DEF ReceiverInvariant
<1>6. TasksWaitedFor(n)'
  BY <1>1, <1>3, <1>5 DEF TasksWaitedFor, Stopped
<1> QED
  BY <1>1, <1>3, <1>4, <1>6, OutsideTheQueue

(* A stop message of the receiver itself ends one thread.                  *)
LEMMA SendStopStep ==
    ASSUME ReceiverTypes, ReceiverInvariant, NEW n \in Nodes, NEW i \in Listeners, SendStop(n, i)
    PROVE  ReceiverTypes' /\ ReceiverInvariant'
<1>1. /\ dtor[n] = "stopping" /\ listen[n][i] = "block"
      /\ listen' = [listen EXCEPT ![n][i] = "leave"]
      /\ stops' = [stops EXCEPT ![n] = @ - 1]
      /\ dtor' = [dtor EXCEPT ![n] = IF stops[n] = 1 THEN "wait0" ELSE @]
      /\ UNCHANGED <<path, held, inbox, owned, arrived, handled>>
  BY DEF SendStop, private_message_handler, history
<1>2. TasksWaitedFor(n)
  BY DEF ReceiverInvariant
<1>3. stops[n] \in 1 .. 2
  BY <1>1, <1>2 DEF TasksWaitedFor, ReceiverTypes
<1>4. /\ dtor' \in [Nodes -> {"none", "stopping", "wait0", "wait1", "done"}]
      /\ stops' \in [Nodes -> 0 .. 2] /\ stops'[n] = stops[n] - 1
      /\ dtor'[n] = IF stops[n] = 1 THEN "wait0" ELSE "stopping"
      /\ \A m \in Nodes \ {n} : dtor'[m] = dtor[m] /\ stops'[m] = stops[m]
  BY <1>1, <1>3 DEF ReceiverTypes
<1>5. /\ listen'[n][i] = "leave" /\ listen' \in [Nodes -> [Listeners -> ThreadStates]]
      /\ \A j \in Listeners \ {i} : listen'[n][j] = listen[n][j]
      /\ \A m \in Nodes \ {n} : listen'[m] = listen[m]
  BY <1>1, ThreadGoes, States
<1>6. ReceiverTypes'
  BY <1>1, <1>4, <1>5 DEF ReceiverTypes
<1>7. TasksWaitedFor(n)'
  BY <1>1, <1>2, <1>3, <1>4, <1>5 DEF TasksWaitedFor, Stopped
<1> QED
  BY <1>1, <1>4, <1>5, <1>6, <1>7, OutsideTheQueue

(* The destructor goes on to the second task when the first has ended.     *)
LEMMA WaitForTask0Step ==
    ASSUME ReceiverTypes, ReceiverInvariant, NEW n \in Nodes, WaitForTask0(n)
    PROVE  ReceiverTypes' /\ ReceiverInvariant'
<1>1. /\ dtor[n] = "wait0" /\ listen[n][0] = "ended"
      /\ dtor' = [dtor EXCEPT ![n] = "wait1"]
      /\ UNCHANGED <<path, listen, held, inbox, owned, stops, arrived, handled>>
  BY DEF WaitForTask0, history
<1>2. /\ dtor' \in [Nodes -> {"none", "stopping", "wait0", "wait1", "done"}] /\ dtor'[n] = "wait1"
      /\ \A m \in Nodes \ {n} : dtor'[m] = dtor[m]
  BY <1>1 DEF ReceiverTypes
<1>3. ReceiverTypes'
  BY <1>1, <1>2 DEF ReceiverTypes
<1>4. TasksWaitedFor(n)
  BY DEF ReceiverInvariant
<1>5. TasksWaitedFor(n)'
  BY <1>1, <1>2, <1>4 DEF TasksWaitedFor, Stopped
<1> QED
  BY <1>1, <1>2, <1>3, <1>5, OutsideTheQueue

(* When both threads have ended the inbox is empty: nothing is lost.       *)
LEMMA CloseStep ==
    ASSUME ReceiverTypes, ReceiverInvariant, NEW n \in Nodes, Close(n)
    PROVE  ReceiverTypes' /\ ReceiverInvariant'
<1>1. /\ dtor[n] = "wait1" /\ listen[n][1] = "ended"
      /\ dtor' = [dtor EXCEPT ![n] = "done"]
      /\ path' = [path EXCEPT ![n] = "closed"]
      /\ inbox' = [inbox EXCEPT ![n] = <<>>]
      /\ UNCHANGED <<listen, held, owned, stops, arrived, handled>>
  BY DEF Close, Ended, history
<1>2. TasksWaitedFor(n) /\ QueueOwned(n) /\ listen[n][0] = "ended"
  BY <1>1 DEF ReceiverInvariant, TasksWaitedFor
<1>3. inbox[n] = <<>>
  BY <1>1, <1>2 DEF QueueOwned, Listeners
<1>4. inbox' = inbox
  BY <1>1, <1>3 DEF ReceiverTypes
<1>5. /\ dtor' \in [Nodes -> {"none", "stopping", "wait0", "wait1", "done"}] /\ dtor'[n] = "done"
      /\ path' \in [Nodes -> {"absent", "attached", "closed"}] /\ path'[n] = "closed"
      /\ \A m \in Nodes \ {n} : dtor'[m] = dtor[m] /\ path'[m] = path[m]
  BY <1>1 DEF ReceiverTypes
<1>6. ReceiverTypes'
  BY <1>1, <1>4, <1>5 DEF ReceiverTypes
<1>7. TasksWaitedFor(n)'
  BY <1>1, <1>2, <1>5 DEF TasksWaitedFor, Stopped
<1> QED
  BY <1>1, <1>4, <1>5, <1>6, <1>7, OutsideTheQueue

(* Whatever a stranger sends changes nothing but the thread it wakes.      *)
LEMMA StrangerStep ==
    ASSUME ReceiverTypes, ReceiverInvariant, NEW n \in Nodes, NEW i \in Listeners,
           \/ StrangerStops(n, i)
           \/ \E c \in Callers, s \in Senders : StrangerWrites(n, i, c, s)
    PROVE  /\ ReceiverTypes' /\ ReceiverInvariant' /\ arrived' = arrived
           /\ listen[n][i] = "block" /\ listen' = [listen EXCEPT ![n][i] = "claim"]
           /\ UNCHANGED <<path, held, inbox, owned, dtor, stops, handled>>
<1>1. CASE StrangerStops(n, i)
  <2>1. Stranger # n
    BY Bounds
  <2>2. /\ listen[n][i] = "block" /\ listen' = [listen EXCEPT ![n][i] = "claim"]
        /\ UNCHANGED <<path, held, inbox, owned, dtor, stops, arrived, handled>>
    BY <1>1, <2>1 DEF StrangerStops, private_message_handler, history
  <2> QED
    BY <2>2, DispatchStep
<1>2. ASSUME NEW c \in Callers, NEW s \in Senders, StrangerWrites(n, i, c, s)
      PROVE  /\ listen[n][i] = "block" /\ listen' = [listen EXCEPT ![n][i] = "claim"]
             /\ UNCHANGED <<path, held, inbox, owned, dtor, stops, arrived, handled>>
  <2>1. ~Genuine([caller |-> c, number |-> calls[c], sender |-> s], Stranger)
    BY Bounds DEF Genuine
  <2> QED
    BY <1>2, <2>1 DEF StrangerWrites, io_write
<1> QED
  BY <1>1, <1>2, DispatchStep

(* Every step of a receiver keeps its part of the invariant, and touches   *)
(* nothing of the sending process.                                         *)
LEMMA ReceiverStepKeeps ==
    ASSUME ReceiverTypes, ReceiverInvariant, NEW n \in Nodes, ReceiverStep(n)
    PROVE  ReceiverTypes' /\ ReceiverInvariant' /\ UNCHANGED <<sending, arrived>>
<1>1. CASE StartListening(n) \/ StartListeningFails(n)
  BY <1>1, StartListeningStep DEF StartListening, StartListeningFails, history
<1>2. CASE SelfStop(n) \/ Abort(n) \/ WaitForTask0(n) \/ Close(n)
  <2>1. UNCHANGED <<sending, arrived>>
    BY <1>2 DEF SelfStop, Abort, WaitForTask0, Close, history
  <2> QED
    BY <1>2, <2>1, SelfStopStep, AbortStep, WaitForTask0Step, CloseStep
<1>3. ASSUME NEW i \in Listeners, Enter(n, i) \/ Check(n, i) \/ Leave(n, i)
      PROVE  ReceiverTypes' /\ ReceiverInvariant' /\ UNCHANGED <<sending, arrived>>
  <2>1. UNCHANGED <<sending, arrived>>
    BY <1>3 DEF Enter, Check, Leave, history
  <2> QED
    BY <1>3, <2>1, EnterStep
<1>4. ASSUME NEW i \in Listeners,
             Claim(n, i) \/ Drain(n, i) \/ ExecuteMessageHandler(n, i) \/ SendStop(n, i)
      PROVE  ReceiverTypes' /\ ReceiverInvariant' /\ UNCHANGED <<sending, arrived>>
  <2>1. UNCHANGED <<sending, arrived>>
    BY <1>4 DEF Claim, Drain, ExecuteMessageHandler, SendStop, history
  <2> QED
    BY <1>4, <2>1, ClaimStep, DrainStep, ExecuteStep, SendStopStep
<1>5. ASSUME NEW i \in Listeners,
             \/ StrangerStops(n, i)
             \/ \E c \in Callers, s \in Senders : StrangerWrites(n, i, c, s)
      PROVE  ReceiverTypes' /\ ReceiverInvariant' /\ UNCHANGED <<sending, arrived>>
  <2>1. UNCHANGED sending
    BY <1>5 DEF StrangerStops, StrangerWrites
  <2> QED
    BY <1>5, <2>1, StrangerStep
<1> QED
  BY <1>1, <1>2, <1>3, <1>4, <1>5 DEF ReceiverStep

-----------------------------------------------------------------------------
(* The callers and their senders.                                          *)

(* The type of a caller.                                                   *)
CallerRecords == [at : CallerStates, node : Nodes \cup {NoSender}, uses : Senders \cup {NoSender}]

(* A caller is given a new state.                                          *)
LEMMA CallerIs ==
    ASSUME SenderTypes, NEW c \in Callers, NEW at \in CallerStates,
           NEW node \in Nodes \cup {NoSender}, NEW uses \in Senders \cup {NoSender},
           caller' = [caller EXCEPT ![c] = [at |-> at, node |-> node, uses |-> uses]]
    PROVE  /\ caller' \in [Callers -> CallerRecords]
           /\ caller'[c].at = at /\ caller'[c].node = node /\ caller'[c].uses = uses
           /\ \A d \in Callers \ {c} : caller'[d] = caller[d]
<1> DEFINE r == [at |-> at, node |-> node, uses |-> uses]
<1>1. caller \in [Callers -> CallerRecords]
  BY DEF SenderTypes, CallerRecords
<1>2. r \in CallerRecords /\ r.at = at /\ r.node = node /\ r.uses = uses
  BY DEF CallerRecords
<1>3. caller' = [caller EXCEPT ![c] = r]
  OBVIOUS
<1> HIDE DEF r
<1>4. caller' \in [Callers -> CallerRecords] /\ caller'[c] = r
      /\ \A d \in Callers \ {c} : caller'[d] = caller[d]
  BY <1>1, <1>2, <1>3
<1> QED
  BY <1>2, <1>4

(* A caller takes a sender.                                                *)
LEMMA CallerTakes ==
    ASSUME SenderTypes, NEW c \in Callers, NEW at \in CallerStates,
           NEW uses \in Senders \cup {NoSender},
           caller' = [caller EXCEPT ![c].at = at, ![c].uses = uses]
    PROVE  /\ caller' \in [Callers -> CallerRecords]
           /\ caller'[c].at = at /\ caller'[c].node = caller[c].node /\ caller'[c].uses = uses
           /\ \A d \in Callers \ {c} : caller'[d] = caller[d]
<1> DEFINE r == [at |-> at, node |-> caller[c].node, uses |-> uses]
<1>1. caller \in [Callers -> CallerRecords] /\ caller[c] \in CallerRecords
  BY DEF SenderTypes, CallerRecords
<1>2. r \in CallerRecords /\ r.at = at /\ r.node = caller[c].node /\ r.uses = uses
  BY <1>1 DEF CallerRecords
<1>3. ASSUME NEW o \in CallerRecords
      PROVE  [o EXCEPT !.at = at, !.uses = uses] = [at |-> at, node |-> o.node, uses |-> uses]
  <2>1. [o EXCEPT !.at = at] = [at |-> at, node |-> o.node, uses |-> o.uses]
    BY DEF CallerRecords
  <2>2. [o EXCEPT !.at = at, !.uses = uses] = [[o EXCEPT !.at = at] EXCEPT !.uses = uses]
    OBVIOUS
  <2>3. [[at |-> at, node |-> o.node, uses |-> o.uses] EXCEPT !.uses = uses]
           = [at |-> at, node |-> o.node, uses |-> uses]
    OBVIOUS
  <2> QED
    BY <2>1, <2>2, <2>3
<1>4. caller' = [caller EXCEPT ![c] = [caller[c] EXCEPT !.at = at, !.uses = uses]]
  BY <1>1
<1>5. caller' = [caller EXCEPT ![c] = r]
  BY <1>1, <1>3, <1>4
<1> HIDE DEF r
<1>6. caller' \in [Callers -> CallerRecords] /\ caller'[c] = r
      /\ \A d \in Callers \ {c} : caller'[d] = caller[d]
  BY <1>1, <1>2, <1>5
<1> QED
  BY <1>2, <1>6

(* A caller goes on with the sender it has.                                *)
LEMMA CallerGoes ==
    ASSUME SenderTypes, NEW c \in Callers, NEW at \in CallerStates,
           caller' = [caller EXCEPT ![c].at = at]
    PROVE  /\ caller' \in [Callers -> CallerRecords]
           /\ caller'[c].at = at /\ caller'[c].node = caller[c].node
           /\ caller'[c].uses = caller[c].uses
           /\ \A d \in Callers \ {c} : caller'[d] = caller[d]
<1> DEFINE r == [caller[c] EXCEPT !.at = at]
<1>1. caller \in [Callers -> CallerRecords] /\ caller[c] \in CallerRecords
  BY DEF SenderTypes, CallerRecords
<1>2. r \in CallerRecords /\ r.at = at /\ r.node = caller[c].node /\ r.uses = caller[c].uses
  BY <1>1 DEF CallerRecords
<1>3. caller' = [caller EXCEPT ![c] = r]
  BY <1>1
<1> HIDE DEF r
<1>4. caller' \in [Callers -> CallerRecords] /\ caller'[c] = r
      /\ \A d \in Callers \ {c} : caller'[d] = caller[d]
  BY <1>1, <1>2, <1>3
<1> QED
  BY <1>2, <1>4

(* The type of a sender.                                                   *)
Objects == [queue : Seq(Messages), stop : BOOLEAN, alive : BOOLEAN]

(* One field of one sender, or the whole of it, is written.                *)
LEMMA ObjectGoes ==
    ASSUME SenderTypes, NEW s \in Senders, NEW q \in Seq(Messages), NEW stop \in BOOLEAN,
           NEW alive \in BOOLEAN, Len(q) <= SenderQueueSize,
           \/ object' = [object EXCEPT ![s] = [queue |-> q, stop |-> stop, alive |-> alive]]
           \/ /\ q = object[s].queue /\ alive = object[s].alive
              /\ object' = [object EXCEPT ![s].stop = stop]
           \/ /\ q = object[s].queue /\ stop = object[s].stop
              /\ object' = [object EXCEPT ![s].alive = alive]
           \/ /\ stop = object[s].stop /\ alive = object[s].alive
              /\ object' = [object EXCEPT ![s].queue = q]
    PROVE  /\ object' \in [Senders -> Objects]
           /\ \A t \in Senders : Len(object'[t].queue) <= SenderQueueSize
           /\ object'[s].queue = q /\ object'[s].stop = stop /\ object'[s].alive = alive
           /\ \A t \in Senders \ {s} : object'[t] = object[t]
<1> DEFINE r == [queue |-> q, stop |-> stop, alive |-> alive]
<1>1. object \in [Senders -> Objects] /\ object[s] \in Objects
  BY DEF SenderTypes, Objects
<1>2. r \in Objects /\ r.queue = q /\ r.stop = stop /\ r.alive = alive
  BY DEF Objects
<1>3. object[s] = [queue |-> object[s].queue, stop |-> object[s].stop, alive |-> object[s].alive]
  BY <1>1 DEF Objects
<1>4. object' = [object EXCEPT ![s] = r]
  <2>1. q = object[s].queue /\ alive = object[s].alive => [object[s] EXCEPT !.stop = stop] = r
    BY <1>1 DEF Objects
  <2>2. q = object[s].queue /\ stop = object[s].stop => [object[s] EXCEPT !.alive = alive] = r
    BY <1>1 DEF Objects
  <2>3. stop = object[s].stop /\ alive = object[s].alive => [object[s] EXCEPT !.queue = q] = r
    BY <1>1 DEF Objects
  <2>4. CASE object' = [object EXCEPT ![s] = [queue |-> q, stop |-> stop, alive |-> alive]]
    BY <2>4
  <2>5. CASE /\ q = object[s].queue /\ alive = object[s].alive
             /\ object' = [object EXCEPT ![s].stop = stop]
    <3>1. object' = [object EXCEPT ![s] = [object[s] EXCEPT !.stop = stop]]
      BY <1>1, <2>5
    <3> QED
      BY <2>1, <2>5, <3>1
  <2>6. CASE /\ q = object[s].queue /\ stop = object[s].stop
             /\ object' = [object EXCEPT ![s].alive = alive]
    <3>1. object' = [object EXCEPT ![s] = [object[s] EXCEPT !.alive = alive]]
      BY <1>1, <2>6
    <3> QED
      BY <2>2, <2>6, <3>1
  <2>7. CASE /\ stop = object[s].stop /\ alive = object[s].alive
             /\ object' = [object EXCEPT ![s].queue = q]
    <3>1. object' = [object EXCEPT ![s] = [object[s] EXCEPT !.queue = q]]
      BY <1>1, <2>7
    <3> QED
      BY <2>3, <2>7, <3>1
  <2> QED
    BY <2>4, <2>5, <2>6, <2>7
<1> HIDE DEF r
<1>5. object' \in [Senders -> Objects] /\ object'[s] = r
      /\ \A t \in Senders \ {s} : object'[t] = object[t]
  BY <1>1, <1>2, <1>4
<1>6. ASSUME NEW t \in Senders PROVE Len(object'[t].queue) <= SenderQueueSize
  <2>1. CASE t = s
    BY <1>2, <1>5, <2>1
  <2>2. CASE t # s
    BY <1>5, <2>2 DEF SenderTypes
  <2> QED
    BY <2>1, <2>2
<1> QED
  BY <1>2, <1>5, <1>6

(* The types of a sender, by name.                                         *)
LEMMA ObjectTypes ==
    ASSUME SenderTypes, NEW s \in Senders
    PROVE  /\ object \in [Senders -> Objects] /\ object[s].queue \in Seq(Messages)
           /\ object[s].stop \in BOOLEAN /\ object[s].alive \in BOOLEAN
           /\ Len(object[s].queue) <= SenderQueueSize /\ Len(object[s].queue) \in Nat
           /\ DOMAIN object[s].queue = 1 .. Len(object[s].queue)
           /\ (object[s].queue # <<>> => Len(object[s].queue) > 0)
<1>1. object \in [Senders -> Objects] /\ object[s] \in Objects /\ Len(object[s].queue) <= SenderQueueSize
  BY DEF SenderTypes, Objects
<1>2. object[s].queue \in Seq(Messages) /\ object[s].stop \in BOOLEAN /\ object[s].alive \in BOOLEAN
  BY <1>1 DEF Objects
<1> QED
  BY <1>1, <1>2, LenProperties, EmptySeq

(* The tasks match the queues as long as neither changes.                  *)
LEMMA TasksKept ==
    ASSUME SenderTypes, TasksMatchQueues, pool' = pool, worker'.on = worker.on,
           worker'.at = "idle" <=> worker.at = "idle",
           worker' = worker \/ (worker'.at = "write" => worker'.tries < MaxRetries),
           \A s \in Senders : /\ object'[s].queue = object[s].queue
                              /\ object[s].alive => object'[s].alive
                              /\ object[s].stop => object'[s].stop
    PROVE  TasksMatchQueues'
<1>1. pool \in Seq(Senders) /\ (worker.on # NoSender => worker.on \in Senders)
      /\ \A k \in DOMAIN pool : pool[k] \in Senders
  <2>1. pool \in Seq(Senders)
    BY DEF SenderTypes
  <2>2. \A k \in DOMAIN pool : pool[k] \in Senders
    BY <2>1, LenProperties, ElementOfSeq
  <2> QED
    BY <2>1, <2>2 DEF SenderTypes
<1>2. NoMessageForgotten'
  BY <1>1 DEF TasksMatchQueues, NoMessageForgotten
<1> QED
  BY <1>1, <1>2 DEF TasksMatchQueues

(* The map holds senders that live as long as none is created or           *)
(* destroyed.                                                              *)
LEMMA LiveKept ==
    ASSUME SenderTypes, SendersLive, senders' = senders, created' = created,
           \A s \in Senders : /\ object'[s].alive = object[s].alive
                              /\ object[s].alive \/ object'[s] = object[s]
    PROVE  SendersLive'
<1>1. \A n \in Nodes : senders[n] # NoSender => senders[n] \in Senders
  BY DEF SenderTypes
<1> QED
  BY <1>1 DEF SendersLive, NewObject

(* The callers keep what they have as long as no sender dies.              *)
LEMMA CallersKept ==
    ASSUME SenderTypes, SenderInvariant, caller' = caller, senders' = senders, mutex' = mutex,
           \A s \in Senders : object'[s].alive = object[s].alive
    PROVE  \A c \in Callers : CallerHolds(c)'
<1> SUFFICES ASSUME NEW c \in Callers PROVE CallerHolds(c)'
  OBVIOUS
<1>1. CallerHolds(c)
  BY DEF SenderInvariant
<1> QED
  BY <1>1 DEF CallerHolds

(* The states of a caller.                                                 *)
LEMMA CallStates ==
    /\ "idle" \in CallerStates /\ "call" \in CallerStates /\ "connect" \in CallerStates
    /\ "send" \in CallerStates /\ "release" \in CallerStates /\ "destroy" \in CallerStates
BY DEF CallerStates

(* A call begins.                                                          *)
LEMMA StartCallStep ==
    ASSUME SenderTypes, SenderInvariant, NEW c \in Callers, NEW n \in Nodes, StartCall(c, n)
    PROVE  SenderTypes' /\ SenderInvariant'
<1>1. /\ caller[c].at = "idle"
      /\ caller' = [caller EXCEPT ![c] = [at |-> "call", node |-> n, uses |-> NoSender]]
      /\ calls' = [calls EXCEPT ![c] = @ + 1]
      /\ UNCHANGED <<senders, created, mutex, object, pool, worker>>
  BY DEF StartCall
<1>2. /\ caller' \in [Callers -> CallerRecords]
      /\ caller'[c].at = "call" /\ caller'[c].node = n /\ caller'[c].uses = NoSender
      /\ \A d \in Callers \ {c} : caller'[d] = caller[d]
  BY <1>1, CallerIs, CallStates
<1>3. calls' \in [Callers -> Nat]
  BY <1>1 DEF SenderTypes
<1>4. SenderTypes'
  BY <1>1, <1>2, <1>3 DEF SenderTypes, CallerRecords
<1>5. SendersLive' /\ TasksMatchQueues'
  BY <1>1, LiveKept, TasksKept DEF SenderInvariant
<1>6. ASSUME NEW d \in Callers PROVE CallerHolds(d)'
  <2>1. CallerHolds(d) /\ CallerHolds(c)
    BY DEF SenderInvariant
  <2> QED
    BY <1>1, <1>2, <2>1, SenderNames DEF CallerHolds
<1> QED
  BY <1>4, <1>5, <1>6 DEF SenderInvariant

(* A sender that is shared lives; who creates one holds the mutex.         *)
LEMMA GetMessagePassingSenderStep ==
    ASSUME SenderTypes, SenderInvariant, NEW c \in Callers, GetMessagePassingSender(c)
    PROVE  SenderTypes' /\ SenderInvariant'
<1> DEFINE n == caller[c].node
<1>1. /\ caller[c].at = "call" /\ mutex = NoCaller
      /\ UNCHANGED <<senders, created, object, calls, pool, worker>>
      /\ \/ /\ senders[n] # NoSender
            /\ caller' = [caller EXCEPT ![c].at = "send", ![c].uses = senders[n]] /\ UNCHANGED mutex
         \/ /\ senders[n] = NoSender
            /\ caller' = [caller EXCEPT ![c].at = "connect"] /\ mutex' = c
  BY DEF GetMessagePassingSender
<1>2. n \in Nodes /\ caller[c].uses = NoSender
  BY <1>1 DEF SenderInvariant, CallerHolds
<1>3. n \in Nodes \cup {NoSender} /\ senders[n] \in Senders \cup {NoSender}
      /\ caller[c].uses \in Senders \cup {NoSender}
  BY <1>2 DEF SenderTypes
<1>4. SendersLive' /\ TasksMatchQueues'
  BY <1>1, LiveKept, TasksKept DEF SenderInvariant
<1>5. CASE /\ senders[n] # NoSender
           /\ caller' = [caller EXCEPT ![c].at = "send", ![c].uses = senders[n]] /\ UNCHANGED mutex
  <2>1. /\ caller' \in [Callers -> CallerRecords]
        /\ caller'[c].at = "send" /\ caller'[c].node = n /\ caller'[c].uses = senders[n]
        /\ \A d \in Callers \ {c} : caller'[d] = caller[d]
    BY <1>3, <1>5, CallerTakes, CallStates
  <2>2. SenderTypes'
    BY <1>1, <1>5, <2>1 DEF SenderTypes, CallerRecords
  <2>3. object[senders[n]].alive /\ senders[n] \in Senders
    BY <1>2, <1>3, <1>5 DEF SenderInvariant, SendersLive
  <2>4. ASSUME NEW d \in Callers PROVE CallerHolds(d)'
    <3>1. CallerHolds(d)
      BY DEF SenderInvariant
    <3> QED
      BY <1>1, <1>2, <1>5, <2>1, <2>3, <3>1 DEF CallerHolds
  <2> QED
    BY <1>4, <2>2, <2>4 DEF SenderInvariant
<1>6. CASE /\ senders[n] = NoSender
           /\ caller' = [caller EXCEPT ![c].at = "connect"] /\ mutex' = c
  <2>1. /\ caller' \in [Callers -> CallerRecords]
        /\ caller'[c].at = "connect" /\ caller'[c].node = n /\ caller'[c].uses = NoSender
        /\ \A d \in Callers \ {c} : caller'[d] = caller[d]
    BY <1>2, <1>3, <1>6, CallerGoes, CallStates
  <2>2. SenderTypes'
    BY <1>1, <1>6, <2>1 DEF SenderTypes, CallerRecords
  <2>3. ASSUME NEW d \in Callers PROVE CallerHolds(d)'
    <3>1. CallerHolds(d)
      BY DEF SenderInvariant
    <3> QED
      BY <1>1, <1>2, <1>6, <2>1, <3>1, SenderNames, Bounds DEF CallerHolds
  <2> QED
    BY <1>4, <2>2, <2>3 DEF SenderInvariant
<1> QED
  BY <1>1, <1>5, <1>6

(* The new sender has a name that was never used.                          *)
LEMMA CreateNewSenderStep ==
    ASSUME SenderTypes, SenderInvariant, NEW c \in Callers, NEW i \in Listeners,
           CreateNewSender(c, i)
    PROVE  SenderTypes' /\ SenderInvariant'
<1> DEFINE n == caller[c].node
<1> DEFINE s == <<n, created[n] + 1>>
<1>1. /\ caller[c].at = "connect"
      /\ created' = [created EXCEPT ![n] = @ + 1]
      /\ object' = [object EXCEPT ![s].alive = TRUE]
      /\ senders' = [senders EXCEPT ![n] = s]
      /\ mutex' = NoCaller
      /\ caller' = [caller EXCEPT ![c].at = "send", ![c].uses = s]
      /\ UNCHANGED <<calls, pool, worker>>
  BY DEF CreateNewSender
<1>2. n \in Nodes /\ mutex = c /\ senders[n] = NoSender /\ SendersLive
  BY <1>1 DEF SenderInvariant, CallerHolds
<1>3. created[n] \in 0 .. MaxSenders /\ created[n] < MaxSenders
  BY <1>2 DEF SendersLive, SenderTypes
<1>4. created[n] + 1 \in 1 .. MaxSenders
  BY <1>3, Bounds
<1>5. s \in Senders /\ s[1] = n /\ s[2] = created[n] + 1
  BY <1>2, <1>4, SenderNames
<1> HIDE DEF n, s
<1>6. object[s] = NewObject
  BY <1>2, <1>3, <1>5, Bounds DEF SendersLive
<1>7. object[s].queue = <<>> /\ object[s].stop = FALSE /\ object[s].alive = FALSE
  BY <1>6 DEF NewObject
<1>8. /\ object' \in [Senders -> Objects]
      /\ \A t \in Senders : Len(object'[t].queue) <= SenderQueueSize
      /\ object'[s].queue = <<>> /\ object'[s].stop = FALSE /\ object'[s].alive = TRUE
      /\ \A t \in Senders \ {s} : object'[t] = object[t]
  BY <1>1, <1>5, <1>7, ObjectTypes, ObjectGoes
<1>9. /\ caller' \in [Callers -> CallerRecords]
      /\ caller'[c].at = "send" /\ caller'[c].node = n /\ caller'[c].uses = s
      /\ \A d \in Callers \ {c} : caller'[d] = caller[d]
  <2>1. n \in Nodes \cup {NoSender} /\ s \in Senders \cup {NoSender} /\ n = caller[c].node
    BY <1>2, <1>5 DEF n
  <2> QED
    BY <1>1, <2>1, CallerTakes, CallStates
<1>10. /\ created' \in [Nodes -> 0 .. MaxSenders] /\ created'[n] = created[n] + 1
       /\ senders' \in [Nodes -> Senders \cup {NoSender}] /\ senders'[n] = s
       /\ \A m \in Nodes \ {n} : created'[m] = created[m] /\ senders'[m] = senders[m]
  <2>1. created[n] + 1 \in 0 .. MaxSenders
    BY <1>4, Bounds
  <2> QED
    BY <1>1, <1>2, <1>5, <2>1 DEF SenderTypes, CallerRecords
<1>11. SenderTypes'
  BY <1>1, <1>8, <1>9, <1>10 DEF SenderTypes, Objects, CallerRecords
<1>12. SendersLive'
  <2>1. ASSUME NEW m \in Nodes
        PROVE  /\ senders'[m] # NoSender => senders'[m] = <<m, created'[m]>> /\ object'[senders'[m]].alive
               /\ senders'[m] = NoSender => created'[m] < MaxSenders
    <3>1. CASE m = n
      <4>1. s = <<n, created[n] + 1>> /\ s # NoSender
        BY <1>5, SenderNames DEF s, n
      <4> QED
        BY <1>8, <1>10, <3>1, <4>1
    <3>2. CASE m # n
      <4>1. senders'[m] = senders[m] /\ created'[m] = created[m]
        BY <1>10, <3>2
      <4>2. senders[m] # NoSender => senders[m] = <<m, created[m]>> /\ object[senders[m]].alive
            /\ senders[m] \in Senders
        BY <1>2 DEF SendersLive, SenderTypes
      <4>3. senders[m] = NoSender => created[m] < MaxSenders
        BY <1>2 DEF SendersLive
      <4>4. senders[m] # NoSender => object'[senders[m]].alive
        BY <1>7, <1>8, <4>2
      <4> QED
        BY <4>1, <4>2, <4>3, <4>4
    <3> QED
      BY <3>1, <3>2
  <2>2. ASSUME NEW t \in Senders
        PROVE  IF object'[t].alive THEN t[2] <= created'[t[1]] ELSE object'[t] = NewObject
    <3>1. CASE t = s
      BY <1>3, <1>5, <1>8, <1>10, <3>1
    <3>2. CASE t # s
      <4>1. object'[t] = object[t] /\ t[1] \in Nodes /\ t[2] \in Nat
        BY <1>8, <3>2, SenderNames, Bounds
      <4>2. created[t[1]] <= created'[t[1]] /\ created[t[1]] \in Nat /\ created'[t[1]] \in Nat
        <5>1. CASE t[1] = n
          BY <1>3, <1>10, <5>1, Bounds
        <5>2. CASE t[1] # n
          BY <1>10, <4>1, <5>2, Bounds DEF SenderTypes
        <5> QED
          BY <5>1, <5>2
      <4>3. IF object[t].alive THEN t[2] <= created[t[1]] ELSE object[t] = NewObject
        BY <1>2 DEF SendersLive
      <4> QED
        BY <4>1, <4>2, <4>3
    <3> QED
      BY <3>1, <3>2
  <2> QED
    BY <2>1, <2>2 DEF SendersLive
<1>13. ASSUME NEW d \in Callers PROVE CallerHolds(d)'
  <2>1. CallerHolds(d)
    BY DEF SenderInvariant
  <2>2. d # c => caller[d].at # "connect" /\ caller[d].uses # s
    BY <1>2, <1>5, <1>7, <2>1, SenderNames DEF CallerHolds, SenderTypes, CallerStates
  <2>3. caller[d].at = "destroy" => \A m \in Nodes : senders'[m] # caller[d].uses
    BY <1>1, <1>10, <2>1, <2>2 DEF CallerHolds
  <2>4. CASE d = c
    BY <1>2, <1>5, <1>8, <1>9, <2>4 DEF CallerHolds
  <2>5. CASE d # c
    <3>1. caller'[d] = caller[d] /\ caller[d].at # "connect"
      BY <1>9, <2>2, <2>5
    <3>2. caller[d].at = "destroy" => \A e \in Callers \ {d} : caller'[e].uses # caller[d].uses
      BY <1>9, <2>1, <2>2, <2>5 DEF CallerHolds
    <3>3. caller[d].at \in {"send", "release", "destroy"} =>
             caller[d].uses \in Senders /\ object'[caller[d].uses].alive
      BY <1>8, <2>1 DEF CallerHolds
    <3> QED
      BY <2>1, <2>3, <3>1, <3>2, <3>3 DEF CallerHolds
  <2> QED
    BY <2>4, <2>5
<1>14. TasksMatchQueues'
  <2>1. \A t \in Senders : /\ object'[t].queue = object[t].queue
                           /\ object[t].alive => object'[t].alive
                           /\ object[t].stop => object'[t].stop
    BY <1>7, <1>8
  <2> QED
    BY <1>1, <2>1, TasksKept DEF SenderInvariant
<1> QED
  BY <1>11, <1>12, <1>13, <1>14 DEF SenderInvariant

(* The types of the tasks, by name.                                        *)
LEMMA Tasks ==
    ASSUME SenderTypes
    PROVE  /\ pool \in Seq(Senders) /\ DOMAIN pool = 1 .. Len(pool) /\ Len(pool) \in Nat
           /\ \A k \in DOMAIN pool : pool[k] \in Senders
           /\ worker.on # NoSender => worker.on \in Senders
<1>1. pool \in Seq(Senders)
  BY DEF SenderTypes
<1>2. DOMAIN pool = 1 .. Len(pool) /\ Len(pool) \in Nat
  BY <1>1, LenProperties
<1>3. \A k \in DOMAIN pool : pool[k] \in Senders
  BY <1>1, <1>2, ElementOfSeq
<1> QED
  BY <1>1, <1>2, <1>3 DEF SenderTypes

(* A caller that sends or releases uses a sender that lives.               *)
LEMMA InUse ==
    ASSUME SenderTypes, SenderInvariant, NEW c \in Callers,
           caller[c].at \in {"send", "release", "destroy"}
    PROVE  caller[c].uses \in Senders /\ object[caller[c].uses].alive
BY DEF SenderInvariant, CallerHolds

(* Only the first message of an empty queue submits a task.                *)
LEMMA SendInternalStep ==
    ASSUME SenderTypes, SenderInvariant, NEW c \in Callers, SendInternal(c)
    PROVE  SenderTypes' /\ SenderInvariant'
<1> DEFINE s == caller[c].uses
<1> DEFINE m == [caller |-> c, number |-> calls[c], sender |-> s]
<1>1. /\ caller[c].at = "send" /\ caller' = [caller EXCEPT ![c].at = "release"]
      /\ UNCHANGED <<senders, created, mutex, calls, worker>>
      /\ \/ UNCHANGED <<object, pool>>
         \/ /\ Len(object[s].queue) < SenderQueueSize
            /\ object' = [object EXCEPT ![s].queue = Append(@, m)]
            /\ pool' = IF Submits(s) THEN Append(pool, s) ELSE pool
  BY DEF SendInternal
<1>2. s \in Senders /\ object[s].alive
  BY <1>1, InUse
<1>3. /\ caller' \in [Callers -> CallerRecords]
      /\ caller'[c].at = "release" /\ caller'[c].node = caller[c].node /\ caller'[c].uses = s
      /\ \A d \in Callers \ {c} : caller'[d] = caller[d]
  BY <1>1, CallerGoes, CallStates
<1>4. m \in Messages
  BY <1>2 DEF Messages, SenderTypes
<1> HIDE DEF m
<1>5. ASSUME \A t \in Senders : object'[t].alive = object[t].alive
      PROVE  \A d \in Callers : CallerHolds(d)'
  <2> SUFFICES ASSUME NEW d \in Callers PROVE CallerHolds(d)'
    OBVIOUS
  <2>1. CallerHolds(d)
    BY DEF SenderInvariant
  <2> QED
    BY <1>1, <1>3, <1>5, <2>1 DEF CallerHolds
<1>6. CASE UNCHANGED <<object, pool>>
  <2>1. SenderTypes'
    BY <1>1, <1>3, <1>6 DEF SenderTypes, CallerRecords
  <2>2. SendersLive' /\ TasksMatchQueues'
    BY <1>1, <1>6, LiveKept, TasksKept DEF SenderInvariant
  <2> QED
    BY <1>5, <1>6, <2>1, <2>2 DEF SenderInvariant
<1>7. CASE /\ Len(object[s].queue) < SenderQueueSize
           /\ object' = [object EXCEPT ![s].queue = Append(@, m)]
           /\ pool' = IF Submits(s) THEN Append(pool, s) ELSE pool
  <2> DEFINE q == Append(object[s].queue, m)
  <2>1. q \in Seq(Messages) /\ q # <<>> /\ Len(q) = Len(object[s].queue) + 1
    BY <1>2, <1>4, ObjectTypes, AppendProperties
  <2>2. Len(q) <= SenderQueueSize
    BY <1>2, <1>7, <2>1, ObjectTypes, Bounds
  <2>3. object' = [object EXCEPT ![s].queue = q]
    BY <1>7
  <2> HIDE DEF q
  <2>4. /\ object' \in [Senders -> Objects]
        /\ \A t \in Senders : Len(object'[t].queue) <= SenderQueueSize
        /\ object'[s].queue = q /\ object'[s].stop = object[s].stop
        /\ object'[s].alive = object[s].alive
        /\ \A t \in Senders \ {s} : object'[t] = object[t]
    BY <1>2, <2>1, <2>2, <2>3, ObjectTypes, ObjectGoes
  <2>5. pool' \in Seq(Senders)
    BY <1>2, <1>7, Tasks, AppendProperties
  <2>6. SenderTypes'
    BY <1>1, <1>3, <2>4, <2>5 DEF SenderTypes, CallerRecords, Objects
  <2>7. \A t \in Senders : object'[t].alive = object[t].alive /\ object'[t].stop = object[t].stop
    BY <2>4
  <2>8. SendersLive'
    BY <1>1, <1>2, <2>4, <2>7, LiveKept DEF SenderInvariant
  <2>9. TasksMatchQueues
    BY DEF SenderInvariant
  <2>10. \A t \in Senders : object[t].queue # <<>> => object'[t].queue # <<>>
    BY <2>1, <2>4
  <2>11. CASE ~Submits(s)
    <3>1. pool' = pool
      BY <1>7, <2>11
    <3>2. NoMessageForgotten'
      BY <1>1, <2>4, <2>7, <2>9, <2>11, <3>1 DEF TasksMatchQueues, NoMessageForgotten, Submits
    <3>3. TasksMatchQueues'
      BY <1>1, <2>7, <2>9, <2>10, <3>1, <3>2, Tasks DEF TasksMatchQueues
    <3> QED
      BY <1>5, <2>6, <2>7, <2>8, <3>3 DEF SenderInvariant
  <2>12. CASE Submits(s)
    <3>1. /\ pool' = Append(pool, s) /\ DOMAIN pool' = 1 .. Len(pool) + 1
          /\ pool'[Len(pool) + 1] = s /\ \A k \in DOMAIN pool : pool'[k] = pool[k]
      <4>1. pool' = Append(pool, s)
        BY <1>7, <2>12
      <4>2. /\ Len(pool') = Len(pool) + 1 /\ pool'[Len(pool) + 1] = s
            /\ \A k \in 1 .. Len(pool) : pool'[k] = pool[k]
        BY <1>2, <4>1, Tasks, AppendProperties
      <4>3. DOMAIN pool' = 1 .. Len(pool')
        BY <2>5, LenProperties
      <4> QED
        BY <4>1, <4>2, <4>3, Tasks
    <3>2. object[s].queue = <<>>
      BY <2>12 DEF Submits
    <3>3. worker.on # s /\ \A k \in DOMAIN pool : pool[k] # s
      BY <1>2, <2>9, <3>2, SenderNames DEF TasksMatchQueues
    <3>4. \A k \in DOMAIN pool' : k = Len(pool) + 1 \/ (k \in DOMAIN pool /\ pool'[k] = pool[k])
      BY <3>1, Tasks
    <3>5. NoMessageForgotten'
      <4> SUFFICES ASSUME NEW t \in Senders, object'[t].queue # <<>>, ~object'[t].stop
                   PROVE  worker.on = t \/ \E k \in DOMAIN pool' : pool'[k] = t
        BY <1>1 DEF NoMessageForgotten
      <4>1. CASE t = s
        BY <3>1, <4>1, Tasks
      <4>2. CASE t # s
        <5>1. worker.on = t \/ \E k \in DOMAIN pool : pool[k] = t
          BY <2>4, <2>9, <4>2 DEF TasksMatchQueues, NoMessageForgotten
        <5> QED
          BY <3>1, <5>1, Tasks
      <4> QED
        BY <4>1, <4>2
    <3>6. ASSUME NEW k \in DOMAIN pool'
          PROVE  /\ object'[pool'[k]].alive /\ object'[pool'[k]].queue # <<>>
                 /\ pool'[k] # worker.on
                 /\ \A j \in DOMAIN pool' : pool'[j] = pool'[k] => j = k
      <4>1. CASE k = Len(pool) + 1
        <5>1. pool'[k] = s
          BY <3>1, <4>1
        <5>2. \A j \in DOMAIN pool' : pool'[j] = s => j = k
          BY <3>3, <3>4, <4>1
        <5> QED
          BY <1>2, <2>1, <2>4, <3>3, <5>1, <5>2
      <4>2. CASE k \in DOMAIN pool /\ pool'[k] = pool[k]
        <5>1. /\ object[pool[k]].alive /\ object[pool[k]].queue # <<>> /\ pool[k] \in Senders
              /\ pool[k] # worker.on /\ pool[k] # s
              /\ \A j \in DOMAIN pool : pool[j] = pool[k] => j = k
          BY <2>9, <3>3, <4>2, Tasks DEF TasksMatchQueues
        <5>2. \A j \in DOMAIN pool' : pool'[j] = pool[k] => j = k
          BY <3>1, <3>4, <5>1
        <5> QED
          BY <2>7, <2>10, <4>2, <5>1, <5>2
      <4> QED
        BY <3>4, <4>1, <4>2
    <3>7. TasksMatchQueues'
      <4>1. worker'.on = worker.on /\ worker' = worker
        BY <1>1
      <4>2. worker.on # NoSender => object'[worker.on].alive /\ object'[worker.on].queue # <<>>
        BY <2>7, <2>9, <2>10, Tasks DEF TasksMatchQueues
      <4> QED
        BY <2>9, <3>5, <3>6, <4>1, <4>2 DEF TasksMatchQueues
    <3> QED
      BY <1>5, <2>6, <2>7, <2>8, <3>7 DEF SenderInvariant
  <2> QED
    BY <2>11, <2>12
<1> QED
  BY <1>1, <1>6, <1>7

(* A caller that drops its sender frees nobody else's.                     *)
LEMMA CallerDrops ==
    ASSUME SenderTypes, SenderInvariant, NEW c \in Callers,
           caller[c].at \in {"release", "destroy"},
           caller' = [caller EXCEPT ![c] = [at |-> "idle", node |-> NoSender, uses |-> NoSender]],
           senders' = senders, mutex' = mutex \/ (mutex = c /\ mutex' = NoCaller),
           \A s \in Senders : s # caller[c].uses => object'[s].alive = object[s].alive,
           \A d \in Callers \ {c} : caller[d].uses = caller[c].uses =>
               object'[caller[c].uses].alive = object[caller[c].uses].alive
    PROVE  caller' \in [Callers -> CallerRecords] /\ \A d \in Callers : CallerHolds(d)'
<1>1. /\ caller' \in [Callers -> CallerRecords]
      /\ caller'[c].at = "idle" /\ caller'[c].node = NoSender /\ caller'[c].uses = NoSender
      /\ \A d \in Callers \ {c} : caller'[d] = caller[d]
  BY CallerIs, CallStates
<1>2. ASSUME NEW d \in Callers PROVE CallerHolds(d)'
  <2>1. CallerHolds(d) /\ CallerHolds(c)
    BY DEF SenderInvariant
  <2>2. CASE d = c
    BY <1>1, <2>2 DEF CallerHolds
  <2>3. CASE d # c
    <3>1. caller'[d] = caller[d]
      BY <1>1, <2>3
    <3>2. caller[d].at = "connect" => mutex' = d
      BY <2>1, <2>3, Bounds DEF CallerHolds
    <3>3. caller[d].at \in {"send", "release", "destroy"} =>
             caller[d].uses \in Senders /\ object'[caller[d].uses].alive
      BY <2>1, <2>3 DEF CallerHolds
    <3>4. caller[d].at = "destroy" => \A e \in Callers \ {d} : caller'[e].uses # caller[d].uses
      BY <1>1, <2>1, <3>3, SenderNames DEF CallerHolds
    <3> QED
      BY <2>1, <3>1, <3>2, <3>3, <3>4 DEF CallerHolds
  <2> QED
    BY <2>2, <2>3
<1> QED
  BY <1>1, <1>2

(* Who destroys a sender is the last to use it.                            *)
LEMMA CallerDestroys ==
    ASSUME SenderTypes, SenderInvariant, NEW c \in Callers, NEW s \in Senders,
           object[s].alive, BeginDestruction(c, s), caller[c].at \in {"idle", "release"},
           \A n \in Nodes : senders'[n] = senders[n] \/ senders'[n] = NoSender,
           \A n \in Nodes : senders'[n] # s,
           \A d \in Callers \ {c} : caller[d].uses # s,
           mutex' = mutex \/ (mutex = NoCaller /\ mutex' = c)
    PROVE  /\ caller' \in [Callers -> CallerRecords] /\ \A d \in Callers : CallerHolds(d)'
           /\ object' \in [Senders -> Objects]
           /\ \A t \in Senders : Len(object'[t].queue) <= SenderQueueSize
           /\ \A t \in Senders : /\ object'[t].alive = object[t].alive
                                 /\ object'[t].queue = object[t].queue
                                 /\ object[t].stop => object'[t].stop
                                 /\ object[t].alive \/ object'[t] = object[t]
<1>1. s[1] \in Nodes
  BY SenderNames
<1>2. /\ caller' \in [Callers -> CallerRecords]
      /\ caller'[c].at = "destroy" /\ caller'[c].node = s[1] /\ caller'[c].uses = s
      /\ \A d \in Callers \ {c} : caller'[d] = caller[d]
  BY <1>1, CallerIs, CallStates DEF BeginDestruction
<1>3. /\ object' \in [Senders -> Objects]
      /\ \A t \in Senders : Len(object'[t].queue) <= SenderQueueSize
      /\ object'[s].queue = object[s].queue /\ object'[s].stop = TRUE
      /\ object'[s].alive = object[s].alive
      /\ \A t \in Senders \ {s} : object'[t] = object[t]
  <2>1. object' = [object EXCEPT ![s].stop = TRUE]
    BY DEF BeginDestruction
  <2>2. /\ object[s].queue \in Seq(Messages) /\ object[s].alive \in BOOLEAN
        /\ Len(object[s].queue) <= SenderQueueSize
    BY ObjectTypes
  <2> QED
    BY <2>1, <2>2, ObjectGoes
<1>4. ASSUME NEW d \in Callers PROVE CallerHolds(d)'
  <2>1. CallerHolds(d)
    BY DEF SenderInvariant
  <2>2. CASE d = c
    BY <1>1, <1>2, <1>3, <2>2 DEF CallerHolds
  <2>3. CASE d # c
    <3>1. caller'[d] = caller[d] /\ caller[d].uses # s
      BY <1>2, <2>3
    <3>2. caller[d].at = "connect" => mutex' = d /\ senders'[caller[d].node] = NoSender
      BY <2>1, Bounds DEF CallerHolds
    <3>3. caller[d].at \in {"send", "release", "destroy"} =>
             caller[d].uses \in Senders /\ object'[caller[d].uses].alive
      BY <1>3, <2>1, <3>1 DEF CallerHolds
    <3>4. caller[d].at = "destroy" =>
             /\ \A n \in Nodes : senders'[n] # caller[d].uses
             /\ \A e \in Callers \ {d} : caller'[e].uses # caller[d].uses
      BY <1>2, <2>1, <3>1, <3>3, SenderNames DEF CallerHolds
    <3> QED
      BY <2>1, <3>1, <3>2, <3>3, <3>4 DEF CallerHolds
  <2> QED
    BY <2>2, <2>3
<1> QED
  BY <1>2, <1>3, <1>4

(* The last of those that share a sender destroys it.                      *)
LEMMA ReleaseStep ==
    ASSUME SenderTypes, SenderInvariant, NEW c \in Callers, Release(c)
    PROVE  SenderTypes' /\ SenderInvariant'
<1> DEFINE s == caller[c].uses
<1>1. /\ caller[c].at = "release"
      /\ UNCHANGED <<senders, created, mutex, calls, pool, worker>>
      /\ \/ /\ caller' = [caller EXCEPT ![c] = [at |-> "idle", node |-> NoSender, uses |-> NoSender]]
            /\ UNCHANGED object
         \/ ~Shared(s, Callers \ {c}) /\ BeginDestruction(c, s)
  BY DEF Release
<1>2. s \in Senders /\ object[s].alive
  BY <1>1, InUse
<1>3. CASE /\ caller' = [caller EXCEPT ![c] = [at |-> "idle", node |-> NoSender, uses |-> NoSender]]
           /\ UNCHANGED object
  <2>1. caller' \in [Callers -> CallerRecords] /\ \A d \in Callers : CallerHolds(d)'
    BY <1>1, <1>3, CallerDrops
  <2>2. SenderTypes'
    BY <1>1, <1>3, <2>1 DEF SenderTypes, CallerRecords
  <2>3. SendersLive' /\ TasksMatchQueues'
    BY <1>1, <1>3, LiveKept, TasksKept DEF SenderInvariant
  <2> QED
    BY <2>1, <2>2, <2>3 DEF SenderInvariant
<1>4. CASE ~Shared(s, Callers \ {c}) /\ BeginDestruction(c, s)
  <2>1. (\A n \in Nodes : senders'[n] # s) /\ \A d \in Callers \ {c} : caller[d].uses # s
    BY <1>4 DEF Shared
  <2>2. /\ caller' \in [Callers -> CallerRecords] /\ \A d \in Callers : CallerHolds(d)'
        /\ object' \in [Senders -> Objects]
        /\ \A t \in Senders : Len(object'[t].queue) <= SenderQueueSize
        /\ \A t \in Senders : /\ object'[t].alive = object[t].alive
                              /\ object'[t].queue = object[t].queue
                              /\ object[t].stop => object'[t].stop
                              /\ object[t].alive \/ object'[t] = object[t]
    BY <1>1, <1>2, <1>4, <2>1, CallerDestroys
  <2>3. SenderTypes'
    BY <1>1, <2>2 DEF SenderTypes, CallerRecords, Objects
  <2>4. SendersLive' /\ TasksMatchQueues'
    BY <1>1, <2>2, LiveKept, TasksKept DEF SenderInvariant
  <2> QED
    BY <2>2, <2>3, <2>4 DEF SenderInvariant
<1> QED
  BY <1>1, <1>3, <1>4

(* Removing a sender from the map leaves it to the callers that use it.    *)
LEMMA RemoveMessagePassingSenderStep ==
    ASSUME SenderTypes, SenderInvariant, NEW c \in Callers, NEW n \in Nodes,
           RemoveMessagePassingSender(c, n)
    PROVE  SenderTypes' /\ SenderInvariant'
<1> DEFINE s == senders[n]
<1>1. /\ caller[c].at = "idle" /\ mutex = NoCaller /\ s # NoSender /\ created[n] < MaxSenders
      /\ senders' = [senders EXCEPT ![n] = NoSender]
      /\ UNCHANGED <<created, calls, pool, worker>>
      /\ \/ UNCHANGED <<mutex, caller, object>>
         \/ ~Shared(s, Callers) /\ mutex' = c /\ BeginDestruction(c, s)
  BY DEF RemoveMessagePassingSender
<1>2. /\ senders' \in [Nodes -> Senders \cup {NoSender}] /\ senders'[n] = NoSender
      /\ \A m \in Nodes \ {n} : senders'[m] = senders[m]
  BY <1>1 DEF SenderTypes
<1>3. s \in Senders /\ object[s].alive /\ s = <<n, created[n]>>
  BY <1>1 DEF SenderInvariant, SendersLive, SenderTypes
<1>4. \A m \in Nodes \ {n} : senders[m] # s
  BY <1>1, <1>3, SenderNames DEF SenderInvariant, SendersLive
<1>5. ASSUME \A t \in Senders : /\ object'[t].alive = object[t].alive
                                /\ object[t].alive \/ object'[t] = object[t]
      PROVE  SendersLive'
  <2>1. SendersLive /\ \A m \in Nodes : senders[m] # NoSender => senders[m] \in Senders
    BY DEF SenderInvariant, SenderTypes
  <2> QED
    BY <1>1, <1>2, <1>5, <2>1 DEF SendersLive, NewObject
<1>6. CASE UNCHANGED <<mutex, caller, object>>
  <2>1. SenderTypes'
    BY <1>1, <1>2, <1>6 DEF SenderTypes
  <2>2. ASSUME NEW d \in Callers PROVE CallerHolds(d)'
    <3>1. CallerHolds(d) /\ caller'[d] = caller[d]
      BY <1>6 DEF SenderInvariant
    <3>2. caller[d].at = "destroy" => \A m \in Nodes : senders'[m] # caller[d].uses
      BY <1>2, <3>1, SenderNames DEF CallerHolds
    <3>3. caller[d].at = "connect" => senders'[caller[d].node] = NoSender
      BY <1>2, <3>1 DEF CallerHolds
    <3> QED
      BY <1>6, <3>1, <3>2, <3>3 DEF CallerHolds
  <2>3. TasksMatchQueues'
    BY <1>1, <1>6, TasksKept DEF SenderInvariant
  <2> QED
    BY <1>5, <1>6, <2>1, <2>2, <2>3 DEF SenderInvariant
<1>7. CASE ~Shared(s, Callers) /\ mutex' = c /\ BeginDestruction(c, s)
  <2>1. (\A m \in Nodes : senders'[m] # s) /\ \A d \in Callers \ {c} : caller[d].uses # s
    BY <1>7 DEF Shared
  <2>2. /\ caller' \in [Callers -> CallerRecords] /\ \A d \in Callers : CallerHolds(d)'
        /\ object' \in [Senders -> Objects]
        /\ \A t \in Senders : Len(object'[t].queue) <= SenderQueueSize
        /\ \A t \in Senders : /\ object'[t].alive = object[t].alive
                              /\ object'[t].queue = object[t].queue
                              /\ object[t].stop => object'[t].stop
                              /\ object[t].alive \/ object'[t] = object[t]
    <3>1. \A m \in Nodes : senders'[m] = senders[m] \/ senders'[m] = NoSender
      BY <1>2
    <3> QED
      BY <1>1, <1>3, <1>7, <2>1, <3>1, CallerDestroys
  <2>3. SenderTypes'
    BY <1>1, <1>2, <1>7, <2>2 DEF SenderTypes, CallerRecords, Objects
  <2>4. SendersLive' /\ TasksMatchQueues'
    BY <1>1, <1>5, <2>2, TasksKept DEF SenderInvariant
  <2> QED
    BY <2>2, <2>3, <2>4 DEF SenderInvariant
<1> QED
  BY <1>1, <1>6, <1>7

(* A sender dies when its task has ended.                                  *)
LEMMA EndDestructionStep ==
    ASSUME SenderTypes, SenderInvariant, NEW c \in Callers, EndDestruction(c)
    PROVE  SenderTypes' /\ SenderInvariant'
<1> DEFINE s == caller[c].uses
<1>1. /\ caller[c].at = "destroy" /\ TaskEnded(s)
      /\ object' = [object EXCEPT ![s] = [queue |-> <<>>, stop |-> FALSE, alive |-> FALSE]]
      /\ mutex' = mutex \/ (mutex = c /\ mutex' = NoCaller)
      /\ mutex' = IF mutex = c THEN NoCaller ELSE mutex
      /\ caller' = [caller EXCEPT ![c] = [at |-> "idle", node |-> NoSender, uses |-> NoSender]]
      /\ UNCHANGED <<senders, created, calls, pool, worker>>
  BY DEF EndDestruction
<1>2. s \in Senders /\ CallerHolds(c)
  BY <1>1, InUse DEF SenderInvariant
<1>3. (\A n \in Nodes : senders[n] # s) /\ \A d \in Callers \ {c} : caller[d].uses # s
  BY <1>1, <1>2 DEF CallerHolds
<1>4. /\ object' \in [Senders -> Objects]
      /\ \A t \in Senders : Len(object'[t].queue) <= SenderQueueSize
      /\ object'[s] = NewObject
      /\ \A t \in Senders \ {s} : object'[t] = object[t]
  <2>1. <<>> \in Seq(Messages) /\ Len(<<>>) = 0
    BY EmptySeq
  <2>2. 0 <= SenderQueueSize
    BY Bounds
  <2>3. object'[s] = NewObject
    BY <1>1, <1>2 DEF NewObject, SenderTypes
  <2> QED
    BY <1>1, <1>2, <2>1, <2>2, <2>3, ObjectGoes
<1>5. caller' \in [Callers -> CallerRecords] /\ \A d \in Callers : CallerHolds(d)'
  BY <1>1, <1>2, <1>3, <1>4, CallerDrops
<1>6. SenderTypes'
  BY <1>1, <1>4, <1>5, Bounds DEF SenderTypes, CallerRecords, Objects
<1>7. SendersLive'
  <2>1. SendersLive /\ \A m \in Nodes : senders[m] # NoSender => senders[m] \in Senders
    BY DEF SenderInvariant, SenderTypes
  <2>2. NewObject.alive = FALSE
    BY DEF NewObject
  <2>3. \A t \in Senders : IF object'[t].alive THEN t[2] <= created[t[1]] ELSE object'[t] = NewObject
    BY <1>4, <2>1, <2>2 DEF SendersLive
  <2>4. \A n \in Nodes : senders[n] # NoSender => object'[senders[n]] = object[senders[n]]
    BY <1>3, <1>4, <2>1
  <2> QED
    BY <1>1, <2>1, <2>3, <2>4 DEF SendersLive
<1>8. TasksMatchQueues'
  <2>1. TasksMatchQueues
    BY DEF SenderInvariant
  <2>2. worker.on # s /\ \A k \in DOMAIN pool : pool[k] # s
    BY <1>1 DEF TaskEnded
  <2>3. NoMessageForgotten'
    <3> SUFFICES ASSUME NEW t \in Senders, object'[t].queue # <<>>, ~object'[t].stop
                 PROVE  worker.on = t \/ \E k \in DOMAIN pool : pool[k] = t
      BY <1>1 DEF NoMessageForgotten
    <3>1. t # s
      BY <1>4 DEF NewObject
    <3> QED
      BY <1>4, <2>1, <3>1 DEF TasksMatchQueues, NoMessageForgotten
  <2>4. worker.on # NoSender => object'[worker.on] = object[worker.on]
    BY <1>4, <2>2, Tasks
  <2>5. \A k \in DOMAIN pool : object'[pool[k]] = object[pool[k]]
    BY <1>4, <2>2, Tasks
  <2> QED
    BY <1>1, <2>1, <2>3, <2>4, <2>5 DEF TasksMatchQueues
<1> QED
  BY <1>5, <1>6, <1>7, <1>8 DEF SenderInvariant

(* Every step of a caller keeps the sending process's part.                *)
LEMMA CallerStepKeeps ==
    ASSUME SenderTypes, SenderInvariant, NEW c \in Callers, CallerStep(c)
    PROVE  SenderTypes' /\ SenderInvariant'
<1>1. CASE GetMessagePassingSender(c) \/ SendInternal(c) \/ Release(c) \/ EndDestruction(c)
  BY <1>1, GetMessagePassingSenderStep, SendInternalStep, ReleaseStep, EndDestructionStep
<1>2. ASSUME NEW i \in Listeners, CreateNewSender(c, i)
      PROVE  SenderTypes' /\ SenderInvariant'
  BY <1>2, CreateNewSenderStep
<1>3. ASSUME NEW n \in Nodes, StartCall(c, n) \/ RemoveMessagePassingSender(c, n)
      PROVE  SenderTypes' /\ SenderInvariant'
  BY <1>3, StartCallStep, RemoveMessagePassingSenderStep
<1> QED
  BY <1>1, <1>2, <1>3 DEF CallerStep

(* The worker goes on within one task.                                     *)
LEMMA WorkerStays ==
    ASSUME SenderTypes, SenderInvariant, worker.at # "idle", worker'.at # "idle",
           worker' \in [at : {"idle", "loop", "write", "pop"}, on : Senders \cup {NoSender},
                        tries : 0 .. MaxRetries],
           worker'.on = worker.on, worker'.at = "write" => worker'.tries < MaxRetries,
           UNCHANGED <<senders, created, mutex, object, caller, calls, pool>>
    PROVE  SenderTypes' /\ SenderInvariant'
<1>1. SenderTypes'
  BY DEF SenderTypes
<1>2. SendersLive' /\ TasksMatchQueues' /\ \A c \in Callers : CallerHolds(c)'
  BY LiveKept, TasksKept, CallersKept DEF SenderInvariant
<1> QED
  BY <1>1, <1>2 DEF SenderInvariant

(* The type of the worker.                                                 *)
WorkerRecords == [at : {"idle", "loop", "write", "pop"}, on : Senders \cup {NoSender},
                  tries : 0 .. MaxRetries]

(* The worker changes where it is, and how often it tried.                 *)
LEMMA WorkerIs ==
    ASSUME NEW w \in WorkerRecords, NEW at \in {"idle", "loop", "write", "pop"},
           NEW tries \in 0 .. MaxRetries
    PROVE  /\ [w EXCEPT !.at = at, !.tries = tries] \in WorkerRecords
           /\ [w EXCEPT !.at = at, !.tries = tries].at = at
           /\ [w EXCEPT !.at = at, !.tries = tries].on = w.on
           /\ [w EXCEPT !.at = at, !.tries = tries].tries = tries
           /\ [w EXCEPT !.at = at] \in WorkerRecords
           /\ [w EXCEPT !.at = at].at = at /\ [w EXCEPT !.at = at].on = w.on
           /\ [w EXCEPT !.at = at].tries = w.tries
BY DEF WorkerRecords

(* A failed attempt is counted up to the number of retries.                *)
LEMMA RetryStays ==
    ASSUME SenderTypes, SenderInvariant, worker.at = "write"
    PROVE  /\ Retry \in WorkerRecords
           /\ Retry.at \in {"write", "pop"} /\ Retry.on = worker.on
           /\ Retry.at = "write" => Retry.tries < MaxRetries
<1>1. worker \in WorkerRecords /\ worker.tries \in 0 .. MaxRetries
  BY DEF SenderTypes, WorkerRecords
<1>2. worker.tries < MaxRetries
  BY DEF SenderInvariant, TasksMatchQueues
<1>3. worker.tries + 1 \in 0 .. MaxRetries
  BY <1>1, <1>2, Bounds
<1> DEFINE at == IF worker.tries + 1 < MaxRetries THEN "write" ELSE "pop"
<1> DEFINE tries == worker.tries + 1
<1>4. at \in {"write", "pop"} /\ (at = "write" => tries < MaxRetries) /\ tries \in 0 .. MaxRetries
  BY <1>3
<1>5. Retry = [worker EXCEPT !.at = at, !.tries = tries]
  BY DEF Retry
<1> HIDE DEF at, tries
<1>6. at \in {"idle", "loop", "write", "pop"}
  BY <1>4
<1>7. /\ [worker EXCEPT !.at = at, !.tries = tries] \in WorkerRecords
      /\ [worker EXCEPT !.at = at, !.tries = tries].at = at
      /\ [worker EXCEPT !.at = at, !.tries = tries].on = worker.on
      /\ [worker EXCEPT !.at = at, !.tries = tries].tries = tries
  BY <1>1, <1>4, <1>6 DEF WorkerRecords
<1> DEFINE r == [worker EXCEPT !.at = at, !.tries = tries]
<1>8. Retry = r /\ r \in WorkerRecords /\ r.at = at /\ r.on = worker.on /\ r.tries = tries
  BY <1>5, <1>7, Zenon
<1> HIDE DEF r
<1> QED
  BY <1>4, <1>8

-----------------------------------------------------------------------------
(* The worker.                                                             *)

(* The sender the worker is at lives and has a message.                    *)
LEMMA AtWork ==
    ASSUME SenderTypes, SenderInvariant, worker.at # "idle"
    PROVE  /\ worker \in WorkerRecords /\ worker.on \in Senders /\ object[worker.on].alive
           /\ object[worker.on].queue \in Seq(Messages) /\ object[worker.on].queue # <<>>
           /\ \A k \in DOMAIN pool : pool[k] # worker.on
<1>1. worker \in WorkerRecords
  BY DEF SenderTypes, WorkerRecords
<1>2. worker.on # NoSender /\ TasksMatchQueues
  BY DEF SenderInvariant, TasksMatchQueues
<1>3. worker.on \in Senders
  BY <1>2, Tasks
<1> QED
  BY <1>1, <1>2, <1>3, ObjectTypes DEF TasksMatchQueues

(* An idle worker is at no sender.                                         *)
LEMMA WorkerIdle == Idle \in WorkerRecords /\ Idle.at = "idle" /\ Idle.on = NoSender
<1>1. 0 \in 0 .. MaxRetries
  BY Bounds
<1> QED
  BY <1>1 DEF Idle, WorkerRecords

(* The worker takes the first task.                                        *)
LEMMA TakeTaskStep ==
    ASSUME SenderTypes, SenderInvariant, TakeTask
    PROVE  SenderTypes' /\ SenderInvariant'
<1>1. /\ worker.at = "idle" /\ pool # <<>>
      /\ worker' = [at |-> "loop", on |-> Head(pool), tries |-> 0]
      /\ pool' = Tail(pool)
      /\ UNCHANGED <<senders, created, mutex, object, caller, calls>>
  BY DEF TakeTask
<1>2. /\ pool' \in Seq(Senders) /\ Len(pool') = Len(pool) - 1 /\ Head(pool) = pool[1]
      /\ Len(pool) > 0 /\ \A k \in 1 .. Len(pool') : pool'[k] = pool[k + 1]
  <2>1. pool \in Seq(Senders) /\ Len(pool) \in Nat /\ Len(pool) # 0
    BY <1>1, Tasks, EmptySeq
  <2>2. Head(pool) = pool[1]
    BY <2>1
  <2>3. Len(pool) > 0
    BY <2>1
  <2> QED
    BY <1>1, <2>1, <2>2, <2>3, HeadTailProperties
<1>3. DOMAIN pool' = 1 .. Len(pool')
  BY <1>2, LenProperties
<1>4. 1 \in DOMAIN pool /\ pool[1] \in Senders /\ \A k \in DOMAIN pool' : k + 1 \in DOMAIN pool /\ k # 0
  BY <1>2, <1>3, Tasks
<1>5. worker' \in WorkerRecords /\ worker'.at = "loop" /\ worker'.on = pool[1]
  BY <1>1, <1>2, <1>4, Bounds DEF WorkerRecords
<1>6. SenderTypes'
  BY <1>1, <1>2, <1>5 DEF SenderTypes, WorkerRecords
<1>7. SendersLive' /\ \A c \in Callers : CallerHolds(c)'
  BY <1>1, LiveKept, CallersKept DEF SenderInvariant
<1>8. TasksMatchQueues /\ worker.on = NoSender
  BY <1>1 DEF SenderInvariant, TasksMatchQueues
<1>9. NoMessageForgotten'
  <2> SUFFICES ASSUME NEW t \in Senders, object[t].queue # <<>>, ~object[t].stop
               PROVE  pool[1] = t \/ \E k \in DOMAIN pool' : pool'[k] = t
    BY <1>1, <1>5 DEF NoMessageForgotten
  <2>1. PICK k \in DOMAIN pool : pool[k] = t
    BY <1>8, SenderNames DEF TasksMatchQueues, NoMessageForgotten
  <2>2. CASE k # 1
    <3>1. k - 1 \in DOMAIN pool' /\ (k - 1) + 1 = k
      BY <1>2, <1>3, <2>2, Tasks
    <3>2. pool'[k - 1] = t
      BY <1>2, <1>3, <2>1, <3>1
    <3> QED
      BY <3>1, <3>2
  <2> QED
    BY <2>1, <2>2
<1>10. ASSUME NEW k \in DOMAIN pool'
       PROVE  /\ object[pool'[k]].alive /\ object[pool'[k]].queue # <<>>
              /\ pool'[k] # pool[1]
              /\ \A j \in DOMAIN pool' : pool'[j] = pool'[k] => j = k
  <2>1. pool'[k] = pool[k + 1] /\ k + 1 \in DOMAIN pool /\ k \in Nat /\ k # 0
    BY <1>2, <1>3, <1>4
  <2>2. \A j \in DOMAIN pool' : pool'[j] = pool[j + 1] /\ j + 1 \in DOMAIN pool /\ j \in Nat
    BY <1>2, <1>3, <1>4
  <2>3. \A j \in DOMAIN pool : pool[j] = pool[k + 1] => j = k + 1
    BY <1>8, <2>1 DEF TasksMatchQueues
  <2> QED
    BY <1>4, <1>8, <2>1, <2>2, <2>3 DEF TasksMatchQueues
<1>11. object[pool[1]].alive /\ object[pool[1]].queue # <<>>
  BY <1>4, <1>8 DEF TasksMatchQueues
<1>12. TasksMatchQueues'
  <2>1. pool[1] # NoSender
    BY <1>4, SenderNames
  <2> QED
    BY <1>1, <1>5, <1>9, <1>10, <1>11, <2>1 DEF TasksMatchQueues
<1> QED
  BY <1>6, <1>7, <1>12 DEF SenderInvariant

(* The task ends when the queue is empty or the sender is stopped.         *)
LEMMA WorkerEnds ==
    ASSUME SenderTypes, SenderInvariant, worker.at # "idle", worker' = Idle,
           UNCHANGED <<senders, created, mutex, caller, calls, pool>>,
           object' \in [Senders -> Objects],
           \A t \in Senders : Len(object'[t].queue) <= SenderQueueSize,
           \A t \in Senders : object'[t].alive = object[t].alive,
           \A t \in Senders \ {worker.on} : object'[t] = object[t],
           object'[worker.on].queue = <<>> \/ object'[worker.on].stop
    PROVE  SenderTypes' /\ SenderInvariant'
<1>1. worker.on \in Senders /\ object[worker.on].alive /\ \A k \in DOMAIN pool : pool[k] # worker.on
  BY AtWork
<1>2. SenderTypes'
  BY WorkerIdle DEF SenderTypes, WorkerRecords, Objects
<1>3. SendersLive' /\ \A c \in Callers : CallerHolds(c)'
  BY <1>1, LiveKept, CallersKept DEF SenderInvariant
<1>4. TasksMatchQueues
  BY DEF SenderInvariant
<1>5. NoMessageForgotten'
  <2> SUFFICES ASSUME NEW t \in Senders, object'[t].queue # <<>>, ~object'[t].stop
               PROVE  \E k \in DOMAIN pool : pool[k] = t
    BY DEF NoMessageForgotten
  <2>1. t # worker.on /\ object'[t] = object[t]
    OBVIOUS
  <2> QED
    BY <1>4, <2>1 DEF TasksMatchQueues, NoMessageForgotten
<1>6. \A k \in DOMAIN pool : /\ object'[pool[k]] = object[pool[k]] /\ pool[k] # NoSender
  BY <1>1, Tasks, SenderNames
<1>7. TasksMatchQueues'
  <2>1. worker'.at = "idle" /\ worker'.on = NoSender
    BY WorkerIdle
  <2> QED
    BY <1>4, <1>5, <1>6, <2>1 DEF TasksMatchQueues
<1> QED
  BY <1>2, <1>3, <1>7 DEF SenderInvariant

(* The task looks at its stop token before each message.                   *)
LEMMA SendQueueElementsStep ==
    ASSUME SenderTypes, SenderInvariant, SendQueueElements
    PROVE  SenderTypes' /\ SenderInvariant'
<1>1. /\ worker.at = "loop" /\ UNCHANGED <<senders, created, mutex, object, caller, calls, pool>>
      /\ worker' = IF object[worker.on].stop THEN Idle ELSE [worker EXCEPT !.at = "write", !.tries = 0]
  BY DEF SendQueueElements
<1>2. CASE object[worker.on].stop
  <2>1. worker' = Idle /\ object'[worker.on].stop
    BY <1>1, <1>2
  <2>2. object' \in [Senders -> Objects] /\ \A t \in Senders : Len(object'[t].queue) <= SenderQueueSize
    BY <1>1 DEF SenderTypes, Objects
  <2> QED
    BY <1>1, <2>1, <2>2, WorkerEnds
<1>3. CASE ~object[worker.on].stop
  <2>1. worker' = [worker EXCEPT !.at = "write", !.tries = 0]
    BY <1>1, <1>3
  <2>2. worker \in WorkerRecords /\ 0 \in 0 .. MaxRetries
    BY <1>1, AtWork, Bounds
  <2>3. /\ worker' \in WorkerRecords /\ worker'.at = "write" /\ worker'.on = worker.on
        /\ worker'.tries = 0
    BY <2>1, <2>2 DEF WorkerRecords
  <2>4. worker'.tries < MaxRetries
    BY <2>3, Bounds
  <2> QED
    BY <1>1, <2>3, <2>4, WorkerStays DEF WorkerRecords
<1> QED
  BY <1>2, <1>3

(* A message is written, or the attempt has failed.                        *)
LEMMA WriteStep ==
    ASSUME SenderTypes, SenderInvariant, WriteFails \/ \E i \in Listeners : Write(i)
    PROVE  SenderTypes' /\ SenderInvariant'
<1>1. /\ worker.at = "write" /\ UNCHANGED <<senders, created, mutex, object, caller, calls, pool>>
      /\ worker' = [worker EXCEPT !.at = "pop"] \/ worker' = Retry
  BY DEF WriteFails, Write
<1>2. worker \in WorkerRecords
  BY <1>1, AtWork
<1>3. CASE worker' = [worker EXCEPT !.at = "pop"]
  <2>1. worker' \in WorkerRecords /\ worker'.at = "pop" /\ worker'.on = worker.on
    BY <1>2, <1>3 DEF WorkerRecords
  <2> QED
    BY <1>1, <2>1, WorkerStays DEF WorkerRecords
<1>4. CASE worker' = Retry
  <2>1. /\ worker' \in WorkerRecords /\ worker'.at # "idle" /\ worker'.on = worker.on
        /\ worker'.at = "write" => worker'.tries < MaxRetries
    BY <1>1, <1>4, RetryStays
  <2> QED
    BY <1>1, <2>1, WorkerStays DEF WorkerRecords
<1> QED
  BY <1>1, <1>3, <1>4

(* The message is removed, sent or not.                                    *)
LEMMA PopFrontStep ==
    ASSUME SenderTypes, SenderInvariant, PopFront
    PROVE  SenderTypes' /\ SenderInvariant'
<1> DEFINE s == worker.on
<1> DEFINE rest == Tail(object[s].queue)
<1>1. /\ worker.at = "pop" /\ UNCHANGED <<senders, created, mutex, caller, calls, pool>>
      /\ object' = [object EXCEPT ![s].queue = rest]
      /\ worker' = IF rest = <<>> THEN Idle ELSE [worker EXCEPT !.at = "loop"]
  BY DEF PopFront
<1>2. /\ worker \in WorkerRecords /\ s \in Senders /\ object[s].alive
      /\ object[s].queue \in Seq(Messages) /\ object[s].queue # <<>>
      /\ \A k \in DOMAIN pool : pool[k] # s
  BY <1>1, AtWork
<1>3. rest \in Seq(Messages) /\ Len(rest) <= SenderQueueSize
  <2>1. rest \in Seq(Messages) /\ Len(rest) = Len(object[s].queue) - 1
    BY <1>2, HeadTailProperties
  <2> QED
    BY <1>2, <2>1, ObjectTypes, Bounds
<1> HIDE DEF rest
<1>4. /\ object' \in [Senders -> Objects]
      /\ \A t \in Senders : Len(object'[t].queue) <= SenderQueueSize
      /\ object'[s].queue = rest /\ object'[s].stop = object[s].stop
      /\ object'[s].alive = object[s].alive
      /\ \A t \in Senders \ {s} : object'[t] = object[t]
  BY <1>1, <1>2, <1>3, ObjectTypes, ObjectGoes
<1>5. \A t \in Senders : object'[t].alive = object[t].alive
  BY <1>4
<1>6. CASE rest = <<>>
  BY <1>1, <1>4, <1>5, <1>6, WorkerEnds
<1>7. CASE rest # <<>>
  <2>1. worker' = [worker EXCEPT !.at = "loop"]
    BY <1>1, <1>7
  <2>2. worker' \in WorkerRecords /\ worker'.at = "loop" /\ worker'.on = s
    BY <1>2, <2>1 DEF WorkerRecords
  <2>3. SenderTypes'
    BY <1>1, <1>4, <2>2 DEF SenderTypes, WorkerRecords, Objects
  <2>4. SendersLive' /\ \A c \in Callers : CallerHolds(c)'
    BY <1>1, <1>2, <1>4, <1>5, LiveKept, CallersKept DEF SenderInvariant
  <2>5. TasksMatchQueues
    BY DEF SenderInvariant
  <2>6. NoMessageForgotten'
    <3> SUFFICES ASSUME NEW t \in Senders, object'[t].queue # <<>>, ~object'[t].stop
                 PROVE  s = t \/ \E k \in DOMAIN pool : pool[k] = t
      BY <1>1, <2>2 DEF NoMessageForgotten
    <3> QED
      BY <1>4, <2>5 DEF TasksMatchQueues, NoMessageForgotten
  <2>7. \A k \in DOMAIN pool : object'[pool[k]] = object[pool[k]]
    BY <1>2, <1>4, Tasks
  <2>8. TasksMatchQueues'
    <3>1. s # NoSender /\ object'[s].alive /\ object'[s].queue # <<>>
      BY <1>2, <1>4, <1>7, SenderNames
    <3> QED
      BY <1>1, <2>2, <2>5, <2>6, <2>7, <3>1 DEF TasksMatchQueues
  <2> QED
    BY <2>3, <2>4, <2>8 DEF SenderInvariant
<1> QED
  BY <1>6, <1>7

(* Every step of the worker keeps the sending process's part.              *)
LEMMA WorkerStepKeeps ==
    ASSUME SenderTypes, SenderInvariant, WorkerStep
    PROVE  SenderTypes' /\ SenderInvariant'
BY TakeTaskStep, SendQueueElementsStep, WriteStep, PopFrontStep DEF WorkerStep

-----------------------------------------------------------------------------
(* Where the sending process meets a receiver.                             *)

(* The receivers are as they were.                                         *)
LEMMA ReceiversKept ==
    ASSUME ReceiverTypes, ReceiverInvariant, UNCHANGED receiving
    PROVE  ReceiverTypes' /\ ReceiverInvariant'
<1>1. UNCHANGED <<path, listen, held, inbox, owned, dtor, stops, arrived, handled>>
  BY DEF receiving, channel, listening, history
<1>2. ReceiverTypes'
  BY <1>1 DEF ReceiverTypes
<1>3. ASSUME NEW n \in Nodes PROVE QueueOwned(n)' /\ NothingLost(n)' /\ TasksWaitedFor(n)'
  <2>1. QueueOwned(n) /\ NothingLost(n) /\ TasksWaitedFor(n)
    BY DEF ReceiverInvariant
  <2>2. QueueOwned(n)'
    BY <1>1, <2>1 DEF QueueOwned
  <2>3. NothingLost(n)'
    BY <1>1, <2>1 DEF NothingLost
  <2>4. TasksWaitedFor(n)'
    BY <1>1, <2>1 DEF TasksWaitedFor, Stopped
  <2> QED
    BY <2>2, <2>3, <2>4
<1> QED
  BY <1>2, <1>3 DEF ReceiverInvariant

(* A caller changes a receiver only by opening its channel.                *)
LEMMA CallerMeetsReceiver ==
    ASSUME SenderTypes, SenderInvariant, ReceiverTypes, ReceiverInvariant,
           NEW c \in Callers, CallerStep(c)
    PROVE  /\ ReceiverTypes' /\ ReceiverInvariant' /\ UNCHANGED <<dtor, stops, arrived, handled>>
           /\ \/ listen' = listen
              \/ \E n \in Nodes, i \in Listeners :
                    listen[n][i] = "block" /\ listen' = [listen EXCEPT ![n][i] = "claim"]
<1>1. CASE UNCHANGED receiving
  BY <1>1, ReceiversKept DEF receiving, channel, listening, history
<1>2. ASSUME NEW i \in Listeners, CreateNewSender(c, i)
      PROVE  /\ caller[c].node \in Nodes /\ listen[caller[c].node][i] = "block"
             /\ listen' = [listen EXCEPT ![caller[c].node][i] = "claim"]
             /\ UNCHANGED <<path, held, inbox, owned, dtor, stops, arrived, handled>>
  <2>1. caller[c].at = "connect"
    BY <1>2 DEF CreateNewSender
  <2>2. caller[c].node \in Nodes
    BY <2>1 DEF SenderInvariant, CallerHolds
  <2> QED
    BY <1>2, <2>2 DEF CreateNewSender, history
<1>3. ASSUME NEW i \in Listeners, CreateNewSender(c, i)
      PROVE  /\ ReceiverTypes' /\ ReceiverInvariant' /\ UNCHANGED <<dtor, stops, arrived, handled>>
             /\ \E n \in Nodes, j \in Listeners :
                   listen[n][j] = "block" /\ listen' = [listen EXCEPT ![n][j] = "claim"]
  BY <1>2, <1>3, DispatchStep
<1>4. UNCHANGED receiving \/ \E i \in Listeners : CreateNewSender(c, i)
   BY DEF CallerStep, GetMessagePassingSender, SendInternal, Release, EndDestruction,
     StartCall,
         RemoveMessagePassingSender
<1> QED
  BY <1>1, <1>3, <1>4

(* The worker writes the first message of the queue.                       *)
LEMMA FirstOfQueue ==
    ASSUME SenderTypes, SenderInvariant, worker.at # "idle"
    PROVE  /\ Head(object[worker.on].queue) \in Messages
           /\ Head(object[worker.on].queue) = object[worker.on].queue[1]
           /\ 1 \in DOMAIN object[worker.on].queue /\ worker.on[1] \in Nodes
<1>1. /\ worker.on \in Senders /\ object[worker.on].queue \in Seq(Messages)
      /\ object[worker.on].queue # <<>>
  BY AtWork
<1>2. worker.on[1] \in Nodes
  BY <1>1, SenderNames
<1>3. Head(object[worker.on].queue) \in Messages
  BY <1>1, HeadTailProperties
<1>4. Head(object[worker.on].queue) = object[worker.on].queue[1]
  BY <1>1
<1>5. 1 \in DOMAIN object[worker.on].queue
  BY <1>1, ObjectTypes
<1> QED
  BY <1>2, <1>3, <1>4, <1>5

(* The worker changes a receiver only by writing to it; what the receiver  *)
(* accepts arrives at the end.                                             *)
LEMMA WorkerMeetsReceiver ==
    ASSUME SenderTypes, SenderInvariant, ReceiverTypes, ReceiverInvariant, WorkerStep
    PROVE  /\ ReceiverTypes' /\ ReceiverInvariant' /\ UNCHANGED <<dtor, stops, handled>>
           /\ \/ listen' = listen
              \/ \E n \in Nodes, i \in Listeners :
                    listen[n][i] = "block" /\ listen' = [listen EXCEPT ![n][i] = "claim"]
           /\ \/ arrived' = arrived
              \/ /\ worker.at = "write" /\ worker' = [worker EXCEPT !.at = "pop"]
                 /\ UNCHANGED <<object, calls, caller>>
                 /\ arrived' = [arrived EXCEPT ![worker.on[1]] =
                                   Append(@, Head(object[worker.on].queue))]
<1>1. CASE UNCHANGED receiving
  BY <1>1, ReceiversKept DEF receiving, channel, listening, history
<1>2. ASSUME NEW i \in Listeners, Write(i)
      PROVE  /\ ReceiverTypes' /\ ReceiverInvariant' /\ UNCHANGED <<dtor, stops, handled>>
             /\ \E n \in Nodes, j \in Listeners :
                   listen[n][j] = "block" /\ listen' = [listen EXCEPT ![n][j] = "claim"]
             /\ \/ arrived' = arrived
                \/ /\ worker.at = "write" /\ worker' = [worker EXCEPT !.at = "pop"]
                   /\ UNCHANGED <<object, calls, caller>>
                   /\ arrived' = [arrived EXCEPT ![worker.on[1]] =
                                     Append(@, Head(object[worker.on].queue))]
  <2> DEFINE n == worker.on[1]
  <2> DEFINE m == Head(object[worker.on].queue)
  <2>1. worker.at = "write" /\ UNCHANGED <<path, held, owned, dtor, stops, handled>>
    BY <1>2 DEF Write
  <2>2. n \in Nodes /\ m \in Messages
    BY <2>1, FirstOfQueue
  <2>3. /\ listen[n][i] = "block" /\ listen' = [listen EXCEPT ![n][i] = "claim"]
        /\ worker' = IF Fits(n) THEN [worker EXCEPT !.at = "pop"] ELSE Retry
        /\ UNCHANGED <<object, calls, caller>>
        /\ IF Fits(n)
           THEN /\ inbox' = [inbox EXCEPT ![n] = Append(@, m)]
                /\ arrived' = [arrived EXCEPT ![n] = Append(@, m)]
           ELSE UNCHANGED <<inbox, arrived>>
    BY <1>2 DEF Write, io_write, Genuine
  <2> HIDE DEF m
  <2>4. CASE Fits(n)
    BY <2>1, <2>2, <2>3, <2>4, ArrivalStep DEF m
  <2>5. CASE ~Fits(n)
    BY <2>1, <2>2, <2>3, <2>5, DispatchStep
  <2> QED
    BY <2>4, <2>5
<1>3. UNCHANGED receiving \/ \E i \in Listeners : Write(i)
  BY DEF WorkerStep, TakeTask, SendQueueElements, WriteFails, PopFront
<1> QED
  BY <1>1, <1>2, <1>3

-----------------------------------------------------------------------------
(* The order of messages.                                                  *)

(* What arrived and what is queued are messages.                           *)
LEMMA Elements ==
    ASSUME SenderTypes, ReceiverTypes
    PROVE  /\ \A n \in Nodes : DOMAIN arrived[n] = 1 .. Len(arrived[n]) /\ Len(arrived[n]) \in Nat
           /\ \A n \in Nodes : \A j \in DOMAIN arrived[n] : arrived[n][j] \in Messages
           /\ \A s \in Senders : \A k \in DOMAIN object[s].queue : object[s].queue[k] \in Messages
<1>1. ASSUME NEW n \in Nodes
      PROVE  /\ DOMAIN arrived[n] = 1 .. Len(arrived[n]) /\ Len(arrived[n]) \in Nat
             /\ \A j \in DOMAIN arrived[n] : arrived[n][j] \in Messages
  <2>1. arrived[n] \in Seq(Messages)
    BY DEF ReceiverTypes
  <2> QED
    BY <2>1, LenProperties, ElementOfSeq
<1>2. ASSUME NEW s \in Senders
      PROVE  \A k \in DOMAIN object[s].queue : object[s].queue[k] \in Messages
  <2>1. object[s].queue \in Seq(Messages)
    BY ObjectTypes
  <2> QED
    BY <2>1, LenProperties, ElementOfSeq
<1> QED
  BY <1>1, <1>2

(* The order is kept when the queues lose their first elements, written or *)
(* not, and numbers stay the numbers of calls.                             *)
LEMMA OrderKept ==
    ASSUME SenderTypes, ReceiverTypes, SenderTypes', OrderInvariant, arrived' = arrived,
           \A m \in Messages : Numbered(m) => Numbered(m)',
           NEW gone \in [Senders -> {0, 1}],
           \A s \in Senders : \A k \in DOMAIN object'[s].queue :
               /\ k + gone[s] \in DOMAIN object[s].queue
               /\ object'[s].queue[k] = object[s].queue[k + gone[s]]
               /\ Written(s, k + gone[s]) => Written(s, k)'
    PROVE  OrderInvariant'
<1>1. ArrivedOnce'
  BY Elements DEF OrderInvariant, ArrivedOnce
<1>2. \A s \in Senders : gone[s] \in Int /\ \A k \in DOMAIN object'[s].queue : k \in Int
  <2>1. ASSUME NEW s \in Senders PROVE \A k \in DOMAIN object'[s].queue : k \in Int
    <3>1. object'[s].queue \in Seq(Messages)
      BY DEF SenderTypes
    <3>2. DOMAIN object'[s].queue = 1 .. Len(object'[s].queue)
      BY <3>1, LenProperties
    <3> QED
      BY <3>2
  <2> QED
    BY <2>1
<1>3. QueuedOnce'
  <2> SUFFICES ASSUME NEW s \in Senders, NEW j \in DOMAIN object'[s].queue
               PROVE  /\ Numbered(object[s].queue[j])' /\ object'[s].queue[j].sender = s
                      /\ \A k \in DOMAIN object'[s].queue :
                            j < k => Precedes(object'[s].queue[j], object'[s].queue[k])
                      /\ \A t \in Senders \ {s} : \A k \in DOMAIN object'[t].queue :
                            Precedes(object'[s].queue[j], object'[t].queue[k])
    BY DEF QueuedOnce
  <2>1. /\ j + gone[s] \in DOMAIN object[s].queue
        /\ object'[s].queue[j] = object[s].queue[j + gone[s]]
    OBVIOUS
  <2>2. /\ Numbered(object[s].queue[j + gone[s]]) /\ object[s].queue[j + gone[s]].sender = s
        /\ \A k \in DOMAIN object[s].queue : j + gone[s] < k =>
              Precedes(object[s].queue[j + gone[s]], object[s].queue[k])
        /\ \A t \in Senders \ {s} : \A k \in DOMAIN object[t].queue :
              Precedes(object[s].queue[j + gone[s]], object[t].queue[k])
    BY <2>1 DEF OrderInvariant, QueuedOnce
  <2>3. ASSUME NEW k \in DOMAIN object'[s].queue, j < k
        PROVE  Precedes(object'[s].queue[j], object'[s].queue[k])
    <3>1. j + gone[s] < k + gone[s]
      BY <1>2, <2>3
    <3> QED
      BY <2>1, <2>2, <3>1
  <2>4. object[s].queue[j + gone[s]] \in Messages
    BY <2>1, Elements
  <2> QED
    BY <2>1, <2>2, <2>3, <2>4
<1>4. ArrivedBeforeQueued'
  <2> SUFFICES ASSUME NEW n \in Nodes, NEW s \in Senders,
                      NEW j \in DOMAIN arrived[n], NEW k \in DOMAIN object'[s].queue
               PROVE  Written(s, k)' \/ Precedes(arrived[n][j], object'[s].queue[k])
    BY DEF ArrivedBeforeQueued
  <2>1. Written(s, k + gone[s]) \/ Precedes(arrived[n][j], object[s].queue[k + gone[s]])
    BY DEF OrderInvariant, ArrivedBeforeQueued
  <2> QED
    BY <2>1
<1> QED
  BY <1>1, <1>3, <1>4 DEF OrderInvariant

(* The order is kept when the queues stay as they are.                     *)
LEMMA OrderUntouched ==
    ASSUME SenderTypes, ReceiverTypes, SenderTypes', OrderInvariant, arrived' = arrived,
           \A m \in Messages : Numbered(m) => Numbered(m)',
           \A s \in Senders : object'[s].queue = object[s].queue,
           worker.at = "pop" => worker' = worker
    PROVE  OrderInvariant'
<1> DEFINE gone == [s \in Senders |-> 0]
<1>1. gone \in [Senders -> {0, 1}] /\ \A s \in Senders : gone[s] = 0
  OBVIOUS
<1> HIDE DEF gone
<1>2. ASSUME NEW s \in Senders, NEW k \in DOMAIN object'[s].queue
      PROVE  /\ k + gone[s] \in DOMAIN object[s].queue
             /\ object'[s].queue[k] = object[s].queue[k + gone[s]]
             /\ Written(s, k + gone[s]) => Written(s, k)'
  <2>1. k + gone[s] = k
    BY <1>1, ObjectTypes
  <2> QED
    BY <2>1 DEF Written
<1> QED
  BY <1>1, <1>2, OrderKept

(* A caller that sends no more can have sent its last number.              *)
LEMMA NumbersKept ==
    ASSUME calls' = calls,
           \A c \in Callers : caller'[c].at \in {"call", "connect", "send"} =>
               caller[c].at \in {"call", "connect", "send"}
    PROVE  \A m \in Messages : Numbered(m) => Numbered(m)'
BY DEF Numbered, Messages

(* The message that is queued last has the number of the latest call.      *)
LEMMA AppendedInOrder ==
    ASSUME SenderTypes, SenderInvariant, ReceiverTypes, OrderInvariant, NEW c \in Callers, SendInternal(c)
    PROVE  OrderInvariant'
<1> DEFINE s == caller[c].uses
<1>0. s \in Senders
  BY InUse DEF SendInternal
<1>a. PICK m \in Messages : m = [caller |-> c, number |-> calls[c], sender |-> s]
  BY <1>0 DEF Messages, SenderTypes
<1> DEFINE q == Append(object[s].queue, m)
<1>1. /\ caller[c].at = "send" /\ caller' = [caller EXCEPT ![c].at = "release"]
      /\ UNCHANGED <<senders, created, mutex, calls, worker, arrived>>
      /\ \/ UNCHANGED <<object, pool>>
         \/ /\ Len(object[s].queue) < SenderQueueSize
            /\ object' = [object EXCEPT ![s].queue = Append(@, m)]
  BY <1>a DEF SendInternal, receiving, history
<1>2. SenderTypes'
  BY SendInternalStep
<1>3. /\ caller'[c].at = "release" /\ \A d \in Callers \ {c} : caller'[d] = caller[d]
  BY <1>1, CallerGoes, CallStates
<1>4. \A x \in Messages : Numbered(x) => Numbered(x)'
  BY <1>1, <1>3, NumbersKept
<1>5. s \in Senders
  BY <1>1, InUse
<1>6. m \in Messages /\ m.caller = c /\ m.number = calls[c] /\ m.sender = s /\ calls[c] \in Nat
  BY <1>5, <1>a DEF SenderTypes
<1>7. Numbered(m)'
  BY <1>1, <1>3, <1>6 DEF Numbered
<1>8. \A x \in Messages : Numbered(x) => Precedes(x, m)
  BY <1>1, <1>6 DEF Numbered, Precedes, Messages
<1>9. \A x \in Messages : Numbered(x) /\ x.sender # s => Precedes(m, x)
  BY <1>1, <1>6 DEF Numbered, Precedes, Messages
<1>10. CASE UNCHANGED <<object, pool>>
  BY <1>1, <1>2, <1>4, <1>10, OrderUntouched
<1>11. CASE /\ Len(object[s].queue) < SenderQueueSize
            /\ object' = [object EXCEPT ![s].queue = Append(@, m)]
  <2>1. /\ q \in Seq(Messages) /\ Len(q) = Len(object[s].queue) + 1
        /\ \A k \in DOMAIN object[s].queue : q[k] = object[s].queue[k]
        /\ q[Len(object[s].queue) + 1] = m
    BY <1>5, <1>6, ObjectTypes, AppendProperties
  <2>2. Len(q) <= SenderQueueSize /\ object' = [object EXCEPT ![s].queue = q]
    BY <1>5, <1>11, <2>1, ObjectTypes, Bounds
  <2> HIDE DEF q
  <2>3. object'[s].queue = q /\ \A t \in Senders \ {s} : object'[t] = object[t]
    BY <1>5, <2>1, <2>2, ObjectTypes, ObjectGoes
  <2>4. DOMAIN q = 1 .. Len(q)
    BY <2>1, LenProperties
  <2>5. \A k \in DOMAIN q : \/ k \in DOMAIN object[s].queue /\ q[k] = object[s].queue[k]
                            \/ k = Len(object[s].queue) + 1 /\ q[k] = m
    BY <1>5, <2>1, <2>4, ObjectTypes
  <2>6. ArrivedOnce'
    BY <1>1, <1>4, Elements DEF OrderInvariant, ArrivedOnce
  <2>7. QueuedOnce'
    <3> SUFFICES ASSUME NEW t \in Senders, NEW j \in DOMAIN object'[t].queue
                 PROVE  /\ Numbered(object[t].queue[j])' /\ object'[t].queue[j].sender = t
                        /\ \A k \in DOMAIN object'[t].queue :
                              j < k => Precedes(object'[t].queue[j], object'[t].queue[k])
                        /\ \A u \in Senders \ {t} : \A k \in DOMAIN object'[u].queue :
                              Precedes(object'[t].queue[j], object'[u].queue[k])
      BY DEF QueuedOnce
    <3>1. CASE j \in DOMAIN object[t].queue /\ object'[t].queue[j] = object[t].queue[j]
      <4> DEFINE x == object[t].queue[j]
      <4>1. /\ Numbered(x) /\ x.sender = t /\ x \in Messages
            /\ \A k \in DOMAIN object[t].queue : j < k => Precedes(x, object[t].queue[k])
            /\ \A u \in Senders \ {t} : \A k \in DOMAIN object[u].queue :
                  Precedes(x, object[u].queue[k])
        BY <3>1, Elements DEF OrderInvariant, QueuedOnce
      <4>2. ASSUME NEW k \in DOMAIN object'[t].queue, j < k PROVE Precedes(x, object'[t].queue[k])
        <5>1. CASE t = s
          BY <1>8, <2>3, <2>5, <4>1, <4>2, <5>1
        <5>2. CASE t # s
          BY <2>3, <4>1, <4>2, <5>2
        <5> QED
          BY <5>1, <5>2
      <4>3. ASSUME NEW u \in Senders \ {t}, NEW k \in DOMAIN object'[u].queue
            PROVE  Precedes(x, object'[u].queue[k])
        <5>1. CASE u = s
          BY <1>8, <2>3, <2>5, <4>1, <4>3, <5>1
        <5>2. CASE u # s
          BY <2>3, <4>1, <4>3, <5>2
        <5> QED
          BY <5>1, <5>2
      <4> QED
        BY <1>4, <3>1, <4>1, <4>2, <4>3
    <3>2. CASE t = s /\ j = Len(object[s].queue) + 1 /\ object'[t].queue[j] = m
      <4>1. \A k \in DOMAIN object'[t].queue : ~(j < k)
        <5>1. Len(object[s].queue) \in Nat
          BY <1>5, ObjectTypes
        <5> QED
          BY <2>1, <2>3, <2>4, <3>2, <5>1
      <4>2. ASSUME NEW u \in Senders \ {s}, NEW k \in DOMAIN object'[u].queue
            PROVE  Precedes(m, object'[u].queue[k])
        <5>1. /\ k \in DOMAIN object[u].queue /\ object'[u].queue[k] = object[u].queue[k]
          BY <2>3
        <5>2. /\ object[u].queue[k] \in Messages /\ Numbered(object[u].queue[k])
              /\ object[u].queue[k].sender = u
          BY <5>1, Elements DEF OrderInvariant, QueuedOnce
        <5> QED
          BY <1>9, <5>1, <5>2
      <4> QED
        BY <1>6, <1>7, <3>2, <4>1, <4>2
    <3> QED
      BY <2>3, <2>5, <3>1, <3>2
  <2>8. ArrivedBeforeQueued'
    <3> SUFFICES ASSUME NEW n \in Nodes, NEW t \in Senders,
                        NEW j \in DOMAIN arrived[n], NEW k \in DOMAIN object'[t].queue
                 PROVE  Written(t, k)' \/ Precedes(arrived[n][j], object'[t].queue[k])
      BY <1>1 DEF ArrivedBeforeQueued
    <3>1. CASE k \in DOMAIN object[t].queue /\ object'[t].queue[k] = object[t].queue[k]
      BY <1>1, <3>1 DEF OrderInvariant, ArrivedBeforeQueued, Written
    <3>2. CASE object'[t].queue[k] = m
      <4>1. arrived[n][j] \in Messages /\ Numbered(arrived[n][j])
        BY Elements DEF OrderInvariant, ArrivedOnce
      <4> QED
        BY <1>8, <3>2, <4>1
    <3> QED
      BY <2>3, <2>5, <3>1, <3>2
  <2> QED
    BY <2>6, <2>7, <2>8 DEF OrderInvariant
<1> QED
  BY <1>1, <1>10, <1>11

(* A step of one caller keeps what is said of the numbers.                 *)
LEMMA OneCallerMoves ==
    ASSUME calls' = calls, NEW c \in Callers, \A d \in Callers \ {c} : caller'[d] = caller[d],
           \/ caller'[c].at \notin {"call", "connect", "send"}
           \/ caller[c].at \in {"call", "connect", "send"}
    PROVE  \A m \in Messages : Numbered(m) => Numbered(m)'
BY NumbersKept

(* A new call has a number above all earlier ones.                         *)
LEMMA CallInOrder ==
    ASSUME SenderTypes, SenderInvariant, ReceiverTypes, OrderInvariant, NEW c \in Callers,
           NEW n \in Nodes, StartCall(c, n)
    PROVE  OrderInvariant'
<1>1. /\ caller' = [caller EXCEPT ![c] = [at |-> "call", node |-> n, uses |-> NoSender]]
      /\ calls' = [calls EXCEPT ![c] = @ + 1]
      /\ UNCHANGED <<object, worker, arrived>>
  BY DEF StartCall, receiving, history
<1>2. SenderTypes'
  BY StartCallStep
<1>3. \A d \in Callers \ {c} : caller'[d] = caller[d]
  BY <1>1, CallerIs, CallStates
<1>4. /\ calls \in [Callers -> Nat] /\ calls'[c] = calls[c] + 1
      /\ \A d \in Callers \ {c} : calls'[d] = calls[d]
  BY <1>1 DEF SenderTypes
<1>5. ASSUME NEW m \in Messages, Numbered(m) PROVE Numbered(m)'
  <2>1. m.caller \in Callers /\ m.number \in Nat /\ m.number <= calls[m.caller]
    BY <1>5 DEF Messages, Numbered
  <2>2. CASE m.caller = c
    <3>1. calls[c] \in Nat
      BY <1>4
    <3>2. m.number < calls'[c] /\ m.number <= calls'[c]
      BY <1>4, <2>1, <2>2, <3>1
    <3> QED
      BY <2>2, <3>2 DEF Numbered
  <2>3. CASE m.caller # c
    BY <1>3, <1>4, <1>5, <2>1, <2>3 DEF Numbered
  <2> QED
    BY <2>2, <2>3
<1> QED
  BY <1>1, <1>2, <1>5, OrderUntouched

(* Taking a shared sender queues nothing.                                  *)
LEMMA SharingInOrder ==
    ASSUME SenderTypes, SenderInvariant, ReceiverTypes, OrderInvariant, NEW c \in Callers,
           GetMessagePassingSender(c)
    PROVE  OrderInvariant'
<1>1. /\ caller[c].at = "call" /\ UNCHANGED <<object, calls, worker, arrived>>
      /\ \/ caller' = [caller EXCEPT ![c].at = "send", ![c].uses = senders[caller[c].node]]
         \/ caller' = [caller EXCEPT ![c].at = "connect"]
  BY DEF GetMessagePassingSender, receiving, history
<1>2. SenderTypes'
  BY GetMessagePassingSenderStep
<1>3. senders[caller[c].node] \in Senders \cup {NoSender}
  BY <1>1 DEF SenderInvariant, CallerHolds, SenderTypes
<1>4. \A d \in Callers \ {c} : caller'[d] = caller[d]
  <2>1. CASE caller' = [caller EXCEPT ![c].at = "send", ![c].uses = senders[caller[c].node]]
    BY <1>3, <2>1, CallerTakes, CallStates
  <2>2. CASE caller' = [caller EXCEPT ![c].at = "connect"]
    BY <2>2, CallerGoes, CallStates
  <2> QED
    BY <1>1, <2>1, <2>2
<1>5. \A m \in Messages : Numbered(m) => Numbered(m)'
  BY <1>1, <1>4, OneCallerMoves
<1> QED
  BY <1>1, <1>2, <1>5, OrderUntouched

(* A new sender has an empty queue.                                        *)
LEMMA CreationInOrder ==
    ASSUME SenderTypes, SenderInvariant, ReceiverTypes, OrderInvariant, NEW c \in Callers,
           NEW i \in Listeners, CreateNewSender(c, i)
    PROVE  OrderInvariant'
<1> DEFINE n == caller[c].node
<1> DEFINE s == <<n, created[n] + 1>>
<1>1. /\ caller[c].at = "connect" /\ UNCHANGED <<calls, worker, arrived>>
      /\ caller' = [caller EXCEPT ![c].at = "send", ![c].uses = s]
      /\ object' = [object EXCEPT ![s].alive = TRUE]
  BY DEF CreateNewSender, history
<1>2. SenderTypes'
  BY CreateNewSenderStep
<1>3. s \in Senders
  <2>1. n \in Nodes /\ senders[n] = NoSender /\ SendersLive
    BY <1>1 DEF SenderInvariant, CallerHolds
  <2>2. created[n] + 1 \in 1 .. MaxSenders
    BY <2>1, Bounds DEF SendersLive, SenderTypes
  <2> QED
    BY <2>1, <2>2, SenderNames
<1> HIDE DEF n, s
<1>4. \A d \in Callers \ {c} : caller'[d] = caller[d]
  BY <1>1, <1>3, CallerTakes, CallStates
<1>5. \A m \in Messages : Numbered(m) => Numbered(m)'
  BY <1>1, <1>4, OneCallerMoves
<1>6. \A t \in Senders : object'[t].queue = object[t].queue
  BY <1>1, <1>3, ObjectTypes, ObjectGoes
<1> QED
  BY <1>1, <1>2, <1>5, <1>6, OrderUntouched

(* Dropping a sender queues nothing.                                       *)
LEMMA DropInOrder ==
    ASSUME SenderTypes, SenderInvariant, ReceiverTypes, OrderInvariant, SenderTypes', NEW c \in Callers,
           UNCHANGED <<calls, worker, arrived>>,
           \/ /\ caller' = [caller EXCEPT ![c] = [at |-> "idle", node |-> NoSender, uses |-> NoSender]]
              /\ UNCHANGED object
           \/ UNCHANGED <<caller, object>>
           \/ \E s \in Senders : BeginDestruction(c, s)
    PROVE  OrderInvariant'
<1>1. CASE UNCHANGED <<caller, object>>
  <2>1. \A m \in Messages : Numbered(m) => Numbered(m)'
    BY <1>1, NumbersKept
  <2> QED
    BY <1>1, <2>1, OrderUntouched
<1>2. CASE /\ caller' = [caller EXCEPT ![c] = [at |-> "idle", node |-> NoSender, uses |-> NoSender]]
           /\ UNCHANGED object
  <2>1. caller'[c].at = "idle" /\ \A d \in Callers \ {c} : caller'[d] = caller[d]
    BY <1>2, CallerIs, CallStates
  <2>2. \A m \in Messages : Numbered(m) => Numbered(m)'
    BY <2>1, OneCallerMoves
  <2> QED
    BY <1>2, <2>2, OrderUntouched
<1>3. ASSUME NEW s \in Senders, BeginDestruction(c, s) PROVE OrderInvariant'
  <2>1. /\ object' = [object EXCEPT ![s].stop = TRUE]
        /\ caller' = [caller EXCEPT ![c] = [at |-> "destroy", node |-> s[1], uses |-> s]]
    BY <1>3 DEF BeginDestruction
  <2>2. s[1] \in Nodes
    BY SenderNames
  <2>3. caller'[c].at = "destroy" /\ \A d \in Callers \ {c} : caller'[d] = caller[d]
    BY <2>1, <2>2, CallerIs, CallStates
  <2>4. \A m \in Messages : Numbered(m) => Numbered(m)'
    BY <2>3, OneCallerMoves
  <2>5. \A t \in Senders : object'[t].queue = object[t].queue
    BY <2>1, ObjectTypes, ObjectGoes
  <2> QED
    BY <2>4, <2>5, OrderUntouched
<1> QED
  BY <1>1, <1>2, <1>3

(* What a destroyed sender had queued is not sent any more.                *)
LEMMA DestructionInOrder ==
    ASSUME SenderTypes, SenderInvariant, ReceiverTypes, OrderInvariant, NEW c \in Callers,
           EndDestruction(c)
    PROVE  OrderInvariant'
<1> DEFINE s == caller[c].uses
<1>1. /\ caller[c].at = "destroy" /\ UNCHANGED <<calls, worker, arrived>>
      /\ object' = [object EXCEPT ![s] = [queue |-> <<>>, stop |-> FALSE, alive |-> FALSE]]
      /\ caller' = [caller EXCEPT ![c] = [at |-> "idle", node |-> NoSender, uses |-> NoSender]]
  BY DEF EndDestruction, receiving, history
<1>2. SenderTypes'
  BY EndDestructionStep
<1>3. s \in Senders
  BY <1>1, InUse
<1>4. caller'[c].at = "idle" /\ \A d \in Callers \ {c} : caller'[d] = caller[d]
  BY <1>1, CallerIs, CallStates
<1>5. \A m \in Messages : Numbered(m) => Numbered(m)'
  BY <1>1, <1>4, OneCallerMoves
<1>6. object'[s].queue = <<>> /\ \A t \in Senders \ {s} : object'[t] = object[t]
  BY <1>1, <1>3 DEF SenderTypes
<1> DEFINE gone == [t \in Senders |-> 0]
<1>7. gone \in [Senders -> {0, 1}] /\ \A t \in Senders : gone[t] = 0
  OBVIOUS
<1> HIDE DEF gone
<1>8. ASSUME NEW t \in Senders, NEW k \in DOMAIN object'[t].queue
      PROVE  /\ k + gone[t] \in DOMAIN object[t].queue
             /\ object'[t].queue[k] = object[t].queue[k + gone[t]]
             /\ Written(t, k + gone[t]) => Written(t, k)'
  <2>1. t # s
    BY <1>6, <1>8
  <2>2. object'[t] = object[t] /\ k + gone[t] = k
    BY <1>6, <1>7, <2>1, ObjectTypes
  <2> QED
    BY <1>1, <2>2 DEF Written
<1> QED
  BY <1>1, <1>2, <1>5, <1>7, <1>8, OrderKept

(* Every step of a caller keeps the order.                                 *)
LEMMA CallersInOrder ==
    ASSUME SenderTypes, SenderInvariant, ReceiverTypes, OrderInvariant, NEW c \in Callers,
           CallerStep(c)
    PROVE  OrderInvariant'
<1>1. CASE Release(c)
  <2>1. /\ SenderTypes' /\ UNCHANGED <<calls, worker, arrived>>
        /\ \/ /\ caller' = [caller EXCEPT ![c] = [at |-> "idle", node |-> NoSender, uses |-> NoSender]]
              /\ UNCHANGED object
           \/ BeginDestruction(c, caller[c].uses)
    BY <1>1, ReleaseStep DEF Release, receiving, history
  <2>2. caller[c].uses \in Senders
    BY <1>1, InUse DEF Release
  <2> QED
    BY <2>1, <2>2, DropInOrder
<1>2. ASSUME NEW n \in Nodes, RemoveMessagePassingSender(c, n) PROVE OrderInvariant'
  <2>1. /\ SenderTypes' /\ UNCHANGED <<calls, worker, arrived>> /\ senders[n] # NoSender
        /\ \/ UNCHANGED <<caller, object>>
           \/ BeginDestruction(c, senders[n])
    BY <1>2, RemoveMessagePassingSenderStep DEF RemoveMessagePassingSender, receiving, history
  <2>2. senders[n] \in Senders
    BY <2>1 DEF SenderTypes
  <2> QED
    BY <2>1, <2>2, DropInOrder
<1> QED
   BY <1>1, <1>2, CallInOrder, SharingInOrder, CreationInOrder, AppendedInOrder,
     DestructionInOrder
     DEF CallerStep

(* The element that is removed was the first one.                          *)
LEMMA PopInOrder ==
    ASSUME SenderTypes, SenderInvariant, ReceiverTypes, OrderInvariant, PopFront
    PROVE  OrderInvariant'
<1> DEFINE s == worker.on
<1> DEFINE rest == Tail(object[s].queue)
<1>1. /\ worker.at = "pop" /\ UNCHANGED <<caller, calls, arrived>>
      /\ object' = [object EXCEPT ![s].queue = rest]
  BY DEF PopFront, receiving, history
<1>2. SenderTypes'
  BY PopFrontStep
<1>3. s \in Senders /\ object[s].queue \in Seq(Messages) /\ object[s].queue # <<>>
  BY <1>1, AtWork
<1>4. /\ rest \in Seq(Messages) /\ Len(rest) = Len(object[s].queue) - 1
      /\ \A k \in 1 .. Len(rest) : rest[k] = object[s].queue[k + 1]
  BY <1>3, HeadTailProperties
<1> HIDE DEF rest
<1>5. DOMAIN rest = 1 .. Len(rest)
  BY <1>4, LenProperties
<1>6. object'[s].queue = rest /\ \A t \in Senders \ {s} : object'[t] = object[t]
  BY <1>1, <1>3 DEF SenderTypes
<1> DEFINE gone == [t \in Senders |-> IF t = s THEN 1 ELSE 0]
<1>7. gone \in [Senders -> {0, 1}] /\ gone[s] = 1 /\ \A t \in Senders \ {s} : gone[t] = 0
  BY <1>3
<1> HIDE DEF gone
<1>8. ASSUME NEW t \in Senders, NEW k \in DOMAIN object'[t].queue
      PROVE  /\ k + gone[t] \in DOMAIN object[t].queue
             /\ object'[t].queue[k] = object[t].queue[k + gone[t]]
             /\ ~Written(t, k + gone[t])
  <2>1. CASE t = s
    <3>1. k \in 1 .. Len(rest) /\ k + 1 \in DOMAIN object[s].queue /\ k + 1 # 1
      BY <1>3, <1>4, <1>5, <1>6, <2>1, ObjectTypes
    <3> QED
      BY <1>4, <1>6, <1>7, <2>1, <3>1 DEF Written
  <2>2. CASE t # s
    <3>1. object'[t] = object[t] /\ k + gone[t] = k
      BY <1>6, <1>7, <2>2, ObjectTypes
    <3> QED
      BY <2>2, <3>1 DEF Written
  <2> QED
    BY <2>1, <2>2
<1>9. \A m \in Messages : Numbered(m) => Numbered(m)'
  BY <1>1, NumbersKept
<1> QED
  BY <1>1, <1>2, <1>7, <1>8, <1>9, OrderKept

(* The message that is accepted is behind all that arrived and before all  *)
(* that is queued.                                                         *)
LEMMA WrittenInOrder ==
    ASSUME SenderTypes, SenderInvariant, ReceiverTypes, ReceiverTypes', OrderInvariant,
           worker.at = "write", worker' = [worker EXCEPT !.at = "pop"],
           UNCHANGED <<object, calls, caller>>,
           arrived' = [arrived EXCEPT ![worker.on[1]] = Append(@, Head(object[worker.on].queue))]
    PROVE  OrderInvariant'
<1> DEFINE s == worker.on
<1> DEFINE n == s[1]
<1>1. s \in Senders /\ n \in Nodes /\ 1 \in DOMAIN object[s].queue
  BY AtWork, FirstOfQueue
<1>2. PICK m \in Messages : m = Head(object[s].queue)
  BY FirstOfQueue
<1>3. m = object[s].queue[1]
  BY <1>2, FirstOfQueue
<1>4. worker'.at = "pop" /\ worker'.on = s
  BY AtWork DEF WorkerRecords
<1>5. \A t \in Senders, k \in Nat : ~Written(t, k)
  BY DEF Written
<1>6. \A x \in Messages : Numbered(x) <=> Numbered(x)'
  BY DEF Numbered
<1>7. arrived[n] \in Seq(Messages)
  BY <1>1 DEF ReceiverTypes
<1>8. /\ Len(arrived'[n]) = Len(arrived[n]) + 1 /\ arrived'[n][Len(arrived[n]) + 1] = m
      /\ \A j \in DOMAIN arrived[n] : arrived'[n][j] = arrived[n][j]
      /\ \A h \in Nodes \ {n} : arrived'[h] = arrived[h]
  <2>1. arrived'[n] = Append(arrived[n], m) /\ \A h \in Nodes \ {n} : arrived'[h] = arrived[h]
    BY <1>1, <1>2 DEF ReceiverTypes
  <2> QED
    BY <1>1, <1>7, <2>1, Elements, AppendProperties
<1>9. DOMAIN arrived'[n] = 1 .. Len(arrived[n]) + 1
  <2>1. arrived'[n] \in Seq(Messages)
    BY <1>1 DEF ReceiverTypes
  <2> QED
    BY <1>8, <2>1, LenProperties
<1>10. ASSUME NEW h \in Nodes, NEW j \in DOMAIN arrived'[h]
       PROVE  \/ j \in DOMAIN arrived[h] /\ arrived'[h][j] = arrived[h][j]
              \/ h = n /\ j = Len(arrived[n]) + 1 /\ arrived'[h][j] = m
  BY <1>1, <1>8, <1>9, <1>10, Elements
<1>11. Numbered(m) /\ \A h \in Nodes : \A j \in DOMAIN arrived[h] : Precedes(arrived[h][j], m)
  BY <1>1, <1>3, <1>5 DEF OrderInvariant, QueuedOnce, ArrivedBeforeQueued
<1>12. ArrivedOnce'
  <2> SUFFICES ASSUME NEW h \in Nodes, NEW j \in DOMAIN arrived'[h]
               PROVE  /\ Numbered(arrived[h][j])'
                      /\ \A k \in DOMAIN arrived'[h] :
                            j < k => Precedes(arrived'[h][j], arrived'[h][k])
    BY DEF ArrivedOnce
  <2>1. CASE j \in DOMAIN arrived[h] /\ arrived'[h][j] = arrived[h][j]
    <3>1. /\ Numbered(arrived[h][j]) /\ arrived[h][j] \in Messages
          /\ \A k \in DOMAIN arrived[h] : j < k => Precedes(arrived[h][j], arrived[h][k])
      BY <2>1, Elements DEF OrderInvariant, ArrivedOnce
    <3>2. ASSUME NEW k \in DOMAIN arrived'[h], j < k
          PROVE  Precedes(arrived[h][j], arrived'[h][k])
      BY <1>10, <1>11, <2>1, <3>1, <3>2
    <3> QED
      BY <1>6, <2>1, <3>1, <3>2
  <2>2. CASE h = n /\ j = Len(arrived[n]) + 1 /\ arrived'[h][j] = m
    <3>1. \A k \in DOMAIN arrived'[h] : ~(j < k)
      BY <1>1, <1>9, <2>2, Elements
    <3> QED
      BY <1>6, <1>11, <2>2, <3>1
  <2> QED
    BY <1>10, <2>1, <2>2
<1>13. QueuedOnce'
  BY <1>6, Elements DEF OrderInvariant, QueuedOnce
<1>14. ArrivedBeforeQueued'
  <2> SUFFICES ASSUME NEW h \in Nodes, NEW t \in Senders,
                      NEW j \in DOMAIN arrived'[h], NEW k \in DOMAIN object[t].queue
               PROVE  Written(t, k)' \/ Precedes(arrived'[h][j], object[t].queue[k])
    BY DEF ArrivedBeforeQueued
  <2>1. k \in Nat
    BY ObjectTypes
  <2>2. CASE arrived'[h][j] = arrived[h][j] /\ j \in DOMAIN arrived[h]
    BY <1>5, <2>1, <2>2 DEF OrderInvariant, ArrivedBeforeQueued
  <2>3. CASE arrived'[h][j] = m
    <3>1. CASE t = s /\ k = 1
      BY <1>4, <3>1 DEF Written
    <3>2. CASE t = s /\ k # 1
      <4>1. 1 < k
        BY <1>1, <3>2, ObjectTypes
      <4> QED
        BY <1>1, <1>3, <2>3, <3>2, <4>1 DEF OrderInvariant, QueuedOnce
    <3>3. CASE t # s
      BY <1>1, <1>3, <2>3, <3>3 DEF OrderInvariant, QueuedOnce
    <3> QED
      BY <3>1, <3>2, <3>3
  <2> QED
    BY <1>10, <2>2, <2>3
<1> QED
  BY <1>12, <1>13, <1>14 DEF OrderInvariant

(* Every step of the worker keeps the order.                               *)
LEMMA WorkerInOrder ==
    ASSUME SenderTypes, SenderInvariant, ReceiverTypes, ReceiverInvariant, OrderInvariant, WorkerStep
    PROVE  OrderInvariant'
<1>1. SenderTypes'
  BY WorkerStepKeeps
<1>2. CASE PopFront
  BY <1>2, PopInOrder
<1>3. CASE ~PopFront /\ arrived' = arrived
  <2>1. worker.at # "pop" /\ UNCHANGED <<object, caller, calls>>
    BY <1>3 DEF WorkerStep, TakeTask, SendQueueElements, WriteFails, Write
  <2>2. \A m \in Messages : Numbered(m) => Numbered(m)'
    BY <2>1, NumbersKept
  <2> QED
    BY <1>1, <1>3, <2>1, <2>2, OrderUntouched
<1>4. CASE arrived' # arrived
  BY <1>4, WorkerMeetsReceiver, WrittenInOrder
<1> QED
  BY <1>2, <1>3, <1>4

-----------------------------------------------------------------------------
(* The stop messages.                                                      *)

(* A thread that has not yet begun to take messages.                       *)
Starting == {"none", "new", "selfstop"}

(* A receiver whose threads neither stop nor start misses as many stop     *)
(* messages as before.                                                     *)
LEMMA StopsKept ==
    ASSUME NEW n \in Nodes, StopsMatchThreads(n), dtor'[n] = dtor[n], stops'[n] = stops[n],
           dtor[n] = "stopping" =>
               /\ listen[n][0] \notin Starting => listen'[n][0] \notin Starting
               /\ listen[n][0] = "overtaken" => listen'[n][0] = "overtaken"
               /\ \A i \in Listeners : Stopped(n, i)' <=> Stopped(n, i)
    PROVE  StopsMatchThreads(n)'
<1> SUFFICES ASSUME dtor[n] = "stopping" PROVE StopsMatchThreads(n)'
  BY DEF StopsMatchThreads
<1>1. (Stopped(n, 0)' <=> Stopped(n, 0)) /\ (Stopped(n, 1)' <=> Stopped(n, 1))
  BY Bounds
<1>2. ToStop(n, 0)' = ToStop(n, 0) /\ ToStop(n, 1)' = ToStop(n, 1)
  BY <1>1 DEF ToStop
<1>3. \/ listen[n][0] = "overtaken"
      \/ listen[n][0] \notin Starting /\ stops[n] = ToStop(n, 0) + ToStop(n, 1)
  BY DEF StopsMatchThreads, Starting
<1> QED
  BY <1>2, <1>3 DEF StopsMatchThreads, Starting

(* A thread that goes on without stopping.                                 *)
LEMMA ThreadGoesOn ==
    ASSUME ReceiverTypes, NEW n \in Nodes, NEW i \in Listeners, NEW at \in ThreadStates,
           \A m \in Nodes : StopsMatchThreads(m), UNCHANGED <<dtor, stops>>,
           listen' = [listen EXCEPT ![n][i] = at],
           dtor[n] = "stopping" =>
               \/ i = 0 /\ listen[n][i] \in Starting
               \/ i = 0 /\ at = "overtaken"
               \/ at = "ended" /\ Stopped(n, i) /\ i = 1
               \/ /\ at \notin {"leave", "overtaken", "ended"} /\ ~Stopped(n, i)
                  /\ i = 1 \/ at \notin Starting
    PROVE  \A m \in Nodes : StopsMatchThreads(m)'
<1>1. /\ listen'[n][i] = at
      /\ \A j \in Listeners \ {i} : listen'[n][j] = listen[n][j]
      /\ \A m \in Nodes \ {n} : listen'[m] = listen[m]
  BY ThreadGoes
<1>2. ASSUME NEW m \in Nodes PROVE StopsMatchThreads(m)'
  <2>1. CASE m # n
    BY <1>1, <2>1, StopsKept DEF Stopped
  <2>2. CASE m = n /\ dtor[n] # "stopping"
    BY <2>2 DEF StopsMatchThreads
  <2>3. CASE m = n /\ dtor[n] = "stopping"
    <3>1. CASE listen'[n][0] = "overtaken"
      BY <2>3, <3>1 DEF StopsMatchThreads
    <3>2. CASE listen'[n][0] # "overtaken"
      <4>1. listen[n][0] # "overtaken"
        BY <1>1, <2>3, <3>2, Bounds DEF Listeners, Stopped, Starting
      <4>2. listen[n][0] \notin Starting
        BY <2>3, <4>1 DEF StopsMatchThreads, Starting
      <4>3. \/ at = "ended" /\ Stopped(n, i) /\ i = 1
            \/ /\ at \notin {"leave", "overtaken", "ended"} /\ ~Stopped(n, i)
               /\ i = 1 \/ at \notin Starting
        BY <1>1, <2>3, <3>2, <4>2
      <4>4. \A j \in Listeners : Stopped(n, j)' <=> Stopped(n, j)
        BY <1>1, <4>3 DEF Stopped
      <4>5. listen'[n][0] \notin Starting
        BY <1>1, <4>2, <4>3, Bounds DEF Starting, Listeners
      <4> QED
        BY <2>3, <4>1, <4>4, <4>5, StopsKept
    <3> QED
      BY <3>1, <3>2
  <2> QED
    BY <2>1, <2>2, <2>3
<1> QED
  BY <1>2

(* A thread that dispatches a message does not stop.                       *)
LEMMA DispatchGoesOn ==
    ASSUME ReceiverTypes, \A m \in Nodes : StopsMatchThreads(m), UNCHANGED <<dtor, stops>>,
           \/ listen' = listen
           \/ \E n \in Nodes, i \in Listeners :
                 listen[n][i] = "block" /\ listen' = [listen EXCEPT ![n][i] = "claim"]
    PROVE  \A m \in Nodes : StopsMatchThreads(m)'
<1>1. CASE listen' = listen
  BY <1>1, StopsKept DEF Stopped
<1>2. ASSUME NEW n \in Nodes, NEW i \in Listeners,
             listen[n][i] = "block", listen' = [listen EXCEPT ![n][i] = "claim"]
      PROVE  \A m \in Nodes : StopsMatchThreads(m)'
  BY <1>2, States, ThreadGoesOn DEF Stopped, Starting
<1> QED
  BY <1>1, <1>2

(* The destructor has one stop message for each thread, and none of them   *)
(* has stopped yet.                                                        *)
LEMMA AbortSendsOneForEach ==
    ASSUME ReceiverTypes, ReceiverInvariant, \A m \in Nodes : StopsMatchThreads(m),
           NEW n \in Nodes, Abort(n)
    PROVE  \A m \in Nodes : StopsMatchThreads(m)'
<1>1. /\ path[n] = "attached" /\ dtor[n] = "none" /\ listen' = listen
      /\ \/ dtor' = [dtor EXCEPT ![n] = "wait0"] /\ UNCHANGED stops
         \/ /\ listen[n][0] # "new" /\ dtor' = [dtor EXCEPT ![n] = "stopping"]
            /\ stops' = [stops EXCEPT ![n] = Cardinality(Listeners)]
  BY DEF Abort
<1>2. ASSUME NEW m \in Nodes, m # n PROVE StopsMatchThreads(m)'
  <2>1. dtor'[m] = dtor[m] /\ stops'[m] = stops[m]
    BY <1>1, <1>2 DEF ReceiverTypes
  <2> QED
    BY <1>1, <2>1, StopsKept DEF Stopped
<1>3. CASE dtor' = [dtor EXCEPT ![n] = "wait0"]
  <2>1. dtor'[n] = "wait0"
    BY <1>3 DEF ReceiverTypes
  <2>2. StopsMatchThreads(n)'
    BY <2>1 DEF StopsMatchThreads
  <2> QED
    BY <1>2, <2>2
<1>4. CASE /\ listen[n][0] # "new" /\ dtor' = [dtor EXCEPT ![n] = "stopping"]
           /\ stops' = [stops EXCEPT ![n] = Cardinality(Listeners)]
  <2>1. stops'[n] = 2
    <3>1. Cardinality({0, 1}) = 2
      <4>1. IsFiniteSet({0}) /\ Cardinality({0}) = 1
        BY FS_Singleton
      <4>2. Cardinality({0} \cup {1}) = Cardinality({0}) + 1
        BY <4>1, FS_AddElement
      <4>3. {0} \cup {1} = {0, 1}
        OBVIOUS
      <4> QED
        BY <4>1, <4>2, <4>3
    <3> QED
      BY <1>4, <3>1 DEF ReceiverTypes, Listeners
  <2>2. \A i \in Listeners : ~Stopped(n, i) /\ listen[n][i] \notin {"none", "selfstop"}
    BY <1>1 DEF ReceiverInvariant, TasksWaitedFor
  <2>3. ToStop(n, 0)' = 1 /\ ToStop(n, 1)' = 1
    BY <1>1, <2>2, Bounds DEF ToStop, Stopped
  <2>4. listen'[n][0] \notin Starting
    BY <1>1, <1>4, <2>2, Bounds DEF Starting
  <2>5. StopsMatchThreads(n)'
    BY <2>1, <2>3, <2>4 DEF StopsMatchThreads, Starting
  <2> QED
    BY <1>2, <2>5
<1> QED
  BY <1>1, <1>3, <1>4

(* Each stop message stops one thread that had not stopped.                *)
LEMMA SendStopStopsOne ==
    ASSUME ReceiverTypes, \A m \in Nodes : StopsMatchThreads(m),
           NEW n \in Nodes, NEW i \in Listeners, SendStop(n, i)
    PROVE  \A m \in Nodes : StopsMatchThreads(m)'
<1>1. /\ dtor[n] = "stopping" /\ listen[n][i] = "block"
      /\ listen' = [listen EXCEPT ![n][i] = "leave"]
      /\ stops' = [stops EXCEPT ![n] = @ - 1]
      /\ dtor' = [dtor EXCEPT ![n] = IF stops[n] = 1 THEN "wait0" ELSE @]
  BY DEF SendStop, private_message_handler
<1>2. /\ listen'[n][i] = "leave"
      /\ \A j \in Listeners \ {i} : listen'[n][j] = listen[n][j]
      /\ \A m \in Nodes \ {n} : listen'[m] = listen[m]
  BY <1>1, ThreadGoes, States
<1>3. /\ stops'[n] = stops[n] - 1 /\ dtor'[n] = IF stops[n] = 1 THEN "wait0" ELSE "stopping"
      /\ \A m \in Nodes \ {n} : dtor'[m] = dtor[m] /\ stops'[m] = stops[m]
  BY <1>1 DEF ReceiverTypes
<1>4. \/ listen[n][0] = "overtaken"
      \/ listen[n][0] \notin Starting /\ stops[n] = ToStop(n, 0) + ToStop(n, 1)
  BY <1>1 DEF StopsMatchThreads, Starting
<1>5. ToStop(n, 0)' + ToStop(n, 1)' = ToStop(n, 0) + ToStop(n, 1) - 1
  BY <1>1, <1>2 DEF ToStop, Stopped, Listeners
<1>6. ASSUME listen[n][0] = "overtaken" PROVE StopsMatchThreads(n)'
  <2>1. listen'[n][0] = "overtaken"
    BY <1>1, <1>2, <1>6, Bounds
  <2> QED
    BY <2>1 DEF StopsMatchThreads
<1>7. ASSUME listen[n][0] # "overtaken" PROVE StopsMatchThreads(n)'
  <2>1. listen'[n][0] \notin Starting
    BY <1>2, <1>4, <1>7, Bounds DEF Starting, Listeners
  <2>2. stops'[n] = ToStop(n, 0)' + ToStop(n, 1)'
    BY <1>3, <1>4, <1>5, <1>7 DEF ToStop
  <2> QED
    BY <2>1, <2>2 DEF StopsMatchThreads, Starting
<1>8. ASSUME NEW m \in Nodes \ {n} PROVE StopsMatchThreads(m)'
  BY <1>2, <1>3, StopsKept DEF Stopped
<1>9. StopsMatchThreads(n)'
  BY <1>6, <1>7
<1> QED
  BY <1>8, <1>9

(* Every step of a receiver keeps the stop messages and the threads in     *)
(* step.                                                                   *)
LEMMA ReceiverStepStops ==
    ASSUME ReceiverTypes, ReceiverInvariant, \A m \in Nodes : StopsMatchThreads(m),
           NEW n \in Nodes, ReceiverStep(n)
    PROVE  \A m \in Nodes : StopsMatchThreads(m)'
<1>1. CASE StartListening(n) \/ StartListeningFails(n)
  <2>1. path[n] = "absent" /\ UNCHANGED <<dtor, stops>>
        /\ \A m \in Nodes \ {n} : listen'[m] = listen[m]
    BY <1>1 DEF StartListening, StartListeningFails, ReceiverTypes
  <2>2. dtor[n] = "none"
    BY <2>1 DEF ReceiverInvariant, TasksWaitedFor
  <2> QED
    BY <2>1, <2>2, StopsKept DEF Stopped
<1>2. CASE SelfStop(n)
  <2>1. listen[n][0] = "selfstop" /\ UNCHANGED <<dtor, stops>>
        /\ \A m \in Nodes \ {n} : listen'[m] = listen[m]
    BY <1>2 DEF SelfStop, ReceiverTypes
  <2>2. dtor[n] # "stopping"
    BY <2>1, Bounds DEF StopsMatchThreads
  <2> QED
    BY <2>1, <2>2, StopsKept DEF Stopped
<1>3. CASE Abort(n)
  BY <1>3, AbortSendsOneForEach
<1>4. CASE WaitForTask0(n) \/ Close(n)
  <2>1. /\ listen' = listen /\ stops' = stops /\ dtor'[n] # "stopping"
        /\ \A m \in Nodes \ {n} : dtor'[m] = dtor[m]
    BY <1>4 DEF WaitForTask0, Close, ReceiverTypes
  <2>2. StopsMatchThreads(n)'
    BY <2>1 DEF StopsMatchThreads
  <2>3. \A m \in Nodes \ {n} : StopsMatchThreads(m)'
    BY <2>1, StopsKept DEF Stopped
  <2> QED
    BY <2>2, <2>3
<1>5. ASSUME NEW i \in Listeners, Enter(n, i)
      PROVE  \A m \in Nodes : StopsMatchThreads(m)'
  <2>1. /\ listen[n][i] = "new" /\ UNCHANGED <<dtor, stops>>
        /\ \/ i = 0 /\ listen' = [listen EXCEPT ![n][i] = "selfstop"]
           \/ listen' = [listen EXCEPT ![n][i] = "check"]
    BY <1>5 DEF Enter
  <2>2. "selfstop" \in ThreadStates /\ "check" \in ThreadStates /\ i \in {0, 1}
    BY DEF ThreadStates, Listeners
  <2> QED
    BY <2>1, <2>2, ThreadGoesOn DEF Stopped, Starting
<1>6. ASSUME NEW i \in Listeners, Check(n, i)
      PROVE  \A m \in Nodes : StopsMatchThreads(m)'
  <2>1. /\ listen[n][i] = "check" /\ UNCHANGED <<dtor, stops>>
        /\ \/ dtor[n] # "stopping" /\ listen' = [listen EXCEPT ![n][i] = "leave"]
           \/ i = 0 /\ listen' = [listen EXCEPT ![n][i] = "overtaken"]
           \/ listen' = [listen EXCEPT ![n][i] = "block"]
    <3>1. dtor[n] = "stopping" /\ StopRequested(n, i) => i = 0
      BY DEF StopRequested
    <3> QED
      BY <1>6, <3>1, Zenon DEF Check, Overtaken
  <2> QED
    BY <2>1, States, ThreadGoesOn DEF Stopped, Starting
<1>7. ASSUME NEW i \in Listeners, Leave(n, i)
      PROVE  \A m \in Nodes : StopsMatchThreads(m)'
  <2>1. /\ listen[n][i] \in {"leave", "overtaken"} /\ (dtor[n] = "stopping" => i = 1)
        /\ UNCHANGED <<dtor, stops>> /\ listen' = [listen EXCEPT ![n][i] = "ended"]
    BY <1>7 DEF Leave, Listeners
  <2> QED
    BY <2>1, States, ThreadGoesOn DEF Stopped
<1>8. ASSUME NEW i \in Listeners, Claim(n, i) \/ Drain(n, i) \/ ExecuteMessageHandler(n, i)
      PROVE  \A m \in Nodes : StopsMatchThreads(m)'
  <2>1. /\ listen[n][i] \in {"claim", "drain", "handle"} /\ UNCHANGED <<dtor, stops>>
        /\ \E at \in {"block", "drain", "handle"} : listen' = [listen EXCEPT ![n][i] = at]
    BY <1>8 DEF Claim, Drain, ExecuteMessageHandler
  <2>2. PICK at \in {"block", "drain", "handle"} : listen' = [listen EXCEPT ![n][i] = at]
    BY <2>1
  <2>3. at \in ThreadStates
    BY States
  <2> QED
    BY <2>1, <2>2, <2>3, ThreadGoesOn DEF Stopped, Starting
<1>9. ASSUME NEW i \in Listeners,
             \/ StrangerStops(n, i)
             \/ \E c \in Callers, s \in Senders : StrangerWrites(n, i, c, s)
      PROVE  \A m \in Nodes : StopsMatchThreads(m)'
  BY <1>9, StrangerStep, DispatchGoesOn
<1>10. ASSUME NEW i \in Listeners, SendStop(n, i)
       PROVE  \A m \in Nodes : StopsMatchThreads(m)'
  BY <1>10, SendStopStopsOne
<1> QED
  BY <1>1, <1>2, <1>3, <1>4, <1>5, <1>6, <1>7, <1>8, <1>9, <1>10 DEF ReceiverStep

-----------------------------------------------------------------------------
(* The theorems.                                                           *)

(* The invariant holds at the start.                                       *)
LEMMA MessageInit ==
    ASSUME Init
    PROVE  TypeOK /\ MessageInvariant /\ \A n \in Nodes : StopsMatchThreads(n)
<1>1. \A s \in Senders : /\ object[s] = NewObject /\ object[s].queue = <<>> /\ ~object[s].alive
                         /\ object[s].queue \in Seq(Messages) /\ Len(object[s].queue) = 0
  BY EmptySeq DEF Init, NewObject
<1>2. /\ \A c \in Callers : caller[c].at = "idle" /\ caller[c].uses = NoSender
      /\ caller \in [Callers -> CallerRecords]
  BY CallStates DEF Init, CallerRecords
<1>3. worker \in WorkerRecords /\ worker.at = "idle" /\ worker.on = NoSender
  BY WorkerIdle DEF Init, Idle
<1>4. pool = <<>> /\ pool \in Seq(Senders) /\ DOMAIN pool = {}
  <2>1. pool = <<>> /\ pool \in Seq(Senders)
    BY EmptySeq DEF Init
  <2>2. DOMAIN pool = 1 .. Len(pool) /\ Len(pool) = 0
    BY <2>1, LenProperties, EmptySeq
  <2> QED
    BY <2>1, <2>2
<1>5. SenderTypes
  <2>1. object \in [Senders -> Objects]
    <3>1. NewObject \in Objects
      BY EmptySeq DEF NewObject, Objects
    <3> QED
      BY <1>1, <3>1 DEF Init, NewObject
  <2>2. /\ senders \in [Nodes -> Senders \cup {NoSender}] /\ created \in [Nodes -> 0 .. MaxSenders]
        /\ mutex \in Callers \cup {NoCaller} /\ calls \in [Callers -> Nat]
    BY Bounds DEF Init
  <2>3. \A s \in Senders : Len(object[s].queue) <= SenderQueueSize
    BY <1>1, Bounds
  <2> QED
     BY <1>2, <1>3, <1>4, <2>1, <2>2, <2>3 DEF SenderTypes, Objects, CallerRecords,
       WorkerRecords
<1>6. ReceiverTypes
  <2>1. <<>> \in Seq(Messages) /\ Len(<<>>) = 0
    BY EmptySeq
  <2>2. "none" \in ThreadStates
    BY DEF ThreadStates
  <2>3. \A n \in Nodes : inbox[n] = <<>> /\ Len(inbox[n]) <= ReceiverQueueSize
    BY <2>1, Bounds DEF Init
  <2> QED
    BY <2>1, <2>2, <2>3 DEF ReceiverTypes, Init
<1>7. ASSUME NEW n \in Nodes
      PROVE  QueueOwned(n) /\ NothingLost(n) /\ TasksWaitedFor(n) /\ StopsMatchThreads(n)
  <2>1. /\ path[n] = "absent" /\ inbox[n] = <<>> /\ owned[n] = FALSE /\ dtor[n] = "none"
        /\ arrived[n] = <<>> /\ handled[n] = <<>> /\ \A i \in Listeners : listen[n][i] = "none"
    BY DEF Init
  <2>2. QueueOwned(n)
    BY <2>1 DEF QueueOwned
  <2>3. <<>> \o <<>> = <<>>
    BY EmptySeq, ConcatEmptySeq
  <2>4. NothingLost(n)
    BY <2>1, <2>3 DEF NothingLost
  <2>5. TasksWaitedFor(n) /\ StopsMatchThreads(n)
    BY <2>1 DEF TasksWaitedFor, Stopped, StopsMatchThreads
  <2> QED
    BY <2>2, <2>4, <2>5
<1>8. SenderInvariant
  <2>1. SendersLive
    BY <1>1, Bounds DEF SendersLive, Init
  <2>2. \A c \in Callers : CallerHolds(c)
    BY <1>2 DEF CallerHolds
  <2>3. TasksMatchQueues
    BY <1>1, <1>3, <1>4 DEF TasksMatchQueues, NoMessageForgotten
  <2> QED
    BY <2>1, <2>2, <2>3 DEF SenderInvariant
<1>9. OrderInvariant
  <2>1. \A n \in Nodes : DOMAIN arrived[n] = {}
    <3>1. \A n \in Nodes : arrived[n] = <<>> /\ Len(arrived[n]) = 0
      BY EmptySeq DEF Init
    <3> QED
      BY <1>5, <1>6, <3>1, Elements
  <2>2. \A s \in Senders : DOMAIN object[s].queue = {}
    BY <1>1, <1>5, ObjectTypes
  <2> QED
    BY <2>1, <2>2 DEF OrderInvariant, ArrivedOnce, QueuedOnce, ArrivedBeforeQueued
<1> QED
  BY <1>5, <1>6, <1>7, <1>8, <1>9 DEF TypeOK, MessageInvariant, ReceiverInvariant

(* Every step keeps the type invariant and the invariant.                  *)
LEMMA MessageStep ==
    ASSUME TypeOK, MessageInvariant, [Next]_vars
    PROVE  TypeOK' /\ MessageInvariant'
<1>1. /\ SenderTypes /\ ReceiverTypes /\ SenderInvariant /\ ReceiverInvariant /\ OrderInvariant
  BY DEF TypeOK, MessageInvariant
<1>2. ASSUME UNCHANGED sending
      PROVE  SenderTypes' /\ SenderInvariant'
  <2>1. UNCHANGED <<senders, created, mutex, object, pool, worker, caller, calls>>
    BY <1>2 DEF sending, control, nonBlocking
  <2>2. SenderTypes'
    BY <1>1, <2>1 DEF SenderTypes
  <2>3. SendersLive' /\ TasksMatchQueues' /\ \A c \in Callers : CallerHolds(c)'
    BY <1>1, <2>1, LiveKept, TasksKept, CallersKept DEF SenderInvariant
  <2> QED
    BY <2>2, <2>3 DEF SenderInvariant
<1>3. ASSUME UNCHANGED <<sending, arrived>> PROVE OrderInvariant'
  <2>1. UNCHANGED <<object, worker, caller, calls>>
    BY <1>3 DEF sending, nonBlocking
  <2>2. \A m \in Messages : Numbered(m) => Numbered(m)'
    BY <2>1, NumbersKept
  <2> QED
    BY <1>1, <1>2, <1>3, <2>1, <2>2, OrderUntouched
<1>4. ASSUME NEW n \in Nodes, ReceiverStep(n) PROVE TypeOK' /\ MessageInvariant'
  <2>1. ReceiverTypes' /\ ReceiverInvariant' /\ UNCHANGED <<sending, arrived>>
    BY <1>1, <1>4, ReceiverStepKeeps
  <2> QED
    BY <1>2, <1>3, <2>1 DEF TypeOK, MessageInvariant
<1>5. ASSUME NEW c \in Callers, CallerStep(c) PROVE TypeOK' /\ MessageInvariant'
  <2>1. SenderTypes' /\ SenderInvariant'
    BY <1>1, <1>5, CallerStepKeeps
  <2>2. ReceiverTypes' /\ ReceiverInvariant'
    BY <1>1, <1>5, CallerMeetsReceiver
  <2>3. OrderInvariant'
    BY <1>1, <1>5, CallersInOrder
  <2> QED
    BY <2>1, <2>2, <2>3 DEF TypeOK, MessageInvariant
<1>6. CASE WorkerStep
  <2>1. SenderTypes' /\ SenderInvariant'
    BY <1>1, <1>6, WorkerStepKeeps
  <2>2. ReceiverTypes' /\ ReceiverInvariant'
    BY <1>1, <1>6, WorkerMeetsReceiver
  <2>3. OrderInvariant'
    BY <1>1, <1>6, WorkerInOrder
  <2> QED
    BY <2>1, <2>2, <2>3 DEF TypeOK, MessageInvariant
<1>7. CASE UNCHANGED vars
  <2>1. UNCHANGED sending /\ UNCHANGED receiving /\ UNCHANGED arrived
    BY <1>7 DEF vars, receiving, history
  <2>2. ReceiverTypes' /\ ReceiverInvariant'
    BY <1>1, <2>1, ReceiversKept
  <2> QED
    BY <1>2, <1>3, <2>1, <2>2 DEF TypeOK, MessageInvariant
<1> QED
  BY <1>4, <1>5, <1>6, <1>7 DEF Next

(* Message passing keeps its inductive invariant for any number of         *)
(* callers, nodes and senders, any queue sizes and any number of retries.  *)
THEOREM MessageInvariantHolds == Spec => [](TypeOK /\ MessageInvariant)
<1>1. Init => TypeOK /\ MessageInvariant
  BY MessageInit
<1>2. TypeOK /\ MessageInvariant /\ [Next]_vars => TypeOK' /\ MessageInvariant'
  BY MessageStep
<1> QED
  BY <1>1, <1>2, PTL DEF Spec

(* What was handled is the beginning of what arrived.                      *)
LEMMA ArrivalOrder == TypeOK /\ MessageInvariant => HandledAsTheyArrived
<1> SUFFICES ASSUME TypeOK, MessageInvariant, NEW n \in Nodes, NEW k \in DOMAIN handled[n]
             PROVE  k \in DOMAIN arrived[n] /\ handled[n][k] = arrived[n][k]
  BY DEF HandledAsTheyArrived
<1>1. /\ handled[n] \in Seq(Messages) /\ inbox[n] \in Seq(Messages) /\ arrived[n] \in Seq(Messages)
      /\ QueueOwned(n) /\ NothingLost(n)
  BY DEF TypeOK, ReceiverTypes, MessageInvariant, ReceiverInvariant
<1>2. /\ DOMAIN handled[n] = 1 .. Len(handled[n]) /\ Len(handled[n]) \in Nat
      /\ DOMAIN arrived[n] = 1 .. Len(arrived[n]) /\ Len(inbox[n]) \in Nat
  BY <1>1, LenProperties
<1>3. ASSUME NEW s \in Seq(Messages), Len(s) >= Len(handled[n]), s[k] = handled[n][k],
             arrived[n] = s \o inbox[n]
      PROVE  k \in DOMAIN arrived[n] /\ handled[n][k] = arrived[n][k]
  <2>1. Len(s) \in Nat
    BY LenProperties
  <2>2. /\ Len(arrived[n]) = Len(s) + Len(inbox[n])
        /\ \A i \in 1 .. Len(s) + Len(inbox[n]) :
              arrived[n][i] = IF i <= Len(s) THEN s[i] ELSE inbox[n][i - Len(s)]
    BY <1>1, <1>3, ConcatProperties
  <2>3. k \in 1 .. Len(s) + Len(inbox[n]) /\ k <= Len(s)
    BY <1>2, <1>3, <2>1
  <2> QED
    BY <1>2, <1>3, <2>2, <2>3
<1>4. CASE \A i \in Listeners : listen[n][i] # "handle"
  <2> DEFINE s == handled[n]
  <2>1. arrived[n] = s \o inbox[n]
    BY <1>1, <1>4 DEF NothingLost
  <2>2. s \in Seq(Messages) /\ Len(s) >= Len(handled[n]) /\ s[k] = handled[n][k]
    BY <1>1, <1>2
  <2> HIDE DEF s
  <2> QED
    BY <1>3, <2>1, <2>2
<1>5. ASSUME NEW i \in Listeners, listen[n][i] = "handle"
      PROVE  k \in DOMAIN arrived[n] /\ handled[n][k] = arrived[n][k]
  <2>1. held[n][i] \in Messages
    BY <1>1, <1>5 DEF QueueOwned
  <2> DEFINE s == Append(handled[n], held[n][i])
  <2>2. s \in Seq(Messages) /\ Len(s) = Len(handled[n]) + 1 /\ s[k] = handled[n][k]
    BY <1>1, <1>2, <2>1, AppendProperties
  <2>3. arrived[n] = s \o inbox[n]
    BY <1>1, <1>5 DEF NothingLost
  <2> HIDE DEF s
  <2> QED
    BY <1>2, <1>3, <2>2, <2>3
<1> QED
  BY <1>4, <1>5

(* Two threads that run handlers would be one.                             *)
LEMMA HandlersAlone == TypeOK /\ MessageInvariant => OneHandlerAtATime
<1> SUFFICES ASSUME TypeOK, MessageInvariant, NEW n \in Nodes
             PROVE  Cardinality({i \in Listeners : listen[n][i] \in {"drain", "handle"}}) <= 1
  BY DEF OneHandlerAtATime
<1> DEFINE S == {i \in Listeners : listen[n][i] \in {"drain", "handle"}}
<1>1. \A i, j \in S : i = j
  BY DEF MessageInvariant, ReceiverInvariant, QueueOwned
<1> HIDE DEF S
<1>2. CASE S = {}
  BY <1>2, FS_EmptySet DEF S
<1>3. ASSUME NEW i \in S PROVE Cardinality(S) <= 1
  <2>1. S = {i}
    BY <1>1, <1>3
  <2>2. Cardinality({i}) = 1
    BY FS_Singleton
  <2> QED
    BY <2>1, <2>2
<1> QED
  BY <1>2, <1>3 DEF S

(* Handlers see the messages that were really sent, once, in the order of  *)
(* their arrival and of their sender, one at a time, although two threads  *)
(* receive them and the worker of the sending process retries.             *)
THEOREM HandlingIsRight == Spec => []HandledRight
<1>1. TypeOK /\ MessageInvariant => HandledRight
  <2> SUFFICES ASSUME TypeOK, MessageInvariant PROVE HandledRight
    OBVIOUS
  <2>1. HandledAsTheyArrived /\ OneHandlerAtATime
    BY ArrivalOrder, HandlersAlone
  <2>2. ArrivedOnce
    BY DEF MessageInvariant, OrderInvariant
  <2>3. HandledInOrder
    BY <2>1, <2>2 DEF HandledInOrder, HandledAsTheyArrived, ArrivedOnce
  <2>4. HandledWereSent
    BY <2>1, <2>2 DEF HandledWereSent, HandledAsTheyArrived, ArrivedOnce, Numbered
  <2> QED
    BY <2>1, <2>3, <2>4 DEF HandledRight
<1> QED
  BY <1>1, MessageInvariantHolds, PTL

(* No message waits in a receiver that no thread will look at, and none in *)
(* a sender that the worker has no task for.                               *)
THEOREM NothingIsLeftBehind == Spec => []NothingLeftBehind
<1>1. MessageInvariant => NothingLeftBehind
   BY DEF NothingLeftBehind, NoMessageStranded, MessageInvariant, ReceiverInvariant,
     QueueOwned,
         SenderInvariant, TasksMatchQueues
<1> QED
  BY <1>1, MessageInvariantHolds, PTL

(* The worker, its tasks and the callers use senders that live, and the    *)
(* listening threads have ended when the receiver is gone.                 *)
THEOREM NothingIsUsedAfterFree == Spec => []NothingUsedAfterFree
<1>1. TypeOK /\ MessageInvariant => NothingUsedAfterFree
  <2> SUFFICES ASSUME TypeOK, MessageInvariant PROVE NothingUsedAfterFree
    OBVIOUS
  <2>1. ASSUME NEW c \in Callers, caller[c].uses # NoSender PROVE object[caller[c].uses].alive
    <3>1. CallerHolds(c) /\ caller[c].at \in CallerStates
      BY DEF MessageInvariant, SenderInvariant, TypeOK, SenderTypes
    <3> QED
      BY <2>1, <3>1 DEF CallerHolds, CallerStates
  <2>2. /\ worker.on # NoSender => object[worker.on].alive
        /\ \A k \in DOMAIN pool : object[pool[k]].alive
    BY DEF MessageInvariant, SenderInvariant, TasksMatchQueues
  <2>3. \A n \in Nodes : dtor[n] = "done" => \A i \in Listeners : listen[n][i] = "ended"
    BY DEF MessageInvariant, ReceiverInvariant, TasksWaitedFor, Listeners
  <2> QED
    BY <2>1, <2>2, <2>3 DEF NothingUsedAfterFree
<1> QED
  BY <1>1, MessageInvariantHolds, PTL

(* Every step keeps the stop messages and the threads in step.             *)
LEMMA StopsStep ==
    ASSUME TypeOK, MessageInvariant, \A m \in Nodes : StopsMatchThreads(m),
           [Next]_vars
    PROVE  \A m \in Nodes : StopsMatchThreads(m)'
<1>1. SenderTypes /\ ReceiverTypes /\ SenderInvariant /\ ReceiverInvariant
  BY DEF TypeOK, MessageInvariant
<1>2. ASSUME NEW n \in Nodes, ReceiverStep(n) PROVE \A m \in Nodes : StopsMatchThreads(m)'
  BY <1>1, <1>2, ReceiverStepStops
<1>3. ASSUME NEW c \in Callers, CallerStep(c) PROVE \A m \in Nodes : StopsMatchThreads(m)'
  <2>1. /\ UNCHANGED <<dtor, stops>>
        /\ \/ listen' = listen
           \/ \E n \in Nodes, i \in Listeners :
                 listen[n][i] = "block" /\ listen' = [listen EXCEPT ![n][i] = "claim"]
    BY <1>1, <1>3, CallerMeetsReceiver
  <2> QED
    BY <1>1, <2>1, DispatchGoesOn
<1>4. CASE WorkerStep
  <2>1. /\ UNCHANGED <<dtor, stops>>
        /\ \/ listen' = listen
           \/ \E n \in Nodes, i \in Listeners :
                 listen[n][i] = "block" /\ listen' = [listen EXCEPT ![n][i] = "claim"]
    BY <1>1, <1>4, WorkerMeetsReceiver
  <2> QED
    BY <1>1, <2>1, DispatchGoesOn
<1>5. CASE UNCHANGED vars
  <2>1. listen' = listen /\ dtor' = dtor /\ stops' = stops
    BY <1>5 DEF vars, receiving, listening
  <2> QED
    BY <1>1, <2>1, DispatchGoesOn
<1> QED
  BY <1>2, <1>3, <1>4, <1>5 DEF Next

(* How many threads are still to be stopped.                               *)
LEMMA ThreadsToStop ==
    ASSUME NEW n \in Nodes
    PROVE  Cardinality({i \in Listeners : ~Stopped(n, i)})
              = ToStop(n, 0) + ToStop(n, 1)
<1> DEFINE S == {i \in Listeners : ~Stopped(n, i)}
<1>1. \A i : i \in S <=> (i = 0 \/ i = 1) /\ ~Stopped(n, i)
  BY DEF Listeners
<1>2. CASE Stopped(n, 0) /\ Stopped(n, 1)
  <2>1. S = {}
    BY <1>1, <1>2
  <2> QED
    BY <1>2, <2>1, FS_EmptySet DEF ToStop
<1>3. CASE Stopped(n, 0) /\ ~Stopped(n, 1)
  <2>1. S = {1}
    BY <1>1, <1>3
  <2>2. Cardinality({1}) = 1
    BY FS_Singleton
  <2>3. ToStop(n, 0) = 0 /\ ToStop(n, 1) = 1
    BY <1>3 DEF ToStop
  <2> QED
    BY <2>1, <2>2, <2>3
<1>4. CASE ~Stopped(n, 0) /\ Stopped(n, 1)
  <2>1. S = {0}
    BY <1>1, <1>4
  <2>2. Cardinality({0}) = 1
    BY FS_Singleton
  <2>3. ToStop(n, 0) = 1 /\ ToStop(n, 1) = 0
    BY <1>4 DEF ToStop
  <2> QED
    BY <2>1, <2>2, <2>3
<1>5. CASE ~Stopped(n, 0) /\ ~Stopped(n, 1)
  <2>1. S = {0} \cup {1}
    BY <1>1, <1>5
  <2>2. IsFiniteSet({0}) /\ Cardinality({0}) = 1
    BY FS_Singleton
  <2>3. Cardinality({0} \cup {1}) = Cardinality({0}) + 1
    BY <2>2, FS_AddElement
  <2> QED
    BY <1>5, <2>1, <2>2, <2>3 DEF ToStop
<1> QED
  BY <1>2, <1>3, <1>4, <1>5

(* Every stop message the destructor of a receiver still has to send finds *)
(* a thread that takes it, except after the destructor has overtaken       *)
(* thread 0 between the installation of its stop callback and its look at  *)
(* the token: nothing else can make the destructor wait for ever.          *)
THEOREM StopMessagesAreReceived == Spec => []StopsAreReceived
<1> DEFINE Match == \A n \in Nodes : StopsMatchThreads(n)
<1>1. Init => Match
  BY MessageInit
<1>2. TypeOK /\ MessageInvariant /\ Match /\ [Next]_vars => Match'
  BY StopsStep
<1>3. Match => StopsAreReceived
  <2> SUFFICES ASSUME Match, NEW n \in Nodes, dtor[n] = "stopping", listen[n][0] # "overtaken"
               PROVE  stops[n] <= Cardinality({i \in Listeners : ~Stopped(n, i)})
    BY DEF StopsAreReceived
  <2>1. stops[n] = ToStop(n, 0) + ToStop(n, 1)
    BY DEF StopsMatchThreads
  <2>2. ToStop(n, 0) + ToStop(n, 1) <= ToStop(n, 0) + ToStop(n, 1)
    BY DEF ToStop
  <2> QED
    BY <2>1, <2>2, ThreadsToStop
<1> QED
  BY <1>1, <1>2, <1>3, MessageInvariantHolds, PTL DEF Spec

=============================================================================
