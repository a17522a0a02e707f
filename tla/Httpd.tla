--------------------------------- MODULE Httpd ---------------------------------
(***************************************************************************)
(* LargerHttpd: one thread selects the connections that can be read or     *)
(* written, takes them out of the selector and puts their keys into a      *)
(* queue; worker threads take the keys, do one read or one write, and give *)
(* the connection back to the selector with the operation it waits for.    *)
(*                                                                         *)
(* What a worker does to a connection is one step, and the return to the   *)
(* selector another.  Of a request it matters whether its last character   *)
(* has come, of a response and of a file how many writes they take.  A     *)
(* client may break its connection, after which reads and writes throw     *)
(* IOException.  An accept may fail as well, for want of a descriptor: the *)
(* exception ends the loop over the selected keys, and those not handled   *)
(* stay selected.  Requests of 64 KB without a newline, requests that the  *)
(* security policy refuses (the exception ends the worker), clients that   *)
(* take no data and spurious readiness are left out.                       *)
(***************************************************************************)
EXTENDS Integers, SequencesExt, CondVar

CONSTANTS
  Clients, Workers,
  Nobody,        \* no client
  MaxParts,      \* bound: the parts a client sends before the end of its request
  MaxWrites      \* bound: the writes a response or a file takes

Main == "main"

HttpdAssumption ==
  /\ Nobody \notin Clients /\ Main \notin Workers
  /\ MaxParts \in Nat /\ MaxWrites \in Nat \ {0}

VARIABLES
  channel,    \* the state of each client's connection
  arrived,    \* what has come from it and was not read: "nothing", "part", "end"
  parts,      \* the parts it has sent
  broken,     \* the clients that broke their connections
  interest,   \* interestOps of the keys: "none", "read" or "write"
  readyOps,   \* readyOps of the keys, as the last select left them
  selected,   \* selectedKeys, but for those handled; Nobody is the server socket
  inHand,     \* the key that the selecting thread handles
  queue,      \* readyClients
  key,        \* the key in the hands of each worker
  left,       \* the writes left of the response or of the file; 0: both are null
  dropped     \* ghost: the connections that an IOException left out of all this

clientVars == <<channel, arrived, parts, broken>>
selectorVars == <<interest, readyOps, selected, inHand>>
vars == <<clientVars, selectorVars, queue, key, left, dropped, pc>>

Goto(t, from, to) == pc[t] = from /\ pc' = [pc EXCEPT ![t] = to]

------------------------------------------------------------------------------
(* The clients                                                             *)

Connect(c) ==
  /\ channel[c] = "none"
  /\ channel' = [channel EXCEPT ![c] = "connecting"]
  /\ UNCHANGED <<arrived, parts, broken, selectorVars, queue, key, left, dropped, pc>>

\* A part of a request, or what makes it complete: a newline or the end of
\* the stream.
Send(c) ==
  /\ channel[c] \in {"connecting", "open"}
  /\ parts[c] <= MaxParts
  /\ \/ /\ parts[c] < MaxParts
        /\ arrived' = [arrived EXCEPT ![c] = "part"]
        /\ parts' = [parts EXCEPT ![c] = @ + 1]
     \/ /\ arrived' = [arrived EXCEPT ![c] = "end"]
        /\ parts' = [parts EXCEPT ![c] = MaxParts + 1]
  /\ UNCHANGED <<channel, broken, selectorVars, queue, key, left, dropped, pc>>

\* Also a connection that waits to be accepted; it is accepted all the same.
Break(c) ==
  /\ channel[c] \in {"connecting", "open"} /\ c \notin broken
  /\ broken' = broken \cup {c}
  /\ UNCHANGED <<channel, arrived, parts, selectorVars, queue, key, left, dropped, pc>>

------------------------------------------------------------------------------
(* run: the selecting thread                                               *)

Ready ==
  {c \in Clients : \/ interest[c] = "read" /\ (arrived[c] # "nothing" \/ c \in broken)
                   \/ interest[c] = "write"}
    \cup {n \in {Nobody} : \E c \in Clients : channel[c] = "connecting"}

\* The select that finds something new; those that run out of time do nothing.
Select ==
  /\ Goto(Main, "select", "iterate")
  /\ Ready \ selected # {}
  /\ selected' = selected \cup Ready
  /\ readyOps' = [c \in Clients |-> IF c \in Ready THEN interest[c] ELSE readyOps[c]]
  /\ UNCHANGED <<clientVars, interest, inHand, queue, key, left, dropped>>

EndIteration ==
  /\ Goto(Main, "iterate", "select")
  /\ selected = {}
  /\ UNCHANGED <<clientVars, selectorVars, queue, key, left, dropped>>

\* acceptClient
acceptClient ==
  /\ pc[Main] = "iterate" /\ Nobody \in selected
  /\ selected' = selected \ {Nobody}
  /\ \E c \in Clients :
       /\ channel[c] = "connecting"
       /\ channel' = [channel EXCEPT ![c] = "open"]
       /\ interest' = [interest EXCEPT ![c] = "read"]
  /\ UNCHANGED <<arrived, parts, broken, readyOps, inHand, queue, key, left, dropped, pc>>

\* acceptClient, when accept throws: the client still waits to be accepted.
acceptThrows ==
  /\ Goto(Main, "iterate", "select")
  /\ Nobody \in selected
  /\ selected' = selected \ {Nobody}
  /\ UNCHANGED <<clientVars, interest, readyOps, inHand, queue, key, left, dropped>>

\* Mutant: the key goes into the queue with its operations left on.
TakeArmed ==
  /\ Goto(Main, "iterate", "add")
  /\ \E c \in selected \ {Nobody} : inHand' = c /\ selected' = selected \ {c}
  /\ UNCHANGED <<clientVars, interest, readyOps, queue, key, left, dropped>>

\* key.interestOps(0)
Disarm ==
  /\ Goto(Main, "iterate", "add")
  /\ \E c \in selected \ {Nobody} :
       /\ inHand' = c
       /\ selected' = selected \ {c}
       /\ interest' = [interest EXCEPT ![c] = "none"]
  /\ UNCHANGED <<clientVars, readyOps, queue, key, left, dropped>>

\* ClientQueue.add, with its notify.
Add ==
  /\ pc[Main] = "add"
  /\ SignalOne(Main, Workers, "iterate")
  /\ queue' = Append(queue, inHand)
  /\ inHand' = Nobody
  /\ UNCHANGED <<clientVars, interest, readyOps, selected, key, left, dropped>>

------------------------------------------------------------------------------
(* handleClient, by a worker                                               *)

\* ClientQueue.next
Next_(w) ==
  /\ pc[w] \in {"next", "woken"}
  /\ IF queue = <<>>
     THEN pc' = [pc EXCEPT ![w] = "waiting"] /\ UNCHANGED <<queue, key>>
     ELSE /\ pc' = [pc EXCEPT ![w] = "handle"]
          /\ key' = [key EXCEPT ![w] = Head(queue)]
          /\ queue' = Tail(queue)
  /\ UNCHANGED <<clientVars, selectorVars, left, dropped>>

SpuriousWakeup(w) ==
  /\ WakeSpuriously(w)
  /\ UNCHANGED <<clientVars, selectorVars, queue, key, left, dropped>>

\* An IOException leaves handleClient, and the key as it is.
Throw(w) ==
  /\ pc[w] = "handle" /\ key[w] \in broken
  /\ dropped' = dropped \cup {key[w]}
  /\ key' = [key EXCEPT ![w] = Nobody]
  /\ pc' = [pc EXCEPT ![w] = "next"]
  /\ UNCHANGED <<clientVars, selectorVars, queue, left>>

\* HttpdConnection.read, and processRequest if the request is complete: it
\* finds a file, or makes a response that says what is wrong.
Read(w) ==
  LET c == key[w] IN
  /\ pc[w] = "handle" /\ readyOps[c] = "read" /\ c \notin broken
  /\ arrived' = [arrived EXCEPT ![c] = "nothing"]
  /\ IF arrived[c] = "end"
     THEN /\ \E n \in 1..MaxWrites : left' = [left EXCEPT ![c] = n]
          /\ pc' = [pc EXCEPT ![w] = "want_write"]
     ELSE pc' = [pc EXCEPT ![w] = "want_read"] /\ UNCHANGED left
  /\ UNCHANGED <<channel, parts, broken, selectorVars, queue, key, dropped>>

\* HttpdConnection.write.  Every write takes some of what is left; of a file
\* the last one finds nothing left and closes it.
Write(w) ==
  LET c == key[w] IN
  /\ pc[w] = "handle" /\ readyOps[c] = "write" /\ c \notin broken
  /\ left' = [left EXCEPT ![c] = @ - 1]
  /\ IF left[c] = 1
     THEN /\ channel' = [channel EXCEPT ![c] = "closed"]
          /\ key' = [key EXCEPT ![w] = Nobody]
          /\ pc' = [pc EXCEPT ![w] = "next"]
     ELSE /\ pc' = [pc EXCEPT ![w] = "want_write"]
          /\ UNCHANGED <<channel, key>>
  /\ UNCHANGED <<arrived, parts, broken, selectorVars, queue, dropped>>

\* key.interestOps(OP_READ) or key.interestOps(OP_WRITE)
Rearm(w) ==
  /\ pc[w] \in {"want_read", "want_write"}
  /\ interest' = [interest EXCEPT ![key[w]] = IF pc[w] = "want_read" THEN "read" ELSE "write"]
  /\ key' = [key EXCEPT ![w] = Nobody]
  /\ pc' = [pc EXCEPT ![w] = "next"]
  /\ UNCHANGED <<clientVars, readyOps, selected, inHand, queue, left, dropped>>

------------------------------------------------------------------------------
Init ==
  /\ channel = [c \in Clients |-> "none"]
  /\ arrived = [c \in Clients |-> "nothing"]
  /\ parts = [c \in Clients |-> 0]
  /\ broken = {}
  /\ interest = [c \in Clients |-> "none"]
  /\ readyOps = [c \in Clients |-> "none"]
  /\ selected = {} /\ inHand = Nobody
  /\ queue = <<>>
  /\ key = [w \in Workers |-> Nobody]
  /\ left = [c \in Clients |-> 0]
  /\ dropped = {}
  /\ pc = [t \in Workers \cup {Main} |-> IF t = Main THEN "select" ELSE "next"]

run == Select \/ EndIteration \/ acceptClient \/ Disarm \/ Add

handleClient(w) == Next_(w) \/ Throw(w) \/ Read(w) \/ Write(w) \/ Rearm(w)

Next ==
  \/ \E c \in Clients : Connect(c) \/ Send(c) \/ Break(c)
  \/ run \/ acceptThrows
  \/ \E w \in Workers : handleClient(w) \/ SpuriousWakeup(w)

Spec == Init /\ [][Next]_vars

\* The threads of the server run, and accept does not fail for ever; clients
\* do as they please.
FairSpec ==
  /\ Spec
  /\ WF_vars(run) /\ SF_vars(acceptClient)
  /\ \A w \in Workers : WF_vars(handleClient(w))

------------------------------------------------------------------------------
TypeOK ==
  /\ \A c \in Clients :
       /\ channel[c] \in {"none", "connecting", "open", "closed"}
       /\ arrived[c] \in {"nothing", "part", "end"}
       /\ {interest[c], readyOps[c]} \subseteq {"none", "read", "write"}
       /\ left[c] \in 0..MaxWrites
  /\ selected \subseteq Clients \cup {Nobody}
  /\ queue \in Seq(Clients)
  /\ pc[Main] \in {"select", "iterate", "add"}
  /\ \A w \in Workers :
       pc[w] \in {"next", "waiting", "woken", "handle", "want_read", "want_write"}

\* Where a connection can be: with the selector, in the hands of the
\* selecting thread, in the queue, with a worker, or dropped.
Places(c) ==
  {<<"selector">> : n \in {c} \cap {d \in Clients : interest[d] # "none"}}
    \cup {<<"main">> : n \in {c} \cap {inHand}}
    \cup {<<"queue", i>> : i \in {j \in DOMAIN queue : queue[j] = c}}
    \cup {<<"worker", w>> : w \in {v \in Workers : key[v] = c}}
    \cup {<<"dropped">> : n \in {c} \cap dropped}

\* An open connection is in one place, so that no two workers use its buffer
\* and none forgets it, and it is dropped only when its client has broken
\* it.  A closed connection is nowhere.
KeyInOnePlace ==
  /\ \A c \in Clients :
       IF channel[c] = "open" THEN \E p \in Places(c) : Places(c) = {p}
                              ELSE Places(c) = {}
  /\ dropped \subseteq broken

\* A client that connects and sends a request gets its answer, unless it
\* breaks the connection.
RequestsServed ==
  \A c \in Clients :
    (channel[c] \in {"connecting", "open"} /\ arrived[c] = "end")
      ~> (channel[c] = "closed" \/ c \in broken)
==============================================================================
