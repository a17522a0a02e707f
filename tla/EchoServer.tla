------------------------------ MODULE EchoServer ------------------------------
(***************************************************************************)
(* The echo server (echod): it accepts a client, reads one line that says  *)
(* how the client is to be served - in place, by a thread or by a process  *)
(* - and serves it, line by line, until the client says quit.              *)
(*                                                                         *)
(* The answers of a session stay in the buffer of its stream until the     *)
(* stream is closed or the process ends.  A fork copies the buffers and    *)
(* the open connections of the server, and the end of the child writes     *)
(* what is in the copies.                                                  *)
(*                                                                         *)
(* A client may stop sending at any time; it does not close before it has  *)
(* read to the end, as client.sh.  An answer is the number of its line.    *)
(***************************************************************************)
EXTENDS Naturals, Sequences, SequencesExt

CONSTANTS
  Clients,    \* each connects once; its name is that of its child process, too
  Server,     \* the first process
  MaxLines    \* the lines of a client to be echoed

EchoServerAssumption == Server \notin Clients /\ MaxLines \in Nat

VARIABLES
  at, current,   \* where the first thread is, and the client it serves
  conn,          \* of a client: "none", "queued", "accepted"
  session,       \* the way a client is served
  ended,         \* the clients whose sessions have been closed
  line,          \* the line of a client that is not read yet, or "none"
  sent,          \* the lines a client has sent to be echoed
  buffered,      \* in each process, the answers to each client not yet written
  received,      \* the answers a client can read
  open,          \* the clients whose connections a process has open
  child          \* of a client: "none", "running", "exited", "reaped"

clientVars == <<conn, line, sent>>
dataVars == <<buffered, received, open>>
vars == <<at, current, clientVars, session, ended, dataVars, child>>

EchoProcesses == Clients \cup {Server}

Kinds == {"single", "thread", "process"}

Home(c) == IF session[c] = "process" THEN c ELSE Server

Runs(p) == IF p = Server THEN at # "exited" ELSE child[p] = "running"

Active(c) == session[c] \in Kinds /\ c \notin ended /\ Runs(Home(c))

------------------------------------------------------------------------------
(* The clients                                                             *)

\* The children inherit the socket that listens, and keep it open.
Connect(c) ==
  /\ conn[c] = "none"
  /\ \E p \in EchoProcesses : Runs(p)
  /\ conn' = [conn EXCEPT ![c] = "queued"]
  /\ UNCHANGED <<at, current, line, sent, session, ended, dataVars, child>>

\* The first line, the lines after it, or the end of the client's data.
Say(c) ==
  /\ conn[c] # "none" /\ line[c] = "none"
  /\ \/ /\ session[c] = "none"
        /\ \E l \in Kinds \cup {"exit", "other", "eof"} : line' = [line EXCEPT ![c] = l]
        /\ UNCHANGED sent
     \/ /\ Active(c) /\ sent[c] < MaxLines
        /\ line' = [line EXCEPT ![c] = "echo"]
        /\ sent' = [sent EXCEPT ![c] = @ + 1]
     \/ /\ Active(c)
        /\ \E l \in {"quit", "eof"} : line' = [line EXCEPT ![c] = l]
        /\ UNCHANGED sent
  /\ UNCHANGED <<at, current, conn, session, ended, dataVars, child>>

------------------------------------------------------------------------------
(* server() and serve()                                                    *)

Accept(c) ==
  /\ at = "select" /\ conn[c] = "queued"
  /\ at' = "serve" /\ current' = c
  /\ conn' = [conn EXCEPT ![c] = "accepted"]
  /\ open' = [open EXCEPT ![Server] = @ \cup {c}]
  /\ UNCHANGED <<line, sent, session, ended, buffered, received, child>>

\* select() returns after ECHOD_REAP seconds.
Timeout ==
  /\ at = "select" /\ \A c \in Clients : conn[c] # "queued"
  /\ at' = "reap"
  /\ UNCHANGED <<current, clientVars, session, ended, dataVars, child>>

\* Mutant: the children stay.
ReapNone ==
  /\ at = "reap" /\ at' = "select"
  /\ UNCHANGED <<current, clientVars, session, ended, dataVars, child>>

\* The loop around waitpid.
Reap ==
  /\ at = "reap" /\ at' = "select"
  /\ child' = [c \in Clients |-> IF child[c] = "exited" THEN "reaped" ELSE child[c]]
  /\ UNCHANGED <<current, clientVars, session, ended, dataVars>>

\* getline() of the first line of the client in service.
Command(lines) ==
  /\ at = "serve" /\ line[current] \in lines
  /\ line' = [line EXCEPT ![current] = IF @ = "eof" THEN @ ELSE "none"]
  /\ UNCHANGED <<current, conn, sent>>

\* cmd_single and cmd_thread: in place, the server waits until the session
\* ends.
Begin ==
  /\ Command({"single", "thread"})
  /\ session' = [session EXCEPT ![current] = line[current]]
  /\ at' = IF line[current] = "single" THEN "single" ELSE "reap"
  /\ UNCHANGED <<ended, dataVars, child>>

\* cmd_process: the child has what the server has; the parent closes the
\* connection.
Fork ==
  /\ Command({"process"})
  /\ session' = [session EXCEPT ![current] = "process"]
  /\ child' = [child EXCEPT ![current] = "running"]
  /\ buffered' = [buffered EXCEPT ![current] = buffered[Server]]
  /\ open' = [open EXCEPT ![current] = open[Server], ![Server] = @ \ {current}]
  /\ at' = "reap"
  /\ UNCHANGED <<ended, received>>

\* The end of process p, after it has closed the connections in `closed':
\* exit() writes what is in its buffers.
ExitProcess(p) ==
  /\ received' = [c \in Clients |-> received[c] \o buffered[p][c]]
  /\ buffered' = [buffered EXCEPT ![p] = [c \in Clients |-> <<>>]]
  /\ open' = [open EXCEPT ![p] = {}]

\* cmd_exit
Exit ==
  /\ Command({"exit"})
  /\ at' = "exited"
  /\ ExitProcess(Server)
  /\ UNCHANGED <<session, ended, child>>

\* The connection is not closed.
NoCommand ==
  /\ Command({"other", "eof"})
  /\ session' = [session EXCEPT ![current] = "refused"]
  /\ at' = "reap"
  /\ UNCHANGED <<ended, dataVars, child>>

------------------------------------------------------------------------------
(* cmd_single(), which does nothing more when it meets the end of the      *)
(* client's data, but for trying again.                                    *)

Echo(c) ==
  /\ Active(c) /\ line[c] = "echo"
  /\ line' = [line EXCEPT ![c] = "none"]
  /\ buffered' = [buffered EXCEPT ![Home(c)][c] = Append(@, sent[c])]
  /\ UNCHANGED <<at, current, conn, sent, session, ended, received, open, child>>

\* fpp_close() writes the answers; a child ends.
Quit(c) ==
  /\ Active(c) /\ line[c] = "quit"
  /\ line' = [line EXCEPT ![c] = "none"]
  /\ ended' = ended \cup {c}
  /\ IF session[c] = "process"
     THEN ExitProcess(c) /\ child' = [child EXCEPT ![c] = "exited"]
     ELSE /\ received' = [received EXCEPT ![c] = @ \o buffered[Server][c]]
          /\ buffered' = [buffered EXCEPT ![Server][c] = <<>>]
          /\ open' = [open EXCEPT ![Server] = @ \ {c}]
          /\ UNCHANGED child
  /\ at' = IF session[c] = "single" THEN "reap" ELSE at
  /\ UNCHANGED <<current, conn, sent, session>>

------------------------------------------------------------------------------
Init ==
  /\ at = "select" /\ current = CHOOSE c \in Clients : TRUE
  /\ conn = [c \in Clients |-> "none"]
  /\ session = [c \in Clients |-> "none"]
  /\ ended = {}
  /\ line = [c \in Clients |-> "none"]
  /\ sent = [c \in Clients |-> 0]
  /\ buffered = [p \in EchoProcesses |-> [c \in Clients |-> <<>>]]
  /\ received = [c \in Clients |-> <<>>]
  /\ open = [p \in EchoProcesses |-> {}]
  /\ child = [c \in Clients |-> "none"]

client(c) == Connect(c) \/ Say(c)

server ==
  \/ \E c \in Clients : Accept(c)
  \/ Timeout \/ Reap \/ Begin \/ Fork \/ Exit \/ NoCommand

cmd_single(c) == Echo(c) \/ Quit(c)

Next == server \/ \E c \in Clients : client(c) \/ cmd_single(c)

Spec == Init /\ [][Next]_vars

\* The server and the sessions run; the clients need not.
FairSpec ==
  /\ Spec
  /\ WF_vars(server)
  /\ \A c \in Clients : WF_vars(cmd_single(c))

------------------------------------------------------------------------------
Answers(c) == [n \in 1..sent[c] |-> n]

\* A client that is served in place or by a process reads its answers, each
\* of them once and in order, and then the end of the data.  One that is
\* served by a thread reads them all, but a process forked during its
\* session writes those that were in the buffer again, and keeps the
\* connection open.
EchoSessions ==
  \A c \in Clients :
    /\ session[c] \in {"single", "process"} =>
         received[c] = IF c \in ended THEN Answers(c) ELSE <<>>
    /\ c \in ended =>
         /\ \E n \in 0..Len(received[c]) :
              IsPrefix(Answers(c), SubSeq(received[c], n + 1, Len(received[c])))
         /\ \A p \in EchoProcesses :
              c \in open[p] => session[c] = "thread" /\ p # Server

\* The server comes back to those that wait to be accepted and to the
\* children that have exited, unless the client it serves says nothing, ends
\* its data in a session in place, or has made it exit.
EchoGoesOn ==
  \/ <>[](\/ at = "exited"
          \/ at = "serve" /\ line[current] = "none"
          \/ at = "single" /\ line[current] \in {"none", "eof"})
  \/ \A c \in Clients : []<>(conn[c] # "queued" /\ child[c] # "exited")
==============================================================================
