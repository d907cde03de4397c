---------------------------- MODULE BinaryServer ----------------------------
(***************************************************************************)
(* BinaryServer of src/src/servers/server_binary.cc on its libev loop, and *)
(* the threads that hand it replication tasks.                             *)
(*                                                                         *)
(* A producer thread pushes a task on binary->tasks and then calls         *)
(* signal_async.send() (Binary, not among the sources here).  libev's      *)
(* ev_async keeps one pending flag: send() sets it, however often it is    *)
(* called, and the loop clears it before it invokes signal_async_cb.  The  *)
(* callback runs tasks.call() until it returns false; each call pops one   *)
(* task and runs it, and a replication task calls trigger_replication().   *)
(* The loop is one thread: while it is inside signal_async_cb no other     *)
(* watcher runs, and io_accept_cb runs between callbacks.                  *)
(*                                                                         *)
(* A client socket is one of Socks; the server creates a BinaryClient on   *)
(* it, which is destroyed (its socket freed) when its init fails, and ends *)
(* on its own otherwise.                                                   *)
(***************************************************************************)
EXTENDS Naturals, Sequences, FiniteSets

CONSTANTS
  Producers,  \* threads that schedule replication tasks
  Tasks,      \* the tasks; each is pushed once, by the producer Owner[t]
  Owner,      \* [Tasks -> Producers]
  Socks       \* the descriptors accept()/connection_socket() can return

ASSUME Owner \in [Tasks -> Producers]

VARIABLES
  queue,      \* binary->tasks
  pending,    \* signal_async's pending flag
  inCb,       \* the loop thread is inside signal_async_cb
  pc,         \* [Producers -> "idle" or the task pushed but not yet signalled]
  pushed,     \* history: tasks pushed so far
  ran,        \* history: tasks tasks.call() has run
  client      \* [Socks -> "free", "live"]: the BinaryClient on each socket

vars == <<queue, pending, inCb, pc, pushed, ran, client>>

Idle == "idle"

FreeSocks == {s \in Socks : client[s] = "free"}

-----------------------------------------------------------------------------
(* The environment: producers and libev.                                   *)

\* A producer pushes its next task on binary->tasks.
Push(p, t) ==
  /\ pc[p] = Idle
  /\ Owner[t] = p /\ t \notin pushed
  /\ queue' = Append(queue, t)
  /\ pc' = [pc EXCEPT ![p] = t]
  /\ pushed' = pushed \cup {t}
  /\ UNCHANGED <<pending, inCb, ran, client>>

\* ... and then wakes the loop: signal_async.send().
Send(p) ==
  /\ pc[p] # Idle
  /\ pending' = TRUE
  /\ pc' = [pc EXCEPT ![p] = Idle]
  /\ UNCHANGED <<queue, inCb, pushed, ran, client>>

\* The loop finds the async watcher pending, clears it and invokes the
\* callback.
Dispatch ==
  /\ ~inCb /\ pending
  /\ pending' = FALSE
  /\ inCb' = TRUE
  /\ UNCHANGED <<queue, pc, pushed, ran, client>>

\* A client on its own socket finishes and is destroyed.
ClientEnds(s) ==
  /\ client[s] = "live"
  /\ client' = [client EXCEPT ![s] = "free"]
  /\ UNCHANGED <<queue, pending, inCb, pc, pushed, ran>>

-----------------------------------------------------------------------------
(* The server.                                                             *)

\* Make a BinaryClient on a new socket and run its init(): a client whose
\* init fails is destroyed at once, which frees the socket.  No socket:
\* accept() or connection_socket() returned -1 and nothing is created.
\* A variant of NewClient that leaves a client whose init failed without
\* destroying it.
NewClientNoDestroy ==
  \/ client' = client
  \/ \E s \in FreeSocks : \/ client' = [client EXCEPT ![s] = "live"]
                         \/ client' = [client EXCEPT ![s] = "failed"]

NewClient ==
  \/ client' = client
  \/ \E s \in FreeSocks : \/ client' = [client EXCEPT ![s] = "live"]
                         \/ client' = [client EXCEPT ![s] = "free"]

\* BinaryServer::trigger_replication: connection_socket(); on success a
\* client running init_replication(), destroyed if that fails.
TriggerReplication == NewClient

\* One iteration of "while (binary->tasks.call(...)) {}": the call pops and
\* runs a task, and returns false on an empty queue, ending the callback.
\* A variant of SignalAsyncCb that runs one task per callback ("if" for
\* "while").
SignalAsyncCbOnce ==
  /\ inCb
  /\ IF queue = <<>>
     THEN /\ inCb' = FALSE /\ UNCHANGED <<queue, ran, client>>
     ELSE /\ queue' = Tail(queue)
          /\ ran' = ran \cup {Head(queue)}
          /\ TriggerReplication
          /\ inCb' = FALSE
  /\ UNCHANGED <<pending, pc, pushed>>

SignalAsyncCb ==
  /\ inCb
  /\ IF queue = <<>>
     THEN /\ inCb' = FALSE /\ UNCHANGED <<queue, ran, client>>
     ELSE /\ queue' = Tail(queue)
          /\ ran' = ran \cup {Head(queue)}
          /\ TriggerReplication
          /\ UNCHANGED inCb
  /\ UNCHANGED <<pending, pc, pushed>>

\* BinaryServer::io_accept_cb: an EV_ERROR event or a failing accept()
\* returns at once; otherwise a client running init_remote(), destroyed if
\* that fails.
IoAcceptCb ==
  /\ ~inCb
  /\ NewClient
  /\ UNCHANGED <<queue, pending, inCb, pc, pushed, ran>>

-----------------------------------------------------------------------------
\* BinaryServer::BinaryServer: both watchers started, nothing queued.
Init ==
  /\ queue = <<>> /\ pending = FALSE /\ inCb = FALSE
  /\ pc = [p \in Producers |-> Idle]
  /\ pushed = {} /\ ran = {}
  /\ client = [s \in Socks |-> "free"]

Next ==
  \/ \E p \in Producers, t \in Tasks : Push(p, t)
  \/ \E p \in Producers : Send(p)
  \/ Dispatch
  \/ SignalAsyncCb
  \/ IoAcceptCb
  \/ \E s \in Socks : ClientEnds(s)

\* A producer always gets to its send(); the loop thread keeps running
\* pending watchers and, inside the callback, keeps calling tasks.call().
\* Accepts and clients' ends are up to the peers: no fairness.
Fairness ==
  /\ \A p \in Producers : WF_vars(Send(p))
  /\ WF_vars(Dispatch)
  /\ WF_vars(SignalAsyncCb)

Spec == Init /\ [][Next]_vars /\ Fairness

-----------------------------------------------------------------------------
TypeOK ==
  /\ queue \in Seq(Tasks)
  /\ pending \in BOOLEAN /\ inCb \in BOOLEAN
  /\ pc \in [Producers -> Tasks \cup {Idle}]
  /\ pushed \subseteq Tasks /\ ran \subseteq pushed
  /\ client \in [Socks -> {"free", "live"}]   \* no client is left half made

(***************************************************************************)
(* No task is left behind: every task a producer pushes is eventually run  *)
(* by signal_async_cb, however the producers' pushes and sends interleave  *)
(* with the callback's last, empty tasks.call() and with libev coalescing  *)
(* several send()s into one invocation.                                    *)
(***************************************************************************)
TasksEventuallyRun == \A t \in Tasks : t \in pushed ~> t \in ran

=============================================================================
