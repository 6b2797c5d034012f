---------------------------- MODULE CommandQueue ----------------------------
(***************************************************************************)
(* What the direct-connection server promises its callers: every machine   *)
(* has one queue of commands, which exists exactly while the machine is    *)
(* shown online.  Commands enter at the end, are transmitted and settled   *)
(* at the front, and are lost together when the connection is.  That hosts *)
(* reconnect is invisible here.  ServerService implements this module.     *)
(***************************************************************************)
EXTENDS Naturals, Sequences

CONSTANTS Id,       \* the machines
          Command   \* the commands callers may issue

VARIABLES online,   \* whether a machine is shown online
          queue,    \* its commands and whether each has been transmitted
          given     \* the commands taken from callers so far

vars == <<online, queue, given>>

Query == 0   \* the type query the server itself queues first

Entry(n) == [n |-> n, sent |-> FALSE]

Init == /\ online = [m \in Id |-> FALSE]
        /\ queue = [m \in Id |-> <<>>]
        /\ given = {}

\* A first connection: the machine is shown online and asked for its type.
Connect(m) == /\ ~online[m]
              /\ online' = [online EXCEPT ![m] = TRUE]
              /\ queue' = [queue EXCEPT ![m] = <<Entry(Query)>>]
              /\ UNCHANGED given

\* The connection is lost, with what is queued.
Lose(m) == /\ online[m]
           /\ online' = [online EXCEPT ![m] = FALSE]
           /\ queue' = [queue EXCEPT ![m] = <<>>]
           /\ UNCHANGED given

\* A caller issues a command, once.
Issue(m, n) == /\ online[m] /\ n \notin given
               /\ queue' = [queue EXCEPT ![m] = Append(@, Entry(n))]
               /\ given' = given \cup {n}
               /\ UNCHANGED online

\* A command that meets a connection being replaced or lost is lost too.
Waste(n) == /\ n \notin given
            /\ given' = given \cup {n}
            /\ UNCHANGED <<online, queue>>

Transmit(m) == /\ queue[m] # <<>>
               /\ queue' = [queue EXCEPT ![m][1].sent = TRUE]
               /\ UNCHANGED <<online, given>>

\* The first command is answered, or given up.
Settle(m) == /\ queue[m] # <<>>
             /\ queue' = [queue EXCEPT ![m] = Tail(@)]
             /\ UNCHANGED <<online, given>>

Next == \/ \E m \in Id : \/ Connect(m) \/ Lose(m) \/ Transmit(m) \/ Settle(m)
                         \/ \E n \in Command : Issue(m, n)
        \/ \E n \in Command : Waste(n)

Spec == Init /\ [][Next]_vars

=============================================================================
