------------------------------- MODULE RequestLife -------------------------------
(***************************************************************************)
(* What the request server promises of the requests, whatever its queues,  *)
(* its loop and the code that yields do: the life of a request, from its   *)
(* reception to the delivery of its only answer.                           *)
(***************************************************************************)
CONSTANT Requests

VARIABLES
  life,    \* "new", "queued", "running", "ready" (has its answer), "given" (the client
           \* has it), "lost" (it will never have one)
  killed,  \* requests that the client or a shutdown interrupts
  closed   \* the server shuts down, or has left its loop

vars == <<life, killed, closed>>

Init ==
  /\ life = [r \in Requests |-> "new"]
  /\ killed = {}
  /\ closed = FALSE

In(state) == {r \in Requests : life[r] = state}

\* A request is received: it waits for its turn, or is answered at once.
Accept(r) ==
  /\ life[r] = "new"
  /\ \E state \in {"queued", "ready"} : life' = [life EXCEPT ![r] = state]
  /\ UNCHANGED <<killed, closed>>

\* Requests run one at a time, and none that was killed is started.
Start(r) ==
  /\ life[r] = "queued" /\ r \notin killed
  /\ In("running") = {} /\ ~closed
  /\ life' = [life EXCEPT ![r] = "running"]
  /\ UNCHANGED <<killed, closed>>

\* A request that runs is answered, even when it is interrupted.
Finish(r) ==
  /\ life[r] = "running"
  /\ life' = [life EXCEPT ![r] = "ready"]
  /\ UNCHANGED <<killed, closed>>

\* A request that is killed in the queue gets no answer.
Skip(r) ==
  /\ life[r] = "queued" /\ r \in killed
  /\ life' = [life EXCEPT ![r] = "lost"]
  /\ UNCHANGED <<killed, closed>>

Kill(r) ==
  /\ life[r] \in {"queued", "running"}
  /\ killed' = killed \cup {r}
  /\ UNCHANGED <<life, closed>>

\* The client is given all the answers that are ready.  An exception raised by the
\* exchange ends the request that runs, or the server.
Exchange ==
  /\ \E ended \in SUBSET In("running") :
       life' = [r \in Requests |-> IF life[r] = "ready" THEN "given"
                                  ELSE IF r \in ended THEN "ready" ELSE life[r]]
  /\ closed' \in {closed, TRUE}
  /\ UNCHANGED killed

\* A shutdown forgets what waits, and interrupts what runs.
Shutdown ==
  /\ closed' = TRUE
  /\ life' = [r \in Requests |-> IF life[r] \in {"queued", "ready"} THEN "lost" ELSE life[r]]
  /\ killed' = killed \cup In("running")

\* The loop is left: nothing runs any more.
Leave ==
  /\ closed' = TRUE
  /\ life' = [r \in Requests |-> IF life[r] = "running" THEN "lost" ELSE life[r]]
  /\ UNCHANGED killed

Next ==
  \/ \E r \in Requests : Accept(r) \/ Start(r) \/ Finish(r) \/ Skip(r) \/ Kill(r)
  \/ Exchange \/ Shutdown \/ Leave

Spec == Init /\ [][Next]_vars

===============================================================================
