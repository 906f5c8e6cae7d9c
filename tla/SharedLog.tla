----------------------------- MODULE SharedLog -----------------------------
(***************************************************************************)
(* What private sync promises, without saying how: every environment       *)
(* numbers what it writes, one log orders what has been published, and a   *)
(* replica holds what it wrote itself and a prefix of the log.  An         *)
(* environment publishes its facts in their order and each of them once.   *)
(***************************************************************************)
EXTENDS Naturals, Sequences

CONSTANT Writer

VARIABLES
  written,   \* written[w]: how many facts writer w has written
  log,       \* the published facts, each a pair <<writer, number>>
  delivered  \* delivered[w]: how much of the log writer w's replica holds

logVars == <<written, log, delivered>>

Published(w) == {i \in 1 .. Len(log) : log[i][1] = w}

\* What the replica of a writer holds.
Holds(w) ==
  {<<w, n>> : n \in 1 .. written[w]} \cup {log[i] : i \in 1 .. delivered[w]}

LogInit ==
  /\ written = [w \in Writer |-> 0]
  /\ log = <<>>
  /\ delivered = [w \in Writer |-> 0]

Write(w) ==
  /\ written' = [written EXCEPT ![w] = @ + 1]
  /\ UNCHANGED <<log, delivered>>

\* The next fact of w that is not in the log yet.
Publish(w) ==
  \E n \in 1 .. written[w] :
    /\ \A i \in Published(w) : log[i][2] < n
    /\ n = 1 \/ \E i \in Published(w) : log[i][2] = n - 1
    /\ log' = Append(log, <<w, n>>)
    /\ UNCHANGED <<written, delivered>>

Deliver(w) ==
  \E n \in delivered[w] + 1 .. Len(log) :
    /\ delivered' = [delivered EXCEPT ![w] = n]
    /\ UNCHANGED <<written, log>>

LogNext == \E w \in Writer : Write(w) \/ Publish(w) \/ Deliver(w)

LogSpec == LogInit /\ [][LogNext]_logVars

=============================================================================
