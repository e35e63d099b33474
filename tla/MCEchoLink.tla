----------------------------- MODULE MCEchoLink ------------------------------
EXTENDS EchoLink

CONSTANTS t1, t2

Work(first, second, beats) ==
  [t \in Tasks |-> CASE t = t1 -> first [] t = t2 -> second [] t = hb -> beats]

\* Two tasks that share the client, and a heartbeat.
Shared == {
  Work(<<"connect", "send", "recv">>, <<"send", "ping">>, <<>>),
  Work(<<"connect", "send", "timedRecv">>, <<"send">>, <<"beat">>),
  Work(<<"connect", "packedSend", "timedRecv">>, <<"close">>, <<"beat">>),
  Work(<<"connect", "send">>, <<"connect">>, <<>>),
  Work(<<"connect", "retrySend">>, <<"reconnect", "sealedSend">>, <<"beat">>) }

\* As client/src/main.rs does with its plain messages: every send is followed by
\* its recv.  Its compressed and encrypted messages are not part of this: the
\* server may drop the one and does drop the other, and then recv waits.
Lockstep == { [t \in Tasks |-> IF t = t1
  THEN <<"connect", "send", "recv", "send", "recv", "ping", "close">> ELSE <<>>] }

\* Two sends before the first recv.
Pipelined == { [t \in Tasks |-> IF t = t1
  THEN <<"connect", "send", "send", "recv", "recv">> ELSE <<>>] }

\* One task connects while the other sends.
Overlapping == { Work(<<"connect">>, <<"send">>, <<>>) }

\* A send that finds the connection closed.
Reconnecting == { [t \in Tasks |-> IF t = t1
  THEN <<"connect", "close", "retrySend">> ELSE <<>>] }
==============================================================================
