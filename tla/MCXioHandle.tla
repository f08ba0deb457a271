---------------------------- MODULE MCXioHandle ----------------------------
EXTENDS XioHandle

\* Timeouts and refusals on different operations; two operations with a timeout
MCSetups ==
  {[timed |-> {"write", "close"}, refused |-> {}],
   [timed |-> {"write"}, refused |-> {"open", "close"}],
   [timed |-> {"close"}, refused |-> {"open", "write"}],
   [timed |-> {}, refused |-> {"write", "close"}]}

\* Two operations with a timeout
MCTwoTimers == {[timed |-> {"write", "close"}, refused |-> {}]}

\* No timeout, no refusal
MCPlain == {[timed |-> {}, refused |-> {}]}
=============================================================================
