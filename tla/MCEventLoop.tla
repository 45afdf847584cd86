----------------------------- MODULE MCEventLoop -----------------------------
EXTENDS EventLoop

N(base, size) == [base |-> base, size |-> size]

\* One region; one of each alignment; holes that fit only an event, only one key
\* press, or one of either.
MCInitialLists == {
  <<N(24, 400)>>, <<N(28, 400)>>,
  <<N(24, 28), N(56, 400)>>, <<N(24, 24), N(56, 400)>>, <<N(28, 24), N(56, 400)>>,
  <<N(24, 36), N(64, 400)>>, <<N(28, 32), N(64, 400)>>, <<N(24, 44), N(72, 400)>>,
  <<N(24, 64), N(92, 380)>>, <<N(24, 28), N(56, 40), N(100, 380)>>
}
=============================================================================
