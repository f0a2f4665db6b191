------------------------------- MODULE MCLink -------------------------------
(***************************************************************************)
(* The QS link on a small instance: the two byte streams with payloads     *)
(* full of flags and escapes and counters that run through both, or a      *)
(* whole session of one of three targets.                                  *)
(***************************************************************************)
EXTENDS QsWire, QsSession

VARIABLE level   \* "bytes" or "frames"

vars == <<level, wireVars, sessionVars>>

MCPayloads == {<<>>, <<126>>, <<125, 0>>}

WireIdle ==
    /\ dir = "none" /\ seq_no = 0 /\ line = <<>> /\ reader = NewDecoder
    /\ got = <<>> /\ sent = <<>> /\ due = <<>> /\ hurt = {}

SessionIdle ==
    /\ program = "none" /\ link = "none" /\ muted = FALSE /\ slots = <<>> /\ tele = <<>>
    /\ accepted = FALSE /\ sizes = DefaultSizes /\ shown = NoFrame /\ keys = <<>>
    /\ sender = "none" /\ chan = "down" /\ orders = <<>> /\ asked = 0 /\ emitted = 0 /\ breaks = 0
    /\ wanted = <<>> /\ told = [data |-> 0, wanted |-> 0]

Init ==
    \/ level = "bytes" /\ WireInit /\ SessionIdle
    \/ level = "frames" /\ SessionInit /\ WireIdle

Next ==
    /\ UNCHANGED level
    /\ \/ level = "bytes" /\ WireNext /\ UNCHANGED sessionVars
       \/ level = "frames" /\ SessionNext /\ UNCHANGED wireVars

\* The main loop of qspy runs until the user quits.
Fairness ==
    /\ WF_vars(level = "frames" /\ ReadAndPoll /\ UNCHANGED <<level, wireVars>>)
    /\ WF_vars(level = "frames" /\ TimeoutAndPoll /\ UNCHANGED <<level, wireVars>>)
    /\ WF_vars(level = "frames" /\ AcceptTelemetry /\ UNCHANGED <<level, wireVars>>)

Spec == Init /\ [][Next]_vars /\ Fairness

=============================================================================
