--------------------------- MODULE MCTelegramBot ----------------------------
\* Instances of TelegramBot: two incidents, of which one has a source address,
\* an analyst, ann, and an administrator, bob.
EXTENDS TelegramBot

MCSourceIp == [i \in {"leak"} |-> "host"]

Press(u, i, to) == [kind |-> "press", user |-> u, incident |-> i, to |-> to]
Say(k, u) == [kind |-> k, user |-> u]
Decide(k, u, p) == [kind |-> k, user |-> u, plan |-> p]

Conversation ==
  {Press("ann", "leak", "resolved"), Press("ann", "scan", "false_positive"),
   Press("ann", "scan", "investigating")}
    \cup {Say(k, "ann") : k \in {"text", "invalid", "command"}}

Blocking ==
  {[kind |-> "propose", user |-> u, incident |-> "leak"] : u \in {"ann", "bob"}}
    \cup {Decide("approve", "bob", 1), Decide("approve", "ann", 1), Decide("reject", "ann", 1)}

\* Two long messages are too much for one answer.
Unwieldy ==
  {Press("ann", "leak", "resolved")} \cup {Say(k, "ann") : k \in {"long", "malformed"}}

MCMenus == {Conversation, Blocking, Unwieldy}

MCMoves == {<<"scan", "investigating">>}
=============================================================================
