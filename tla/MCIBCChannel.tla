---------------------------- MODULE MCIBCChannel ----------------------------
EXTENDS IBCChannel, TLC

CONSTANTS a, b      \* the chains

\* Channel 1 of each chain is connected to channel 1 of the other, 10 to 10.
MCPairs == {(a :> "a1") @@ (b :> "b1"), (a :> "a10") @@ (b :> "b10")}
MCExtensions == {<<"a1", "a10">>, <<"b1", "b10">>}

\* Two open channels; one that closes; one with three packets; the handshakes,
\* with a packet as soon as one end is open, and with crossing hellos.
MCScopes ==
    LET one == {(a :> "a1") @@ (b :> "b1")}
    IN  {[pairs |-> MCPairs, established |-> TRUE, crossing |-> FALSE, packets |-> 2,
          amounts |-> {1, 2}, lag |-> 2, close |-> FALSE],
         [pairs |-> one, established |-> TRUE, crossing |-> FALSE, packets |-> 2,
          amounts |-> {1, 2}, lag |-> 2, close |-> TRUE],
         [pairs |-> one, established |-> TRUE, crossing |-> FALSE, packets |-> 3,
          amounts |-> {1}, lag |-> 1, close |-> FALSE],
         [pairs |-> one, established |-> FALSE, crossing |-> FALSE, packets |-> 1,
          amounts |-> {1}, lag |-> 2, close |-> TRUE],
         [pairs |-> one, established |-> FALSE, crossing |-> TRUE, packets |-> 0,
          amounts |-> {1}, lag |-> 2, close |-> FALSE]}
=============================================================================
