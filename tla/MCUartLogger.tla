---------------------------- MODULE MCUartLogger ----------------------------
EXTENDS UartLogger
MCKeys == {<<1, 1, 4>>, <<1, 2, 0>>, <<2, 1, 0>>}
MCFields == {[offset |-> 0, size |-> 4, count |-> 0], [offset |-> 4, size |-> 2, count |-> 4],
             [offset |-> 12, size |-> 1, count |-> 0]}
MCOptions == [transmit: BOOLEAN, loop: BOOLEAN, port: {0, 5920, 65536}, baud: {0},
              device: {"none"}]
=============================================================================
