--------------------------- MODULE MCEventMailbox ---------------------------
(* Two cores: ordinary code on each and one interrupt handler on core 0,   *)
(* a ring of two slots and counters that wrap after four increments.       *)
EXTENDS EventMailbox

CONSTANTS c0, c1, main0, isr0, main1

MCCore == {c0, c1}
MCThread == {main0, isr0, main1}
MCHandler == {isr0}
MCCoreOf == [t \in MCThread |-> IF t = main1 THEN c1 ELSE c0]

=============================================================================
