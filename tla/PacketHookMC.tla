---------------------------- MODULE PacketHookMC ----------------------------
(* The times and packets with which TLC checks PacketHook. *)
EXTENDS PacketHook

\* Around zero, and on both sides of a carry.
MCTimes == {[sec |-> p[1], nsec |-> p[2]] : p \in {<<0, 0>>, <<0, 2>>, <<0, -2>>, <<1, 0>>, <<2, 1>>, <<-1, -2>>}}

MCPackets == {<<"print">>, <<"print", "cr", "nl">>, <<"cr", "nl", "print">>,
              <<"cr", "nl">>, <<"space", "print">>, <<"print", "space", "nl">>, <<"print", "other", "nl">>, <<"other", "other", "other">>}
=============================================================================
