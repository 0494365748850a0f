---------------------------- MODULE MCPacketPath ----------------------------
(* Every command, for this stream and for another, payloads with and without *)
(* a NUL, empty, of one packet and of a full buffer, and every flaw.         *)
EXTENDS PacketPath

M(cmd, mine, data, flaw) == [cmd |-> cmd, mine |-> mine, data |-> data, flaw |-> flaw]
Sound == {M("OKAY", TRUE, <<>>, "none"), M("OKAY", FALSE, <<>>, "none"),
          M("CLSE", TRUE, <<>>, "none"), M("SYNC", FALSE, <<>>, "none"),
          M("WRTE", TRUE, <<>>, "none"), M("WRTE", TRUE, <<5>>, "none"),
          M("WRTE", TRUE, <<6, 0, 7, 8>>, "none"), M("CNXN", FALSE, <<9, 9, 9>>, "none")}
Unsound == {M("OKAY", TRUE, <<>>, "magic"), M("WRTE", TRUE, <<5, 5>>, "sum"),
            M("WRTE", TRUE, <<5>>, "long"), M("WRTE", TRUE, <<5, 5, 5>>, "more"),
            M("WRTE", TRUE, <<5, 5, 5, 5>>, "less")}
AllMessages == Sound \union Unsound
==============================================================================
