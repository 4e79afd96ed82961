------------------------------- MODULE MCImap -------------------------------
(* Small instances of ImapSession for TLC.                                   *)
EXTENDS ImapSession, TLC

CONSTANTS m1, m2, out

Full   == ("INBOX" :> <<m1>>) @@ ("Archive" :> <<m2, m1>>) @@ ("Trash" :> <<m2>>) @@ ("Sent" :> <<>>)
Bare   == ("INBOX" :> <<m1, m2>>) @@ ("Trash" :> <<>>)
Known  == ("INBOX" :> <<m2>>) @@ ("Archive" :> <<m1>>) @@ ("Trash" :> <<m2>>)
SomeBoxes == {Full, Bare}
Filing == {"file"}
SomeServers  == {[box |-> Full, offers |-> {"UIDPLUS", "ID"}], [box |-> Bare, offers |-> {"MOVE", "IDLE"}]}
KnownServers == {[box |-> Known, offers |-> {"MOVE", "UIDPLUS"}]}
At == [m \in {m1, m2} |-> 1]
=============================================================================
