--------------------------- MODULE MCConnection ---------------------------
(* Small instances of Connection for TLC.                                   *)
EXTENDS Connection

Msg(id, kind) == [id |-> id, kind |-> kind]

(* Requests of which two are in flight when one fails or the connection     *)
(* ends, and a malformed packet that ends it.                               *)
MixedScript == <<Msg(1, "async"), Msg(2, "sync"), Msg(3, "async"), Msg(4, "fail")>>
BrokenScript == <<Msg(1, "async"), Msg(2, "sync"), Msg(3, "broken")>>

(* More requests than IoSem that are all answered. *)
AnswerScript ==
    <<Msg(1, "async"), Msg(2, "sync"), Msg(3, "async"), Msg(4, "skipped"), Msg(5, "cancel"), Msg(6, "async")>>

(* A request, its cancellation, which has the same message id, and another. *)
CancelScript == <<Msg(1, "async"), Msg(1, "cancel"), Msg(2, "sync"), Msg(3, "sync")>>

EndingScripts == {MixedScript, BrokenScript}
LifetimeScripts == EndingScripts \cup {AnswerScript}
OneScript == {CancelScript}
============================================================================
